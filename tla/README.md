# insights-remote in TLA+

insights-remote runs in every Lagoon cluster. It ships what builds and
containers find out about an environment ("insights": SBOMs, image
inspections, facts, problems) to Lagoon Core over RabbitMQ and to Dependency
Track. These modules model the parts of it that have state and that several
actors touch at once, check them with TLC on small instances, and prove the
main safety properties with TLAPS for every instance.

## The system

| Component | State | Operations | Interacts with |
|---|---|---|---|
| ConfigMap reconciler (`internal/controller/configmap_controller.go`, `cmlib/`) | none of its own: labels and annotations of the insights ConfigMap (`insightsProcessed`, `insightsWriteDeferred`, `retries`, `max-retry-exceeded`, one status per processor); the controller's work queue | event filters, `Reconcile`, `BatchUpdateCM` | API server through a cached client, post-processors, crons |
| Post-processors (`internal/postprocess/`) | none | `PostProcess` of Core, of the default and of the custom Dependency Track | RabbitMQ, Dependency Track, the `lagoon-env` secret |
| Deferred-clear cron (`cmd/main.go:589`) | the items of a run | list, compare with the clock, take the label off | the same ConfigMaps |
| Burn-after-reading cron (`cmd/main.go:545`) | the items of a run | list, delete what is processed | the same ConfigMaps |
| Namespace reconciler, tokens (`namespace_controller.go`, `internal/tokens/jwt.go`) | the `insights-token` secret of each environment | event filter, `Reconcile`, generate and validate | API server, web service |
| Build reconciler (`build_controller.go`) | the `scanned` label of the build pod, scan pods | filter, list images, kill and create scan pods | API server |
| Web service (`internal/service/service.go`) | none | facts and problems, written and deleted | tokens, RabbitMQ |
| Startup (`cmd/main.go`) | flags and environment | decides what runs, with which limits | all |

### What is hard here

* Everybody works on copies. Get and List read a cache fed by a watch; the
  post-processors run for seconds to minutes (Dependency Track uploads are
  polled for up to five), and the result is written back over an object that
  the build or a cron may have changed. Only the resource version that an
  Update carries protects it, and a Delete carries none.
* The queue is not persistent and the event filters drop events. A ConfigMap
  is looked at again only if an event passes them or a reconcile ends in an
  error; a mark set at the wrong moment hides it for ever.
* Calls fail before or after they have taken effect; the process dies between
  a delivery and its record.
* Two crons share one schedule and one list limit, may overlap with
  themselves, and carry an error from one item of a run to the next.
* The reconciler of tokens deletes and creates secrets from a list that may
  be behind, and does not watch secrets.

`PROJECT.json` lists these hazards at the lines where they bite.

### What makes it correct

* ConfigMaps and crons: what is marked processed was delivered, with this
  payload, to everybody who wants it; nothing recorded is undone by a stale
  copy; nobody gives up early; nothing that still wants processing is
  forgotten; every payload is settled and every deferral ends; only what is
  processed is burned.
* Post-processors: success means handed over. In Dependency Track an SBOM whose
  root and project names are not others' lies under the projects that its names
  give, down from the top; nothing is made for what is filtered, and what can be
  placed is placed in the end.
* Tokens: every eligible namespace has, in the end, a token that the web service
  takes for its own, unless it has a secret that the reconciler cannot tell for
  bad (below); none is left without one and unattended.
* Builds: what is marked was scanned, every successful build is marked.
* Web service: a message and all its items claim the environment of the token
  and nothing else; 200 means that the broker has the message; the containers of
  an eligible namespace come to be heard.
* Startup: each part runs exactly when its flag or variable says so (not
  modelled).

## Modules

| Module | Models | Kind |
|---|---|---|
| `KubernetesAPI` | API server, watch and cache for one kind of object, as this program uses them | external |
| `ConfigMapController` | ConfigMap reconciler, both crons, the outcomes of the post-processors | component |
| `InsightsDelivery` | what the build is promised: pending until done or abandoned, the last payload counts | abstract |
| `NamespaceTokens` | Namespace reconciler | component |
| `Tokens` | the tokens: how one is made and validated | component |
| `WebService` | the handlers of the web service | component |
| `TokenService` | `NamespaceTokens` and `WebService` together | composition |
| `BuildScan` | Build reconciler: scan pods and the scanned label | component |
| `DependencyTrackProjects` | a push to Dependency Track, call by call | component |
| `MCConfigMapController`, `MCTokenService`, `MCDependencyTrackProjects` | instances for TLC | MC |
| `ConfigMapController_proofs`, `ConfigMapEvents_proofs`, `ConfigMapDelivery_proofs` | theorems of `ConfigMapController`: deliveries and marks; events and deferrals; the promise | proofs |
| `TokenService_proofs`, `TokenWakeups_proofs` | theorems of `TokenService`: types and messages; no namespace is forgotten | proofs |
| `BuildScan_proofs`, `BuildWakeups_proofs` | theorems of `BuildScan`: scans and marks; how a build is forgotten | proofs |
| `DependencyTrackProjects_proofs` | theorems of `DependencyTrackProjects` | proofs |

### KubernetesAPI

`store[n]` is the object on the server, `watch[n]` the events not delivered
yet, `cache[n]` what Get and List return. A write bumps `rv` and appends an
event. `Accepts` is the version check of an Update. `Remove` is Delete without
precondition. A restart (`Relist`) starts from a fresh list.
`ConfigMapController` extends it for ConfigMaps; `NamespaceTokens` extends it
for secrets and instantiates it a second time for the namespace; `BuildScan`
extends it for build pods.

### ConfigMapController

A ConfigMap is a record: `gen` numbers its payloads, `msg` holds what the
processors' decisions depend on (type labels, core enabled, custom endpoint,
production), `status` has one annotation per processor, `retries`, `deferred`,
`maxed` and `processed` are the annotations and labels of that name.
`failedRuns` and `delivered` are history variables: no action reads them, except
to update them.

| Code | Action or operator |
|---|---|
| event filters, `configmap_controller.go:200-259` | `Wanted`, used by `Deliver`, `Resync`, `Crash` |
| `Reconcile` up to the message, 58-88 | `Reconcile(c)`: dequeue, Get ConfigMap, Get Namespace |
| type and rejection, 89-115 | `InsightsType`, `Recognised`, `Reject(c)` |
| loop over the post-processors, 145-170 | `RunPostProcessor(c)`, one step per processor; `PanicInPostProcess(c)` |
| marks and `BatchUpdateCM`, 172-198 | `Concluded`, `UpdateTaken`, `FinishReconcile(c)` |
| deferred-clear cron, `main.go:589-639` | `ClearDeferredTick(sel)`, `ClearDeferredItem(item)`, `RestOfRun`, `ParseTimestamp` |
| burn cron, `main.go:545-587` | `BurnTick(sel)`, `BurnItem(c)` |
| the build, the informers, the clock, a restart (external) | `Publish`, `Deliver`, `Resync`, `NamespaceSeen`, `Minute`, `Crash` |

Steps are cut where the code calls out: between the Get and the end of a
reconcile, and between the list of a cron and each item, anything may happen.
An API call may fail, and an Update may fail after the server has taken it.
A panic in a post-processor is recovered by controller-runtime as an error.
A cron item carries its run, since a failed Update ends the run it is in: the
loop tests an `err` it never resets (`main.go:618`).

### InsightsDelivery and the refinement

`InsightsDelivery` has no cache, queue, cron or annotation. A payload is
published; it is handed over to processors; it becomes `done` only when every
processor that requires it has been handed this very payload, or `abandoned`;
only a done payload is discarded; publishing starts over.
`ConfigMapController!ImplementsDelivery` maps `outcome` to the labels and
annotations of the stored object, `sent` to `delivered`. TLC checks it in the runs
`core` and `kinds`, and `ConfigMapDelivery_proofs` proves it. The burn cron
keeps the promise only as long as no build replaces what it takes for processed
(`v_burn`): `BuildsWait` states that condition, `WaitingSpec` is the controller
under it.

### NamespaceTokens and Tokens

One namespace and the labelled secrets in it. A token (`Tokens`) is a record of
what the validation tells apart: whether it is there and a JWT, the number of the
key that signed it, the namespace it names, and whether a claim is missing that is
read before or after the namespace (this decides which details come back with
the error). `Reconcile` takes the namespace and the list, `CheckSecret` looks at
one secret in list order with `message` carried over, `CreateToken` is what
follows the loop. The target label of the namespace changes and a restart may
bring another signing key (`changes`); the namespace may be deleted, emptied and
made again or lose its environment labels, users may delete or overwrite the
secret, calls may fail (`disturbances`). The two are counted apart because
`NeverLeftWithout` only holds without the second kind: a reconcile that deletes
the secret and does not get to make another, be it for a failing call or for a
missing label, is repaired by the next one only if that one does not read the
deleted secret from the cache. If it does, the secret counts as found, and the
namespace waits for the resync (`EventuallyHasToken` holds all the same).
Two secrets no reconcile gets past, and the namespace has no token of its own as
long as they are there: one that is no JWT, and one with a token validly signed for
another namespace. `Stuck` names them, and both liveness properties leave them out.

### WebService and TokenService

A call is one step: the handlers share no state, and validate the token, read the
body, force the environment into it and hand the message to the broker, in that
order. `call` is what the last one came to. The broker may fail before or after
it has taken the message. `ParseInt` has the width of the code (`MaxInt32` is a
constant). `TokenService` runs the Namespace reconciler and the web service on
the same key and secrets: `OwnCall` shows the token of a secret, `OtherCall` any
other.

### DependencyTrackProjects

`postProcess` (`dependencyTrack.go:141-190, 232-316`) as one action per call to
the server, for several workers: `FindProjects`, `CheckParent`, `CreateProject`
for each parent project, then `Upload` and `Processed` (the poll). A name is a
sequence of words and a template a sequence of variables, so that joining two
values can look like one longer value, as with the hyphens of the default
templates. The server is external: it keeps projects and SBOMs, may refuse a
second project of a name (`RefusesDuplicates`), and puts the SBOM into the project
of its name, which it makes under the parent asked for if it has none yet
(`AutoCreated`). `boms` keeps where each SBOM landed, not what was asked for. A push
that fails starts again, as the ConfigMap reconciler has it.

`UploadedUnderItsParents` says that an SBOM landed in a project of its name below a
chain of parents from the top. It is about messages whose root is called like
nothing but roots (`RootOwn`) and whose project name no message with other parents
has (`LeafOwn`); of other messages the code does not keep it (see the disagreements).
Parents between root and SBOM may be called like anything: those are checked.
`SuccessMeansUploaded` is what `ConfigMapController` relies on in `Outcomes`.

### BuildScan

One namespace, its builds and one scan pod name per build. `Reconcile` reads the
build pod and the images of the deployments, `ListScans` and `KillScan` are
`killExistingScans`, then `CreateScan` and `MarkScanned`. Three caches may be
behind: build pods with every event (the filter wants updates), scan pods and
deployments by their latest state only, since the program takes no event of
theirs. A deleted scan pod keeps its name while it terminates, so the Create
that follows is refused and the reconcile tried again. Every NotFound ends the
reconcile without an error, as `client.IgnoreNotFound` has it. `Forgotten` is a
successful build that nothing is about to look at. `built` and
`scanned` are history: the images a build deployed, and those its last scan pod
was made for. A build is taken to end only after its rollout, with the cache of
the deployments up to date on it (`BuildEnds`); without that assumption
`MarkedMeansScanned` does not hold.

## Runs

All with two TLC workers. None of the passing runs takes more than a minute on two
cores of a current machine, none more than a million distinct states. Each component
has one run in which its safety and its liveness are asked of the same behaviours,
the ConfigMap reconciler one more for what depends on its post-processors and crons
(`kinds`) and one for what two ConfigMaps do to each other (`pool`).

| Run | Question | Result |
|---|---|---|
| `core` | does any interleaving of build, watch, reconcile, deferred-clear cron and clock, with two publications, a retry and one crash or failing call, lose a mark, a deferral or a wakeup, or break the promise; is every payload processed or given up on in the end, and none given up on too early? | no; yes |
| `kinds` | every kind of message, three processors with production filters, both crons, a fault, the Namespace late in the cache: is everything settled, burned when processed, and only then? | yes, by the resync where the Namespace was late |
| `pool` | two ConfigMaps, one worker, a cron that lists one; no parent template, an unrecognised type: does one that can never succeed keep the other from settling? | no |
| `tokens` | is a namespace without a usable token forgotten, is its own token refused when nothing is about to mend it, does a message ever claim another environment, and are an eligible namespace's containers heard in the end, whatever users write into its secret? | neither while undisturbed; never; yes, by the resync, but for the two secrets of `Stuck` |
| `pushes` | two workers, five SBOMs, a call that fails before or after it took effect: is each whose root and name are its own under its parents from the top, is none refused for names that are its own, and is all that can be placed pushed? | yes |
| `builds` | two builds that remove each other's scan pods, or one and a disturbance: is a build marked only when a scan pod was made for its images, forgotten only in the two known ways, and marked in the end? | yes, by the resync |
| `v_burn` | burning only what is processed, with a republication | violated |
| `v_no_parent` | payloads settle without a parent template | violated: panic for ever |
| `v_token_two` | an invalid and a valid secret | violated: both deleted, none made |
| `v_scan_lost` | is a successful build without a scan ever forgotten? | violated: a NotFound of a Delete ends the reconcile |
| `v_look_alike` | is every SBOM that can be placed pushed, whatever other projects are called? | violated: a name found anywhere but under its parent is refused for ever |
| `v_facts_type` | has a message the type of its route? | violated: facts posted as an object bring their own |

Three defects show up only where two names or two steps meet: `v_token_two` needs
a second secret (after one invalid one, valid ones are deleted and still count as
found), `v_look_alike` an environment whose name joins to that of another project
(dev of shop, and project shop-dev), `v_burn` a build between list and Delete.
The findings in `PROJECT.json` quote the line each violated property is from.

### Other disagreements between the code and its words

They were met while modelling and are in the models as the code has them; no
run is kept for them.

* `configmap_controller.go:178` compares with `>` a count that includes the
  first run: `MaxNumberOfRetries + 1` attempts, where `main.go:129` says "the
  number of times the configmap reconciler will attempt to run a post-processor
  before failing" (`Concluded`).
* `configmap_controller.go:192`: an error queues the name without passing the
  event filters, so a ConfigMap whose deferral the server took runs again at
  once (`FinishReconcile`, `RequeueOnError`).
* `configmap_controller.go:111` says "we mark this configMap as bad"; nothing is
  written and the name is retried for ever (`Reject`).
* `main.go:616` parses the deferral as 32 bits and drops the error: from 2038 on
  every deferral is lifted at once (`ParseTimestamp`).
* `main.go:618` tests the error of the list, or of the Update of the item before
  (`RestOfRun`).
* `main.go:262`: `ENABLE_CONFIGMAP_RECONCILER` defaults to the flag of the
  namespace reconciler.
* `namespace_controller.go:96`: a token validly signed for another namespace is
  kept for ever, since the namespaces are only compared after another error, and
  the namespace never gets one of its own (`Accepted`, `Stuck`).
* `jwt.go:42`: a token that is no JWT makes the validation panic, in every retry,
  instead of being replaced (`PanicOnToken`, `Stuck`).
* `namespace_controller.go:107`: a list that is behind makes the reconcile delete
  the token just made; if the Create that follows fails, or the namespace has
  lost a label by then, a later reconcile may take the deleted secret for a found
  one, and nothing is queued (`CheckSecret`). This is why `NeverLeftWithout` is
  stated for `disturbances = 0`.
* `namespace_controller.go:86`: a token of this namespace that lacks a claim read
  after it is deleted and yet counts as found, so that none is made even with a
  single secret (`Message`, `Accepted`).
* `namespace_controller.go:53`: the event filter asks for the target label, the
  reconcile does not: a namespace that has lost it meanwhile gets a token all the
  same (`Reconcile`).
* `service.go:189` and its siblings: a call without Authorization, or with what
  is no JWT, panics in the validation and is answered with 500 by gin's recovery
  instead of 401 (`Unauthorised`).
* `dependencyTrack.go:144`: two workers may find a root project missing and both
  make it. A server that refuses duplicates turns that into an error and a retry;
  with one that takes both (`RefusesDuplicates = FALSE`), later lookups take either
  root, and the projects below the other one are "parent project not found".
* `dependencyTrack.go:187`: with no parent to check, any project of the root's name
  is taken, also one inside another project's tree. By the default templates
  environment dev of project shop names its parent shop-dev; if that is there first,
  the tree of project shop-dev ends up below it, inside that of shop (`FindProjects`;
  it does in `pushes`, and `RootOwn` is why the property still holds).
* `dependencyTrack.go:263`: the ParentUUID of the upload counts only when the server
  makes the project. If one of the name and version (by default always "unset")
  exists, the SBOM lands there, wherever that is: service nginx of environment
  dev-eu of project shop and that of environment eu of project shop-dev share one
  project (`AutoCreated`, `LeafOwn`).
* `main.go:126`: with the default `enable-insights-deferred=false` no cron lifts
  a deferral, and the filters turn the ConfigMap away for ever: `EventuallySettled`
  needs `EnableDeferred`, although `main.go:131` speaks of "a rerun on a failed
  post-processor" without that condition.
* `build_controller.go:304`: a restart makes every known pod a create event, and
  those are filtered out, so a build that ends meanwhile waits for the resync
  (`Crash`, `Deliver`).
* `build_controller.go:70`: the reconcile does not look at the scanned label, so
  an event that queued the build during its own scan kills that scan and makes
  another; line 313 logs "Build pod already scanned, skipping" only for what
  still passes the filter (`Reconcile`, `KillScan`).
* `build_controller.go:91` "Remove any existing pods": those the cache has, and
  a removal is only begun; two scan pods may run at the same time (`ListScans`).

### Bounds

* One or two names: what goes wrong between two of them (a worker, a list with a
  limit, another build's scan pod) needs two; all else is about one object. A
  cron run that ends early needs a run of two items and is in no run of TLC, see
  `MaxListed`.
* Two publications of a ConfigMap (`MaxPublish`): a stale copy needs an earlier
  and a later payload; a third one adds nothing to tell apart.
* One retry (`MaxNumberOfRetries = 1`) in `core`, where the first run, the last
  run allowed and the one after which the payload is given up on differ; none in the
  other runs, whose questions do not depend on the count.
* One crash or failing call per behaviour (`MaxFaults`), placed anywhere.
* `MaxListed`: one item of the deferred-clear cron in hand. Two overlapping runs, or
  a run of two items of which a refused Update drops the second (`RestOfRun`), need
  two, which makes `core` and `pool` too large to check; they are modelled, and
  `NothingForgotten`, `DeferralsKept` and the invariants they rest on are proved for
  any number of items, but what these do to liveness has not been checked. Nor has a
  burn list that is full: `kinds`, which has that cron, has one name.
* `MaxInt32` is far above every time reached in the runs of `ConfigMapController`:
  deferrals after 2038 are the subject of the disagreement above, not of a run.
  In `tokens` it is 7, with environment ids on both sides of it.
* Namespaces: `MaxChanges` one relabelling or restart, `MaxDisturbances` one
  disturbance (which `WebService` shares with the failures of the broker); the
  safety of the reconciler alone has been run with two of each. Three requests: facts that can be
  read, problems that cannot, and a deletion, which has no body. At first the secret
  holds a good token, one signed with an old key, one that lacks its first claim, what
  is no JWT, or no token; a token for another namespace, and one that lacks a later
  claim, are among what users write, since `NeverLeftWithout` does not hold of them
  (see the disagreements).
* Pushes: five SBOMs (two environments of a shop; one of another project, which is
  called like the second of these and cannot be unzipped; one that is filtered, one
  without labels), with and without parent templates, on a server that refuses
  duplicates. One that takes them is in the theorem `PlacedRightly`.
* Builds: two that are otherwise undisturbed, or one and a disturbance of any kind.
  `MaxDisturbances = 2` counts the builds too, since each disturbs the other's scan:
  these are the two ways in which a scan is lost, by another build and by a fault.
  Two builds and a disturbance have been run as well, which takes three times as long
  as any other run; what they keep is proved for every bound.

A bound on faults is a bound on what happens before the program is left alone, so
that liveness says: after any one disturbance, placed anywhere, it recovers. The
safety theorems below hold for every bound.

### Fairness

* Informers deliver, workers work, crons tick and the clock moves for ever:
  weak fairness of each step, except as follows.
* `Reconcile(c)` is strongly fair: the work queue is first in, first out (with
  backoff), so a name that keeps being queued is served although another one
  may take the worker each time.
* The ticks are strongly fair per name: the cached List goes over a Go map, in
  arbitrary order, before it cuts at the limit, so that no name is left out for
  ever.
* Builds, users, faults and the crash owe nothing, nor does a cron that is not
  started: its fairness is conditional on the flag that starts it.
* `NeighboursSettle` speaks of one name, any one: nothing in the model tells the
  names apart, so that it holds of each.
* `ResyncSpec` adds the informer's resync (every ten hours by default) and is
  used only where the code has no other way to recover: `kinds` (the late
  Namespace), `tokens` (a deleted secret, which nobody watches) and `builds`.
* `CallFairness` (`EventuallyAccepted`) is about containers, not about this
  program: one that has something well-formed to post keeps trying.
* In `DependencyTrackProjects` a call returns sooner or later (the poll after five
  minutes), and `PostProcess(m)` is strongly fair, for the work queue comes back to
  every message that is retried.

## Proofs

`ConfigMapController_proofs` proves, for every set of names, list of
processors, bound and configuration allowed by `ConfigAssumption`:

| Theorem | States |
|---|---|
| `TypeCorrect` | `Spec => []TypeOK` |
| `Invariance` | `Spec => []IInv` |
| `ProcessedIsDelivered` | `Spec => []ProcessedMeansDelivered` |
| `AbandonedIsExhausted` | `Spec => []AbandonedOnlyAfterRetries` |
| `PayloadsOnlyAdvance` | `Spec => NoPayloadRegression` |
| `OutcomesKept` | `Spec => OutcomesAreKept` |

`ProcessedMeansDelivered` is about the stored object, but a step that writes it
writes a changed copy, so the invariant has to be about copies. `IInv` says of
every copy (in the store, the cache, the watch, a reconcile and a cron run)
that it is `CopyOK`: it claims no delivery that has not happened (`Honest`);
its version and payload number are not ahead of the stored ones; if its version
is the stored one it has lost nothing recorded there (`Covers`); if its payload
is the stored one its retries and its max-retry label are backed by failing
runs (`Counted`). `UpdateTaken` then says that only a copy of the current
version is written, from which all theorems follow. `CopyOK` is an operator of
values, so that one lemma, `WriteKeepsGood`, covers every write; each action has
a lemma of its own. TLC has checked `IInv` as an invariant on the constants of `core`.

`BuildScan_proofs` proves, for every set of builds and every bound:

| Theorem | States |
|---|---|
| `Invariance` | `Spec => []IInv` |
| `TypeCorrect` | `Spec => []TypeOK` |
| `MarkedIsScanned` | `Spec => []MarkedMeansScanned` |

A build deploys before it ends and never afterwards. `IInv` says that no copy of
its pod, however old, calls it successful before it is (`CopyOK`), that what a
successful build deployed is in the cache (`StoreGood`), and hence that a
reconcile which took a copy for a successful build read images that cover it,
and made the scan pod for them before it marks (`JobGood`). TLC has checked this
`IInv` on the constants of `builds`.

`BuildWakeups_proofs`:

| Theorem | States |
|---|---|
| `ForgettingIsRare` | `Spec => ForgottenOnlyThen` |

`NeverLeftUnscanned` is false (`v_scan_lost`, and a restart, whose list enqueues
nothing). `ForgottenOnlyThen` names these two ways, and the theorem says that there is
no third. `WInv`: the last event of a build pod is the pod as it is
stored, and with no event left the cache has it; a pod that is new to the cache, and
so enqueues nothing, is of a running build, so that another event must follow
(`EventsGood`); a copy of the stored version is the stored pod (`CopiesCurrent`),
so that a reconcile that ends without a scan had nothing to scan. TLC has checked
`WInv` on the constants of `builds`.

`ConfigMapEvents_proofs` goes on with `ConfigMapController`:

| Theorem | States |
|---|---|
| `NothingForgotten` | without `NamespaceLag`, `Spec => []NoLostWakeup` |
| `DeferralsKept` | `Spec /\ [](now <= MaxInt32) => DeferralHonoured` |

`NoLostWakeup` needs to know that the last event on its way is of the object that
is stored (`WatchEnds`): only then does an empty watch mean that the filters have
seen what is there. Its assumption is real: a name dropped because its Namespace
is not cached yet waits for the resync (`kinds`). `DeferralHonoured` needs the
versions: `DInv` says that every copy of the stored version agrees with what is
stored in all but the statuses that a reconcile has added, so that a cron which
compares the clock with a copy compares it with what it then overwrites. The
assumption on the clock is that of `ParseTimestamp`.

`ConfigMapDelivery_proofs`:

| Theorem | States |
|---|---|
| `KeepsThePromise` | without `BurnAfterReading`, `Spec => ImplementsDelivery` |
| `BurningKeepsThePromise` | `WaitingSpec => ImplementsDelivery` |
| `BurnedIsProcessed` | `WaitingSpec => BurnOnlyProcessed` |
| `OnceIsProcessed` | with `MaxPublish <= 1`, `Spec => WaitingSpec` |

`IInv` gives that a payload marked as processed has been handed over, `DInv` that a
write the server takes changes neither the payload nor whether it is there, and
`JobsThere` that only what exists is handed over; each step then is one of
`InsightsDelivery`'s or a stutter. The burn cron's Delete alone is not covered by
any version check: `MarksHold` says that a name it has listed is processed, and so
is one of which a copy in the cache, or on its way there, says so. `BuildsWait`
is what a new payload has to respect to keep it, and nothing else can break it,
since every other write keeps the processed mark (`StepCovers`). `OnceIsProcessed`
shows that the condition is met whenever a name is published once only. TLC
has checked `MarksHold`, and with it both theorems about `WaitingSpec`, for one
ConfigMap published twice, with both crons and a fault.

`DependencyTrackProjects_proofs` proves, for all workers, messages, templates and
bounds, with or without refusal of duplicate names:

| Theorem | States |
|---|---|
| `Invariance` | `Spec => []IInv` |
| `TypeCorrect` | `Spec => []TypeOK` |
| `PlacedRightly` | `Spec => []UploadedUnderItsParents` |
| `OnlyAskedFor` | `Spec => []ProjectsAreAskedFor` |
| `SuccessIsUploaded` | `Spec => []SuccessMeansUploaded` |
| `OwnNamesPlaced` | `Spec => []OwnNamesArePlaced` |

Projects are only added and never moved, so what a push has found out about the
way down (`JobGood`: its path leads down as its own names say) stays true while
others act. Of the root a push knows only the name: that it is at the top follows
from who can have made a project of that name (`WellMade`, `FromTheTop`). In the same
way the project an SBOM landed in (`Landed`) was made by some message of its name,
below the parents of that one, which `LeafOwn` makes the SBOM's own. Nothing about
the server's duplicates is needed, except for
`OwnNamesPlaced`, which is about a server that refuses them: then no two projects
share a name (`OnlyOneOfAName`), every project was made on the way of some message
(`MadeUnder`), and so a name that no other message wants elsewhere is found where
the push expects it. `v_look_alike` shows what happens to the others. TLC has
checked `IInv` and `OInv` on the constants of `pushes`.

`TokenService_proofs` and `TokenWakeups_proofs`:

| Theorem | States |
|---|---|
| `TypeCorrect` | `SafeServiceSpec => []TypeOK` |
| `NobodyElsesMessages` | `SafeServiceSpec => []MessagesAreOwn` |
| `AnswersAreTrue` | `SafeServiceSpec => []AnsweredTruly` |
| `RoutesTypeTheRest` | if no object body brings a type, `SafeServiceSpec => []TypeOfTheRoute` |
| `NamespaceRemembered` | with one secret, `SafeServiceSpec => []NeverLeftWithout` |
| `RefusedMeanwhile` | with one secret, `SafeServiceSpec => RefusedOnlyMeanwhile` |

The first three are about any secrets, tokens and requests. `RoutesTypeTheRest` is
false without its assumption (`v_facts_type`): a body that is an object, and brings a
type, is the only way for a message to leave its route. The last two assume
`OneSecret`: the namespace holds the reconciler's secret only, and its tokens are
of this namespace and lack no late claim; without that the property is false
(`v_token_two`, and the disagreement about `namespace_controller.go:86`). Its invariant,
`Calm`, says that whoever has ever seen a valid token, in the store, the cache,
the watch or a list, can rely on there being one, except while the very reconcile
that deleted it is about to make another (`GoodKnown`, `Replacing`). `RefusedMeanwhile`
adds that a 401, or a 500 that is no failure of the broker, only answers an invalid
token: then the namespace has none, and by `Calm` the reconciler is about to look.

Five theorems hold up to a condition that a violation run shows to be needed:
`BurnedIsProcessed` (`v_burn`), `ForgettingIsRare` (`v_scan_lost`), `OwnNamesPlaced`
(`v_look_alike`), `NamespaceRemembered` (`v_token_two`), `RoutesTypeTheRest`
(`v_facts_type`). Each says that what the run shows cannot come about in any other
way than by giving up the condition the theorem names.

Model-checked only: everything about liveness (the prover has no support for
fairness and ENABLED), which is `EventuallySettled`, `NeighboursSettle`,
`EventuallyBurned`, `EventuallyHasToken`, `EventuallyAccepted`, `EventuallyScanned`
and `EventuallyPushed`. Every safety and action property of a passing run is proved.

## Not modelled

* Payload contents, message encoding, logging, metrics, TLS, health endpoints,
  deployment manifests, the token-only command line: no state of this program.
* Startup (`main.go:119-310`): flags and environment are the constants of the
  modules; that one takes precedence over the other is a table of assignments. A
  disagreement found there is listed above.
* The broker: an error may come before or after the hand-over, and that is all
  that is said of it. What it does with a message later is not this code.
* Dependency Track beyond projects and SBOMs: inactive projects, versions, and
  the branch of `getOrCreateProject` for a leaf project, which no caller takes.
* The contents of a scan pod, and an image that cannot be pulled.
* Several replicas: the crons run in each of them, whoever the leader is. Their
  writes go through the version check that the runs show to be enough for one.
* `LabelCM` and `AnnotateCM` of `cmlib`: no caller.
