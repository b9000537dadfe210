--------------------------- MODULE NamespaceTokens ---------------------------
(***************************************************************************)
(* The token of an environment: the Namespace reconciler keeps a secret    *)
(* with a signed token in every Lagoon namespace, which the environment's  *)
(* containers present to the web service.                                  *)
(*                                                                         *)
(* One namespace is modelled: no state is shared between two.  Name is the *)
(* set of secrets with the insights-token label that may be in it.  The    *)
(* reconcile lists them from the cache, checks and deletes one after the   *)
(* other, and creates a new one if it found none worth keeping.            *)
(***************************************************************************)
EXTENDS KubernetesAPI, Tokens

CONSTANTS
  TokenName,        \* "insights-token", the secret the reconciler creates
  Namespace,        \* the namespace
  TokenTargetLabel, \* a token-target-label is configured
  InitialTokens,    \* what labelled secrets may hold at the start
  Tampered,         \* what a user may write into one
  MaxChanges,       \* bound: label changes and restarts
  MaxDisturbances   \* bound: deletions of the namespace or of its environment
                    \* labels, secrets written or deleted by users, and
                    \* failing calls

VARIABLES
  nsStore, nsWatch, nsCache,   \* the namespace: on the server, events, cache
  queued,           \* the namespace is in the controller's queue
  job,              \* the reconcile in progress
  key,              \* insights-token-secret, numbered
  changes,          \* label changes and restarts so far
  disturbances      \* disturbances so far

nsVars == <<nsStore, nsWatch, nsCache>>
counters == <<changes, disturbances>>
vars == <<store, watch, cache, nsStore, nsWatch, nsCache, queued, job, key,
          changes, disturbances>>

NS == INSTANCE KubernetesAPI WITH
        Name <- {Namespace}, store <- nsStore, watch <- nsWatch, cache <- nsCache

-----------------------------------------------------------------------------
ASSUME TokensAssumption ==
  /\ TokenName \in Name
  /\ TokenTargetLabel \in BOOLEAN
  /\ InitialTokens \subseteq Token /\ Tampered \subseteq Token
  /\ MaxChanges \in Nat /\ MaxDisturbances \in Nat

Secret(tok) == [exists |-> TRUE, rv |-> 0, token |-> tok]
NoSecret == [Secret([form |-> "nokey", key |-> 0, ns |-> "own", missing |-> "nothing"])
             EXCEPT !.exists = FALSE]

(* The web service takes the token of the secret for this namespace's. *)
Usable(secret) ==
  secret.exists /\ ~Invalid(key, secret.token) /\ ExtractedNamespace(key, secret.token) = "own"
HasToken == \E n \in Name : Usable(store[n])

NamespaceObject(phase, labelled, targeted) ==
  [exists |-> TRUE, rv |-> 0, phase |-> phase, labelled |-> labelled, targeted |-> targeted]
LagoonNamespace == NamespaceObject("Active", TRUE, TRUE)
NoNamespace == [LagoonNamespace EXCEPT !.exists = FALSE]

(* The namespace carries the environment, environmentId and project labels *)
(* and, if one is configured, the target label.                            *)
activeNamespacePredicate(ns) ==
  ns.exists /\ ns.labelled /\ (TokenTargetLabel => ns.targeted)

Eligible(ns) == activeNamespacePredicate(ns) /\ ns.phase = "Active"

Idle == [busy |-> FALSE, ns |-> NoNamespace, left |-> {}, message |-> FALSE, found |-> FALSE]

-----------------------------------------------------------------------------
Init ==
  /\ store \in [Name -> {NoSecret} \cup {Secret(tok) : tok \in InitialTokens}]
  /\ watch = [n \in Name |-> <<>>]
  /\ cache = store
  /\ nsStore = [n \in {Namespace} |-> LagoonNamespace]
  /\ nsWatch = [n \in {Namespace} |-> <<>>]
  /\ nsCache = nsStore
  /\ queued = TRUE
  /\ job = Idle
  /\ key = 1
  /\ changes = 0 /\ disturbances = 0

Change == changes < MaxChanges /\ changes' = changes + 1 /\ UNCHANGED disturbances
Disturbance ==
  disturbances < MaxDisturbances /\ disturbances' = disturbances + 1 /\ UNCHANGED changes

(* Lagoon and its users: the namespace is targeted or no longer, loses its  *)
(* environment labels, is deleted and emptied, removed, or made again.     *)
NamespaceChanges ==
  LET ns == nsStore[Namespace]
  IN  /\ \/ /\ ns.exists /\ ns.phase = "Active"
            /\ Change
            /\ \E targeted \in BOOLEAN :
                 NS!Write(Namespace, NamespaceObject("Active", TRUE, targeted))
         \/ /\ ns.exists /\ ns.phase = "Active"
            /\ Disturbance
            /\ \E lost \in {[ns EXCEPT !.labelled = FALSE], [ns EXCEPT !.phase = "Terminating"]} :
                 NS!Write(Namespace, lost)
         \/ /\ ~ns.exists
            /\ NS!Write(Namespace, LagoonNamespace)
            /\ UNCHANGED counters
      /\ UNCHANGED <<store, watch, cache, queued, job, key>>

PurgeSecret(n) ==
  /\ nsStore[Namespace].exists /\ nsStore[Namespace].phase = "Terminating"
  /\ store[n].exists
  /\ Remove(n)
  /\ UNCHANGED <<nsVars, queued, job, key, counters>>

NamespaceRemoved ==
  /\ nsStore[Namespace].exists /\ nsStore[Namespace].phase = "Terminating"
  /\ \A n \in Name : ~store[n].exists
  /\ NS!Remove(Namespace)
  /\ UNCHANGED <<store, watch, cache, queued, job, key, counters>>

Tamper(n) ==
  /\ Disturbance
  /\ \/ store[n].exists /\ Remove(n)
     \/ /\ Eligible(nsStore[Namespace])
        /\ \E tok \in Tampered : Write(n, Secret(tok))
  /\ UNCHANGED <<nsVars, queued, job, key>>

DeliverSecret(n) ==
  /\ Observe(n)
  /\ UNCHANGED <<nsVars, queued, job, key, counters>>

DeliverNamespace ==
  /\ NS!Observe(Namespace)
  /\ queued' = (queued \/ activeNamespacePredicate(nsCache'[Namespace]))
  /\ UNCHANGED <<store, watch, cache, job, key, counters>>

(* The informer's resync, ten hours apart: the watches have long drained.   *)
Resync ==
  /\ ~queued
  /\ watch = [n \in Name |-> <<>>] /\ nsWatch[Namespace] = <<>>
  /\ activeNamespacePredicate(nsCache[Namespace])
  /\ queued' = TRUE
  /\ UNCHANGED <<store, watch, cache, nsVars, job, key, counters>>

-----------------------------------------------------------------------------
(* Get and List: an unknown or terminating namespace is left alone.        *)
Reconcile ==
  LET ns == nsCache[Namespace]
  IN  /\ queued
      /\ ~job.busy
      /\ queued' = FALSE
      /\ IF ns.exists /\ ns.phase # "Terminating"
         THEN job' = [Idle EXCEPT !.busy = TRUE, !.ns = ns,
                                  !.left = {<<n, cache[n]>> : n \in {m \in Name : cache[m].exists}}]
         ELSE UNCHANGED job
      /\ UNCHANGED <<store, watch, cache, nsVars, key, counters>>

(* Mutant of Fails: the error is logged and not returned. *)
Fails_Swallowed == job' = Idle /\ UNCHANGED queued

(* The reconcile returns an error and is retried. *)
Fails == job' = Idle /\ queued' = TRUE

(* The validation panics, which becomes an error of the reconcile.         *)
PanicOnToken(item) ==
  /\ item \in job.left
  /\ item[2].token.form # "nokey" /\ PanicsOn(item[2].token)
  /\ Fails
  /\ UNCHANGED <<store, watch, cache, nsVars, key, counters>>

(* Mutant of Message: the error of the validation is not looked at. *)
Message_Unchecked(item) == job.message \/ item[2].token.form = "nokey"

(* deleteSecretMessage once the secret has been looked at: it is not reset *)
(* from one secret to the next.                                            *)
Message(item) == job.message \/ item[2].token.form = "nokey" \/ Invalid(key, item[2].token)

(* The secret counts as found. *)
Accepted(item) ==
  /\ item[2].token.form # "nokey"
  /\ ~(Message(item) /\ ExtractedNamespace(key, item[2].token) # "own")

(* One secret of the list, in the order in which the list has them.  A     *)
(* Delete that fails, also because the secret is gone, ends the reconcile. *)
CheckSecret(item) ==
  /\ item \in job.left
  /\ item[2].token.form = "nokey" \/ ~PanicsOn(item[2].token)
  /\ \/ /\ Message(item) => store[item[1]].exists
        /\ IF Message(item) THEN Remove(item[1]) ELSE UNCHANGED apiVars
        /\ job' = [job EXCEPT !.left = @ \ {item}, !.message = Message(item),
                              !.found = @ \/ Accepted(item)]
        /\ UNCHANGED <<queued, counters>>
     \/ /\ Message(item)
        /\ \/ ~store[item[1]].exists /\ UNCHANGED counters
           \/ store[item[1]].exists /\ Disturbance
        /\ Fails
        /\ UNCHANGED apiVars
  /\ UNCHANGED <<nsVars, key>>

(* The server refuses to create the secret. *)
Refused ==
  store[TokenName].exists \/ ~nsStore[Namespace].exists
    \/ nsStore[Namespace].phase = "Terminating"

(* After the list: the secret is created if none was found, which needs    *)
(* the labels of the namespace as it was read.                             *)
CreateToken ==
  /\ job.busy /\ job.left = {}
  /\ \/ /\ job.found
        /\ job' = Idle
        /\ UNCHANGED <<apiVars, queued, counters>>
     \/ /\ ~job.found /\ job.ns.labelled /\ ~Refused
        /\ Write(TokenName, Secret(GenerateTokenForNamespace(key)))
        /\ \/ job' = Idle /\ UNCHANGED <<queued, counters>>
           \/ Disturbance /\ Fails
     \/ /\ ~job.found
        /\ \/ (~job.ns.labelled \/ Refused) /\ UNCHANGED counters
           \/ job.ns.labelled /\ ~Refused /\ Disturbance
        /\ Fails
        /\ UNCHANGED apiVars
  /\ UNCHANGED <<nsVars, key>>

(* A restart, with the same insights-token-secret or another: the first    *)
(* list gives one create event.                                            *)
Restart ==
  /\ Change
  /\ key' \in {key, key + 1}
  /\ Relist
  /\ NS!Relist
  /\ job' = Idle
  /\ queued' = activeNamespacePredicate(nsStore[Namespace])

Next ==
  \/ NamespaceChanges \/ NamespaceRemoved \/ DeliverNamespace \/ Resync
  \/ \E n \in Name : PurgeSecret(n) \/ Tamper(n) \/ DeliverSecret(n)
  \/ \E item \in job.left : PanicOnToken(item) \/ CheckSecret(item)
  \/ Reconcile \/ CreateToken \/ Restart

Spec == Init /\ [][Next]_vars

(* The watches and the worker go on for ever; users owe nothing. *)
Fairness ==
  /\ WF_vars(DeliverNamespace) /\ \A n \in Name : WF_vars(DeliverSecret(n))
  /\ WF_vars(Reconcile) /\ WF_vars(CreateToken)
  /\ WF_vars(\E item \in job.left : PanicOnToken(item) \/ CheckSecret(item))

FairSpec == Spec /\ Fairness

(* With the resync, for what no event of the namespace repairs. *)
ResyncSpec == FairSpec /\ WF_vars(Resync)

-----------------------------------------------------------------------------
SecretObject == [exists : BOOLEAN, rv : Nat, token : Token]
NamespaceObjects == [exists : BOOLEAN, rv : Nat, phase : {"Active", "Terminating"},
                     labelled : BOOLEAN, targeted : BOOLEAN]
Job == [busy : BOOLEAN, ns : NamespaceObjects, left : SUBSET (Name \X SecretObject),
        message : BOOLEAN, found : BOOLEAN]

TypeOK ==
  /\ store \in [Name -> SecretObject] /\ cache \in [Name -> SecretObject]
  /\ watch \in [Name -> Seq(SecretObject)]
  /\ nsStore \in [{Namespace} -> NamespaceObjects]
  /\ nsCache \in [{Namespace} -> NamespaceObjects]
  /\ nsWatch \in [{Namespace} -> Seq(NamespaceObjects)]
  /\ queued \in BOOLEAN
  /\ job \in Job
  /\ key \in Nat
  /\ changes \in Nat /\ disturbances \in Nat

(* As long as nobody else has had a hand in it and no call has failed, an  *)
(* eligible namespace without a usable token is not forgotten: it is       *)
(* queued, being reconciled, or an event about it is on its way.           *)
NeverLeftWithout ==
  /\ disturbances = 0
  /\ Eligible(nsStore[Namespace]) /\ ~HasToken
  => queued \/ job.busy \/ nsWatch[Namespace] # <<>>

(* The secrets that no reconcile gets past: on one that is no JWT it       *)
(* panics, and one with a valid token for another namespace counts as      *)
(* found and is never looked at for its namespace.                         *)
Stuck(secret) ==
  /\ secret.exists
  /\ \/ secret.token.form = "malformed"
     \/ ~Invalid(key, secret.token) /\ ExtractedNamespace(key, secret.token) # "own"

(* Every eligible namespace gets a token the web service takes for its     *)
(* own: although the secret is deleted or damaged, the key changes and the *)
(* namespace is made again, and also when a secret with a claim missing is *)
(* found and deleted at once.  Not while there is a secret that every      *)
(* reconcile stops at or takes for good: those it keeps for ever.          *)
EventuallyHasToken ==
  Eligible(nsStore[Namespace]) ~>
    HasToken \/ ~Eligible(nsStore[Namespace]) \/ \E n \in Name : Stuck(store[n])
=============================================================================
