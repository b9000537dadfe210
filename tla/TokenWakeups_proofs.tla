------------------------- MODULE TokenWakeups_proofs -------------------------
(***************************************************************************)
(* An eligible namespace without a token is never forgotten, in a          *)
(* namespace with the one secret that the reconciler keeps in it, as long  *)
(* as nothing disturbs it.  The reconciler works on a cache that may be    *)
(* several versions behind what it has itself written, so it may take an   *)
(* old bad secret for the present one and delete the good token it made:   *)
(* what saves it is that the same reconcile then makes another.            *)
(***************************************************************************)
EXTENDS TokenService_proofs

-----------------------------------------------------------------------------
(* The secrets and the namespaces that anybody has a copy of. *)
Copies ==
  {store[TokenName], cache[TokenName]}
    \cup {watch[TokenName][i] : i \in 1 .. Len(watch[TokenName])}
    \cup {item[2] : item \in job.left}

NsCopies ==
  {nsStore[Namespace], nsCache[Namespace]}
    \cup {nsWatch[Namespace][i] : i \in 1 .. Len(nsWatch[Namespace])}
    \cup {ns \in NamespaceObjects : job.busy /\ ns = job.ns}

(* Nobody has deleted the namespace or taken its labels. *)
Intact == \A ns \in NsCopies : ns.exists /\ ns.phase = "Active" /\ ns.labelled

(* The last event about the namespace that is on its way is of what is     *)
(* stored.                                                                 *)
NsWatchEnds ==
  IF nsWatch[Namespace] = <<>>
  THEN nsCache[Namespace] = nsStore[Namespace]
  ELSE nsWatch[Namespace][Len(nsWatch[Namespace])] = nsStore[Namespace]

(* A token of this namespace that has all its claims or lacks an early one. *)
PlainToken(tok) == tok.ns = "own" /\ tok.missing # "late"
Plain == \A c \in Copies : PlainToken(c.token)

Valid(c) == c.exists /\ ~Invalid(key, c.token)

(* The reconcile looks at the one secret first of all. *)
LooksFirst ==
  \A item \in job.left :
    /\ job.left = {item} /\ item[2].exists
    /\ job.busy /\ ~job.message /\ ~job.found

(* The reconcile has deleted the secret and will make another. *)
Replacing == job.busy /\ job.left = {} /\ ~job.found /\ ~store[TokenName].exists

(* Who has ever seen a valid token can rely on there being one. *)
GoodKnown == (\E c \in Copies : Valid(c)) => Valid(store[TokenName]) \/ Replacing
FoundGood == job.busy /\ job.found => Valid(store[TokenName])

Waited ==
  Eligible(nsStore[Namespace]) /\ ~Valid(store[TokenName]) =>
    queued \/ job.busy \/ nsWatch[Namespace] # <<>>

NsCalm == Intact /\ NsWatchEnds
SecretCalm == Plain /\ LooksFirst /\ GoodKnown /\ FoundGood
Calm == NsCalm /\ SecretCalm /\ Waited

OneSecret == Name = {TokenName} /\ \A tok \in InitialTokens : PlainToken(tok)

(* The inductive invariant. *)
WInv == TypeOK /\ (disturbances = 0 => Calm)

-----------------------------------------------------------------------------
LEMMA IdleFacts == Idle.busy = FALSE /\ Idle.left = {} /\ Idle.found = FALSE
BY DEF Idle

LEMMA CalmInit == OneSecret /\ Init => Calm
<1> SUFFICES ASSUME OneSecret, Init PROVE Calm
  OBVIOUS
<1>1. /\ TokenName \in Name /\ job.left = {} /\ ~job.busy /\ ~job.found
      /\ watch[TokenName] = <<>> /\ cache = store
      /\ nsWatch[Namespace] = <<>> /\ nsCache = nsStore /\ nsStore[Namespace] = LagoonNamespace
      /\ queued
  BY IdleFacts, TokensAssumption DEF Init
<1>2. PlainToken(store[TokenName].token)
  BY <1>1 DEF Init, OneSecret, NoSecret, Secret, PlainToken
<1>3. Copies = {store[TokenName]}
  BY <1>1 DEF Copies
<1>4. NsCopies = {LagoonNamespace}
  BY <1>1 DEF NsCopies
<1>5. LagoonNamespace.exists /\ LagoonNamespace.phase = "Active" /\ LagoonNamespace.labelled
  BY DEF LagoonNamespace, NamespaceObject
<1> QED
  BY <1>1, <1>2, <1>3, <1>4, <1>5
  DEF Calm, NsCalm, SecretCalm, Intact, NsWatchEnds, Plain, LooksFirst, GoodKnown, FoundGood, Waited

(* Steps that leave the namespace and the reconcile's copy of it alone.    *)
LEMMA NsStill ==
  ASSUME NsCalm, UNCHANGED nsVars, job'.busy => job.busy /\ job'.ns = job.ns
  PROVE  NsCalm'
<1>1. NsCopies' \subseteq NsCopies
  BY DEF NsCopies, nsVars
<1> QED
  BY <1>1 DEF NsCalm, Intact, NsWatchEnds, nsVars

(* Steps that make no copy of a secret that was not there.                 *)
LEMMA SecretsStill ==
  ASSUME SecretCalm, UNCHANGED <<store, key>>, Copies' \subseteq Copies, Replacing => Replacing'
  PROVE  Plain' /\ GoodKnown'
BY DEF SecretCalm, Plain, GoodKnown, Valid

LEMMA NothingMoves ==
  ASSUME SecretCalm, UNCHANGED <<store, watch, cache, key, job>>
  PROVE  SecretCalm'
<1>1. Copies' \subseteq Copies
  BY DEF Copies
<1>2. Replacing => Replacing'
  BY DEF Replacing
<1> QED
  BY <1>1, <1>2, SecretsStill DEF SecretCalm, LooksFirst, FoundGood, Valid

(* The reconcile ends, nothing being under replacement. *)
LEMMA Stops ==
  ASSUME SecretCalm, UNCHANGED <<store, watch, cache, key>>, job' = Idle, ~Replacing
  PROVE  SecretCalm'
<1>1. Copies' \subseteq Copies
  BY IdleFacts DEF Copies
<1> QED
  BY <1>1, IdleFacts, SecretsStill DEF SecretCalm, LooksFirst, FoundGood

-----------------------------------------------------------------------------
LEMMA CalmNamespaceChanges ==
  ASSUME TypeOK, Calm, NamespaceChanges, disturbances' = 0, disturbances = 0
  PROVE  Calm'
<1> DEFINE ns == nsStore[Namespace]
<1>1. nsStore[Namespace] \in NsCopies
  BY DEF NsCopies
<1>2. ns.exists
  BY <1>1 DEF Calm, NsCalm, Intact
<1>3. PICK targeted \in BOOLEAN : NS!Write(Namespace, NamespaceObject("Active", TRUE, targeted))
  <2>1. ~Disturbance
    BY DEF Disturbance
  <2> QED
    BY <1>2, <2>1 DEF NamespaceChanges
<1> DEFINE new == NS!Versioned(Namespace, NamespaceObject("Active", TRUE, targeted))
<1>4. new.exists /\ new.phase = "Active" /\ new.labelled
  BY DEF NS!Versioned, NamespaceObject
<1>5. /\ nsStore' = [nsStore EXCEPT ![Namespace] = new] /\ nsCache' = nsCache
      /\ nsWatch' = [nsWatch EXCEPT ![Namespace] = Append(@, new)]
      /\ nsWatch[Namespace] \in Seq(NamespaceObjects)
      /\ nsStore \in [{Namespace} -> NamespaceObjects]
      /\ nsWatch \in [{Namespace} -> Seq(NamespaceObjects)]
  BY <1>3 DEF NS!Write, TypeOK
<1>6. new \in NamespaceObjects
  <2>1. nsStore[Namespace].rv + 1 \in Nat
    BY DEF TypeOK, NamespaceObjects
  <2>2. NamespaceObject("Active", TRUE, targeted) \in NamespaceObjects
    BY NamespaceType
  <2> QED
    BY <2>1, <2>2 DEF NS!Versioned, NamespaceObjects
<1> HIDE DEF new
<1>7. /\ nsStore'[Namespace] = new /\ nsWatch'[Namespace] = Append(nsWatch[Namespace], new)
      /\ nsWatch'[Namespace] # <<>>
      /\ nsWatch'[Namespace][Len(nsWatch'[Namespace])] = new
      /\ \A i \in 1 .. Len(nsWatch'[Namespace]) :
           \/ nsWatch'[Namespace][i] = new
           \/ i \in 1 .. Len(nsWatch[Namespace]) /\ nsWatch'[Namespace][i] = nsWatch[Namespace][i]
  BY <1>5, <1>6
<1>8. UNCHANGED <<store, watch, cache, queued, job, key>>
  BY DEF NamespaceChanges
<1>9. NsCopies' \subseteq NsCopies \cup {new}
  BY <1>5, <1>7, <1>8 DEF NsCopies
<1>10. NsCalm'
  BY <1>4, <1>7, <1>9 DEF Calm, NsCalm, Intact, NsWatchEnds
<1> QED
  BY <1>7, <1>8, <1>10, NothingMoves DEF Calm, Waited

LEMMA CalmDeliverNamespace ==
  ASSUME TypeOK, Calm, DeliverNamespace
  PROVE  Calm'
<1>1. PICK s \in Seq(NamespaceObjects) : s = nsWatch[Namespace] /\ s # <<>>
  BY DEF DeliverNamespace, NS!Observe, TypeOK
<1> DEFINE t == Tail(s)
<1>2. /\ t \in Seq(NamespaceObjects) /\ Len(t) = Len(s) - 1
      /\ \A i \in 1 .. Len(t) : t[i] = s[i + 1]
  BY <1>1, HeadTailProperties
<1>3. Len(s) \in Nat \ {0} /\ Head(s) = s[1]
  BY <1>1, EmptySeq
<1>4. nsWatch'[Namespace] = t /\ nsCache'[Namespace] = Head(s) /\ nsStore' = nsStore
  BY <1>1 DEF DeliverNamespace, NS!Observe, TypeOK
<1>5. t = <<>> <=> Len(t) = 0
  BY <1>2, EmptySeq
<1> HIDE DEF t
<1>6. /\ 1 \in 1 .. Len(s)
      /\ \A i \in 1 .. Len(t) : i + 1 \in 1 .. Len(s) /\ t[i] = s[i + 1]
  BY <1>2, <1>3
<1>7. UNCHANGED <<store, watch, cache, job, key>>
  BY DEF DeliverNamespace
<1>8. NsCopies' \subseteq NsCopies
  BY <1>1, <1>3, <1>4, <1>6, <1>7 DEF NsCopies
<1>9. NsWatchEnds'
  <2>1. CASE t = <<>>
    <3>1. Len(s) = 1
      BY <1>2, <1>3, <1>5, <2>1
    <3> QED
      BY <1>1, <1>3, <1>4, <2>1, <3>1 DEF Calm, NsCalm, NsWatchEnds
  <2>2. CASE t # <<>>
    <3>1. Len(t) \in 1 .. Len(t) /\ Len(t) + 1 = Len(s)
      BY <1>2, <1>3, <1>5, <2>2
    <3> QED
      BY <1>1, <1>4, <1>6, <2>2, <3>1 DEF Calm, NsCalm, NsWatchEnds
  <2> QED
    BY <2>1, <2>2
<1>10. NsCalm'
  BY <1>8, <1>9 DEF Calm, NsCalm, Intact
<1>11. Waited'
  <2>1. CASE nsWatch'[Namespace] = <<>> /\ Eligible(nsStore'[Namespace])
    <3>1. nsCache'[Namespace] = nsStore'[Namespace]
      BY <1>9, <2>1 DEF NsWatchEnds
    <3>2. queued'
      BY <2>1, <3>1 DEF DeliverNamespace, Eligible
    <3> QED
      BY <3>2 DEF Waited
  <2> QED
    BY <2>1 DEF Waited
<1> QED
  BY <1>7, <1>10, <1>11, NothingMoves DEF Calm

LEMMA CalmDeliverSecret ==
  ASSUME TypeOK, Calm, OneSecret, NEW n \in Name, DeliverSecret(n)
  PROVE  Calm'
<1>1. PICK s \in Seq(SecretObject) : s = watch[TokenName] /\ s # <<>>
  BY DEF DeliverSecret, Observe, TypeOK, OneSecret
<1> DEFINE t == Tail(s)
<1>2. /\ t \in Seq(SecretObject) /\ Len(t) = Len(s) - 1
      /\ \A i \in 1 .. Len(t) : t[i] = s[i + 1]
  BY <1>1, HeadTailProperties
<1>3. Len(s) \in Nat \ {0} /\ Head(s) = s[1]
  BY <1>1, EmptySeq
<1>4. watch'[TokenName] = t /\ cache'[TokenName] = Head(s) /\ store' = store
  BY <1>1 DEF DeliverSecret, Observe, TypeOK, OneSecret
<1> HIDE DEF t
<1>5. /\ 1 \in 1 .. Len(s)
      /\ \A i \in 1 .. Len(t) : i + 1 \in 1 .. Len(s) /\ t[i] = s[i + 1]
  BY <1>2, <1>3
<1>6. UNCHANGED <<nsVars, queued, job, key, counters>>
  BY DEF DeliverSecret
<1>7. Copies' \subseteq Copies
  BY <1>1, <1>3, <1>4, <1>5, <1>6 DEF Copies
<1>8. Replacing => Replacing'
  BY <1>4, <1>6 DEF Replacing
<1>9. SecretCalm'
  BY <1>4, <1>6, <1>7, <1>8, SecretsStill DEF Calm, SecretCalm, LooksFirst, FoundGood, Valid
<1> QED
  BY <1>4, <1>6, <1>9, NsStill DEF Calm, Waited, Valid, nsVars

LEMMA CalmReconcile ==
  ASSUME TypeOK, Calm, OneSecret, Reconcile
  PROVE  Calm'
<1> DEFINE ns == nsCache[Namespace]
           secret == cache[TokenName]
           left == {<<n, cache[n]>> : n \in {m \in Name : cache[m].exists}}
<1>1. ns \in NsCopies /\ ns \in NamespaceObjects
  BY DEF NsCopies, TypeOK
<1>2. job' = [Idle EXCEPT !.busy = TRUE, !.ns = ns, !.left = left]
  BY <1>1 DEF Reconcile, Calm, NsCalm, Intact
<1>3. left = IF secret.exists THEN {<<TokenName, secret>>} ELSE {}
  BY DEF OneSecret
<1>4. /\ UNCHANGED <<store, watch, cache, nsVars, key, counters>> /\ ~job.busy
  BY DEF Reconcile
<1> HIDE DEF left
<1>5. /\ job'.busy = TRUE /\ job'.ns = ns /\ job'.left = left
      /\ job'.message = FALSE /\ job'.found = FALSE
  BY <1>2 DEF Idle
<1>6. NsCopies' \subseteq NsCopies
  BY <1>1, <1>4, <1>5 DEF NsCopies, nsVars
<1>7. NsCalm'
  BY <1>4, <1>6 DEF Calm, NsCalm, Intact, NsWatchEnds, nsVars
<1>8. Copies' \subseteq Copies
  BY <1>3, <1>4, <1>5 DEF Copies
<1>9. ~Replacing
  BY <1>4 DEF Replacing
<1>10. LooksFirst'
  BY <1>3, <1>5 DEF LooksFirst
<1>11. FoundGood' /\ Waited'
  BY <1>5 DEF FoundGood, Waited
<1> QED
  BY <1>4, <1>7, <1>8, <1>9, <1>10, <1>11, SecretsStill DEF Calm, SecretCalm

LEMMA CalmPanic ==
  ASSUME Calm, NEW item \in job.left, PanicOnToken(item)
  PROVE  Calm'
<1>1. /\ UNCHANGED <<store, watch, cache, nsVars, key, counters>>
      /\ job' = Idle /\ queued' = TRUE
  BY DEF PanicOnToken, Fails
<1>2. ~Replacing
  BY DEF Replacing
<1>3. SecretCalm'
  BY <1>1, <1>2, Stops DEF Calm
<1> QED
  BY <1>1, <1>3, IdleFacts, NsStill DEF Calm, Waited

(* A plain token is found only if it is valid. *)
LEMMA AcceptedIsValid ==
  ASSUME NEW item, item[2].token \in Token, PlainToken(item[2].token), ~job.message, Accepted(item)
  PROVE  ~Message(item) /\ ~Invalid(key, item[2].token)
<1> DEFINE tok == item[2].token
<1>1. tok.missing \in {"nothing", "early"}
  BY DEF PlainToken, Token
<1>2. ASSUME Invalid(key, tok) PROVE FALSE
  <2>1. ExtractedNamespace(key, tok) = "none"
    BY <1>1, <1>2 DEF Invalid, ExtractedNamespace
  <2> QED
    BY <1>2, <2>1 DEF Accepted, Message
<1> QED
  BY <1>2 DEF Accepted, Message

(* Deleting the secret. *)
LEMMA RemovedCopies ==
  ASSUME TypeOK, Remove(TokenName)
  PROVE  /\ ~store'[TokenName].exists
         /\ UNCHANGED cache
         /\ store'[TokenName].token = store[TokenName].token
         /\ \A i \in 1 .. Len(watch'[TokenName]) :
              \/ watch'[TokenName][i] = store'[TokenName]
              \/ i \in 1 .. Len(watch[TokenName]) /\ watch'[TokenName][i] = watch[TokenName][i]
<1>1. TokenName \in Name /\ store[TokenName] \in SecretObject
  BY TokensAssumption DEF TypeOK
<1>2. CASE store[TokenName].exists
  <2> DEFINE gone == Versioned(TokenName, [store[TokenName] EXCEPT !.exists = FALSE])
  <2>1. /\ store' = [store EXCEPT ![TokenName] = gone] /\ cache' = cache
        /\ watch' = [watch EXCEPT ![TokenName] = Append(@, gone)]
    BY <1>2 DEF Remove, Write
  <2>2. gone.exists = FALSE /\ gone.token = store[TokenName].token /\ gone \in SecretObject
    <3>1. store[TokenName].rv + 1 \in Nat
      BY <1>1 DEF SecretObject
    <3> QED
      BY <1>1, <3>1 DEF Versioned, SecretObject
  <2> HIDE DEF gone
  <2>3. /\ store'[TokenName] = gone
        /\ watch'[TokenName] = Append(watch[TokenName], gone)
        /\ watch[TokenName] \in Seq(SecretObject)
    BY <1>1, <2>1 DEF TypeOK
  <2> QED
    BY <2>1, <2>2, <2>3
<1>3. CASE ~store[TokenName].exists
  BY <1>3 DEF Remove, apiVars
<1> QED
  BY <1>2, <1>3

LEMMA CalmCheckSecret ==
  ASSUME TypeOK, Calm, OneSecret, NEW item \in job.left, CheckSecret(item),
         disturbances = 0, disturbances' = 0
  PROVE  Calm'
<1>1. /\ item[1] = TokenName /\ item[2] \in SecretObject /\ item[2] \in Copies
      /\ job.left = {item} /\ item[2].exists /\ job.busy /\ ~job.message /\ ~job.found
      /\ PlainToken(item[2].token) /\ job \in Job
  BY DEF TypeOK, Job, OneSecret, Copies, Calm, SecretCalm, LooksFirst, Plain
<1>2. ~Replacing
  BY DEF Replacing
<1>3. UNCHANGED <<nsVars, key>>
  BY DEF CheckSecret
<1>4. CASE Fails
  <2>1. UNCHANGED apiVars
    BY <1>1, <1>4, IdleFacts DEF CheckSecret, Fails, Job
  <2>2. SecretCalm'
    BY <1>2, <1>3, <1>4, <2>1, Stops DEF Fails, Calm, apiVars
  <2> QED
    BY <1>3, <1>4, <2>2, IdleFacts, NsStill DEF Fails, Calm, Waited
<1>5. CASE /\ IF Message(item) THEN Remove(item[1]) ELSE UNCHANGED apiVars
           /\ job' = [job EXCEPT !.left = @ \ {item}, !.message = Message(item),
                                 !.found = @ \/ Accepted(item)]
  <2>1. /\ job'.busy = TRUE /\ job'.ns = job.ns /\ job'.left = {}
        /\ job'.found = (job.found \/ Accepted(item))
    BY <1>1, <1>5 DEF Job
  <2>2. NsCalm'
    BY <1>1, <1>3, <2>1, NsStill DEF Calm
  <2>3. LooksFirst' /\ Waited'
    BY <2>1 DEF LooksFirst, Waited
  <2>4. CASE Message(item)
    <3>1. job'.found = FALSE
      BY <1>1, <2>1, <2>4, AcceptedIsValid DEF SecretObject
    <3>2. /\ ~store'[TokenName].exists /\ UNCHANGED cache
          /\ store'[TokenName].token = store[TokenName].token
          /\ \A i \in 1 .. Len(watch'[TokenName]) :
               \/ watch'[TokenName][i] = store'[TokenName]
               \/ i \in 1 .. Len(watch[TokenName]) /\ watch'[TokenName][i] = watch[TokenName][i]
      BY <1>1, <1>5, <2>4, RemovedCopies
    <3>3. Copies' \subseteq Copies \cup {store'[TokenName]}
      BY <2>1, <3>2 DEF Copies
    <3>4. store[TokenName] \in Copies
      BY DEF Copies
    <3>5. Plain'
      BY <3>2, <3>3, <3>4 DEF Calm, SecretCalm, Plain
    <3>6. Replacing'
      BY <2>1, <3>1, <3>2 DEF Replacing
    <3> QED
      BY <2>2, <2>3, <3>1, <3>5, <3>6 DEF Calm, SecretCalm, GoodKnown, FoundGood
  <2>5. CASE ~Message(item)
    <3>1. UNCHANGED <<store, watch, cache>>
      BY <1>5, <2>5 DEF apiVars
    <3>2. Valid(item[2])
      BY <1>1, <2>5 DEF Valid, Message
    <3>3. Valid(store[TokenName])
      BY <1>1, <1>2, <3>2 DEF Calm, SecretCalm, GoodKnown
    <3>4. Copies' \subseteq Copies
      BY <2>1, <3>1 DEF Copies
    <3>5. FoundGood'
      BY <1>3, <3>1, <3>3 DEF FoundGood, Valid
    <3> QED
      BY <1>2, <1>3, <2>2, <2>3, <3>1, <3>4, <3>5, SecretsStill DEF Calm, SecretCalm
  <2> QED
    BY <2>4, <2>5
<1> QED
  BY <1>4, <1>5 DEF CheckSecret

LEMMA CalmCreateToken ==
  ASSUME TypeOK, Calm, CreateToken, disturbances = 0, disturbances' = 0
  PROVE  Calm'
<1>1. /\ job.busy /\ job.left = {} /\ UNCHANGED <<nsVars, key>> /\ job' = Idle
      /\ job.ns \in NsCopies /\ nsStore[Namespace] \in NsCopies /\ key \in Nat
      /\ TokenName \in Name
  BY TokensAssumption DEF CreateToken, Fails, NsCopies, TypeOK, Job
<1>2. job.ns.labelled /\ nsStore[Namespace].exists /\ nsStore[Namespace].phase = "Active"
  BY <1>1 DEF Calm, NsCalm, Intact
<1>3. NsCalm'
  BY <1>1, IdleFacts, NsStill DEF Calm
<1>4. CASE job.found /\ UNCHANGED apiVars
  <2>1. Valid(store[TokenName]) /\ ~Replacing
    BY <1>1, <1>4 DEF Calm, SecretCalm, FoundGood, Replacing
  <2>2. SecretCalm'
    BY <1>1, <1>4, <2>1, Stops DEF Calm, apiVars
  <2>3. Waited'
    BY <1>1, <1>4, <2>1 DEF Waited, Valid, apiVars
  <2> QED
    BY <1>3, <2>2, <2>3 DEF Calm
<1>5. CASE Write(TokenName, Secret(GenerateTokenForNamespace(key)))
  <2> DEFINE new == Versioned(TokenName, Secret(GenerateTokenForNamespace(key)))
  <2>1. /\ new.exists = TRUE /\ new.token = GenerateTokenForNamespace(key)
        /\ PlainToken(new.token) /\ ~Invalid(key, new.token)
    BY DEF Versioned, Secret, GenerateTokenForNamespace, PlainToken, Invalid, Signed
  <2>2. new \in SecretObject
    <3>1. store[TokenName].rv + 1 \in Nat
      BY <1>1 DEF TypeOK, SecretObject
    <3> QED
      BY <1>1, <3>1, NewSecretType DEF Versioned, SecretObject
  <2>3. /\ store' = [store EXCEPT ![TokenName] = new] /\ cache' = cache
        /\ watch' = [watch EXCEPT ![TokenName] = Append(@, new)]
    BY <1>5 DEF Write
  <2> HIDE DEF new
  <2>4. /\ store'[TokenName] = new
        /\ \A i \in 1 .. Len(watch'[TokenName]) :
             \/ watch'[TokenName][i] = new
             \/ i \in 1 .. Len(watch[TokenName]) /\ watch'[TokenName][i] = watch[TokenName][i]
    BY <1>1, <2>2, <2>3 DEF TypeOK
  <2>5. Copies' \subseteq Copies \cup {new}
    BY <1>1, <2>3, <2>4, IdleFacts DEF Copies
  <2>6. Valid(store[TokenName])'
    BY <1>1, <2>1, <2>4 DEF Valid
  <2>7. Plain'
    BY <2>1, <2>5 DEF Calm, SecretCalm, Plain
  <2> QED
    BY <1>1, <1>3, <2>6, <2>7, IdleFacts
    DEF Calm, SecretCalm, LooksFirst, GoodKnown, FoundGood, Waited
<1>6. CASE ~job.found /\ Refused /\ Fails /\ UNCHANGED apiVars
  <2>1. ~Replacing
    BY <1>2, <1>6 DEF Refused, Replacing
  <2>2. SecretCalm'
    BY <1>1, <1>6, <2>1, Stops DEF Calm, apiVars
  <2> QED
    BY <1>3, <1>6, <2>2 DEF Calm, Waited, Fails
<1> QED
  BY <1>2, <1>4, <1>5, <1>6 DEF CreateToken, Disturbance

LEMMA CalmRestart ==
  ASSUME TypeOK, Calm, Restart
  PROVE  Calm'
<1>1. /\ store' = store /\ cache' = store /\ watch' = [n \in Name |-> <<>>]
      /\ nsStore' = nsStore /\ nsCache' = nsStore /\ nsWatch' = [n \in {Namespace} |-> <<>>]
      /\ job' = Idle /\ queued' = activeNamespacePredicate(nsStore[Namespace])
      /\ TokenName \in Name
  BY TokensAssumption DEF Restart, Relist, NS!Relist
<1>2. Copies' = {store'[TokenName]} /\ store[TokenName] \in Copies
  BY <1>1, IdleFacts DEF Copies
<1>3. NsCopies' = {nsStore[Namespace]} /\ nsStore[Namespace] \in NsCopies
  BY <1>1, IdleFacts DEF NsCopies
<1>4. NsCalm'
  BY <1>1, <1>3 DEF Calm, NsCalm, Intact, NsWatchEnds
<1>5. SecretCalm'
  BY <1>1, <1>2, IdleFacts DEF Calm, SecretCalm, Plain, LooksFirst, GoodKnown, FoundGood
<1>6. Waited'
  BY <1>1 DEF Waited, Eligible
<1> QED
  BY <1>4, <1>5, <1>6 DEF Calm

(* Disturbances are never taken back. *)
LEMMA DisturbancesGrow ==
  ASSUME TypeOK, [ServiceNext]_allVars, disturbances' = 0
  PROVE  disturbances = 0
<1>1. CASE Change \/ Disturbance \/ UNCHANGED counters
  BY <1>1 DEF Change, Disturbance, counters, TypeOK
<1>2. CASE Calls
  BY <1>2, CallLeaves DEF TypeOK
<1>3. CASE Next
  <2>1. CASE NamespaceChanges \/ NamespaceRemoved \/ DeliverNamespace \/ Resync
    BY <1>1, <2>1 DEF NamespaceChanges, NamespaceRemoved, DeliverNamespace, Resync
  <2>2. ASSUME NEW n \in Name, PurgeSecret(n) \/ Tamper(n) \/ DeliverSecret(n)
        PROVE  disturbances = 0
    BY <1>1, <2>2 DEF PurgeSecret, Tamper, DeliverSecret
  <2>3. ASSUME NEW item \in job.left, PanicOnToken(item) \/ CheckSecret(item)
        PROVE  disturbances = 0
    BY <1>1, <2>3 DEF PanicOnToken, CheckSecret
  <2>4. CASE Reconcile \/ CreateToken \/ Restart
    BY <1>1, <2>4 DEF Reconcile, CreateToken, Restart
  <2> QED
    BY <1>3, <2>1, <2>2, <2>3, <2>4 DEF Next
<1> QED
  BY <1>1, <1>2, <1>3 DEF ServiceNext, allVars, vars, counters

LEMMA CalmNext ==
  ASSUME OneSecret, WInv, [ServiceNext]_allVars
  PROVE  WInv'
<1>1. TypeOK /\ TypeOK'
  BY ServiceTypeNext DEF WInv
<1>2. disturbances' = 0 => disturbances = 0
  BY <1>1, DisturbancesGrow
<1> SUFFICES ASSUME disturbances = 0, disturbances' = 0 PROVE Calm'
  BY <1>1, <1>2 DEF WInv
<1>3. Calm
  BY DEF WInv
<1>4. nsStore[Namespace].phase = "Active"
  BY <1>3 DEF Calm, NsCalm, Intact, NsCopies
<1>5. ASSUME UNCHANGED <<store, watch, cache, nsVars, key, job>>, queued => queued' PROVE Calm'
  BY <1>3, <1>5, NothingMoves, NsStill DEF Calm, Waited, Valid, nsVars
<1>6. CASE Calls
  BY <1>1, <1>5, <1>6, CallLeaves DEF nsVars
<1>7. CASE UNCHANGED vars
  BY <1>5, <1>7 DEF vars, nsVars
<1>8. CASE Resync
  BY <1>5, <1>8 DEF Resync
<1>9. CASE NamespaceRemoved
  BY <1>4, <1>9 DEF NamespaceRemoved
<1>10. ASSUME NEW n \in Name, PurgeSecret(n) \/ Tamper(n) PROVE FALSE
  BY <1>4, <1>10 DEF PurgeSecret, Tamper, Disturbance
<1>11. CASE Next
  BY <1>1, <1>3, <1>8, <1>9, <1>10, <1>11, CalmNamespaceChanges, CalmDeliverNamespace,
     CalmDeliverSecret, CalmReconcile, CalmPanic, CalmCheckSecret, CalmCreateToken, CalmRestart
  DEF Next
<1> QED
  BY <1>6, <1>7, <1>11 DEF ServiceNext, allVars

(* In a namespace with one secret, whatever it holds at the start that is  *)
(* a token of this namespace, any relabelling, restart and change of key,  *)
(* and a cache however far behind leave a namespace without a token        *)
(* queued, in a reconcile, or with an event about it on its way.           *)
THEOREM NamespaceRemembered ==
  ASSUME OneSecret
  PROVE  SafeServiceSpec => []NeverLeftWithout
<1>1. ServiceInit => WInv
  BY TypeInit, CalmInit DEF ServiceInit, WInv
<1>2. WInv => NeverLeftWithout
  <2> SUFFICES ASSUME WInv, disturbances = 0 PROVE NeverLeftWithout
    BY DEF NeverLeftWithout
  <2>1. PlainToken(store[TokenName].token)
    BY DEF WInv, Calm, SecretCalm, Plain, Copies
  <2>2. Valid(store[TokenName]) => HasToken
    BY <2>1, TokensAssumption
    DEF HasToken, Usable, Valid, PlainToken, ExtractedNamespace, Invalid
  <2> QED
    BY <2>2 DEF WInv, Calm, Waited, NeverLeftWithout
<1> QED
  BY <1>1, <1>2, CalmNext, PTL DEF SafeServiceSpec

(* A call refused with the token of the secret was made with an invalid    *)
(* one: nothing else is answered with 401, and without a failing broker    *)
(* only a panic over the token with 500.                                   *)
LEMMA RefusedIsInvalid ==
  ASSUME TypeOK, NEW tok, NEW req, Web!Handle(tok, req),
         call'.status \in {401, 500}, disturbances' = 0
  PROVE  Invalid(key, tok)
<1>1. CASE Web!Unauthorised(tok)
  BY <1>1 DEF Web!Unauthorised, Web!PanicsOn, Web!Invalid, Web!Signed, Invalid, Signed
<1>2. CASE Web!Authorised(tok, req)
  <2>1. disturbances' # disturbances + 1
    BY DEF TypeOK
  <2>2. call'.status \in {200, 400}
    BY <1>2, <2>1 DEF Web!Authorised, Web!Answer, Web!NoCall
  <2> QED
    BY <2>2
<1> QED
  BY <1>1, <1>2 DEF Web!Handle

(* In a namespace with one secret a container whose own token is refused,  *)
(* or panicked on, finds the reconciler about to look at it, whatever the  *)
(* secret holds at the start, and whenever the key changes: as long as     *)
(* nobody else interferes and no call fails.                               *)
THEOREM RefusedMeanwhile ==
  ASSUME OneSecret
  PROVE  SafeServiceSpec => RefusedOnlyMeanwhile
<1>1. ServiceInit => WInv
  BY TypeInit, CalmInit DEF ServiceInit, WInv
<1>2. ASSUME WInv, [ServiceNext]_allVars, NEW n \in Name, NEW req \in Requests,
             OwnCall(n, req), call'.status \in {401, 500}, disturbances' = 0,
             Eligible(nsStore[Namespace])
      PROVE  queued \/ job.busy \/ nsWatch[Namespace] # <<>>
  <2>1. n = TokenName /\ Web!Handle(store[TokenName].token, req)
    BY <1>2 DEF OneSecret, OwnCall
  <2>2. ~Valid(store[TokenName])
    BY <1>2, <2>1, RefusedIsInvalid DEF WInv, Valid
  <2>3. disturbances = 0
    BY <1>2, DisturbancesGrow DEF WInv
  <2> QED
    BY <1>2, <2>2, <2>3 DEF WInv, Calm, Waited
<1>3. WInv /\ [ServiceNext]_allVars =>
        [\A n \in Name, req \in Requests :
           /\ OwnCall(n, req) /\ call'.status \in {401, 500} /\ disturbances' = 0
           /\ Eligible(nsStore[Namespace])
           => queued \/ job.busy \/ nsWatch[Namespace] # <<>>]_allVars
  BY <1>2
<1> QED
  BY <1>1, <1>3, CalmNext, PTL DEF SafeServiceSpec, RefusedOnlyMeanwhile
=============================================================================
