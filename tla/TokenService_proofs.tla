------------------------- MODULE TokenService_proofs -------------------------
(***************************************************************************)
(* Theorems of TokenService.  What the web service sends is about the call *)
(* it is in and nothing else, so these are about any namespace, any tokens *)
(* and any requests.  That an eligible namespace is not left without a     *)
(* token is proved of a namespace with one secret.                         *)
(***************************************************************************)
EXTENDS TokenService, SequenceTheorems, TLAPS

-----------------------------------------------------------------------------
(* Types. *)

LEMMA NewSecretType ==
  ASSUME key \in Nat
  PROVE  Secret(GenerateTokenForNamespace(key)) \in SecretObject
BY DEF Secret, GenerateTokenForNamespace, SecretObject, Token

LEMMA SecretType ==
  /\ NoSecret \in SecretObject
  /\ \A tok \in Token : Secret(tok) \in SecretObject
BY DEF NoSecret, Secret, SecretObject, Token

LEMMA NamespaceType ==
  /\ LagoonNamespace \in NamespaceObjects /\ NoNamespace \in NamespaceObjects
  /\ \A phase \in {"Active", "Terminating"}, labelled, targeted \in BOOLEAN :
       NamespaceObject(phase, labelled, targeted) \in NamespaceObjects
BY DEF LagoonNamespace, NoNamespace, NamespaceObject, NamespaceObjects

LEMMA IdleType == Idle \in Job
BY NamespaceType DEF Idle, Job

(* An accepted write keeps the types, of the secrets and of the namespace. *)
LEMMA SecretWriteType ==
  ASSUME TypeOK, NEW n \in Name, NEW secret \in SecretObject, Write(n, secret)
  PROVE  /\ store' \in [Name -> SecretObject] /\ cache' \in [Name -> SecretObject]
         /\ watch' \in [Name -> Seq(SecretObject)]
<1>1. store[n].rv + 1 \in Nat
  BY DEF TypeOK, SecretObject
<1>2. Versioned(n, secret) \in SecretObject
  BY <1>1 DEF Versioned, SecretObject
<1>3. Append(watch[n], Versioned(n, secret)) \in Seq(SecretObject)
  BY <1>2 DEF TypeOK
<1> QED
  BY <1>2, <1>3 DEF Write, TypeOK

LEMMA RemoveType ==
  ASSUME TypeOK, NEW n \in Name, Remove(n)
  PROVE  /\ store' \in [Name -> SecretObject] /\ cache' \in [Name -> SecretObject]
         /\ watch' \in [Name -> Seq(SecretObject)]
<1>1. CASE UNCHANGED apiVars
  BY <1>1 DEF apiVars, TypeOK
<1>2. CASE Write(n, [store[n] EXCEPT !.exists = FALSE])
  <2>1. [store[n] EXCEPT !.exists = FALSE] \in SecretObject
    BY DEF TypeOK, SecretObject
  <2> QED
    BY <1>2, <2>1, SecretWriteType
<1> QED
  BY <1>1, <1>2 DEF Remove

LEMMA NamespaceWriteType ==
  ASSUME TypeOK, NEW ns \in NamespaceObjects, NS!Write(Namespace, ns)
  PROVE  /\ nsStore' \in [{Namespace} -> NamespaceObjects]
         /\ nsCache' \in [{Namespace} -> NamespaceObjects]
         /\ nsWatch' \in [{Namespace} -> Seq(NamespaceObjects)]
<1>1. nsStore[Namespace].rv + 1 \in Nat
  BY DEF TypeOK, NamespaceObjects
<1>2. NS!Versioned(Namespace, ns) \in NamespaceObjects
  BY <1>1 DEF NS!Versioned, NamespaceObjects
<1>3. Append(nsWatch[Namespace], NS!Versioned(Namespace, ns)) \in Seq(NamespaceObjects)
  BY <1>2 DEF TypeOK
<1> QED
  BY <1>2, <1>3 DEF NS!Write, TypeOK

(* The job after a step of the reconcile. *)
LEMMA CheckedType ==
  ASSUME job \in Job, NEW item, NEW message \in BOOLEAN, NEW found \in BOOLEAN
  PROVE  [job EXCEPT !.left = @ \ {item}, !.message = message, !.found = found] \in Job
BY DEF Job

LEMMA MessageType ==
  ASSUME job \in Job, NEW item
  PROVE  Message(item) \in BOOLEAN /\ Accepted(item) \in BOOLEAN
BY DEF Job, Message, Invalid, Accepted

LEMMA CounterType ==
  ASSUME TypeOK, Change \/ Disturbance \/ UNCHANGED counters
  PROVE  changes' \in Nat /\ disturbances' \in Nat
BY DEF TypeOK, Change, Disturbance, counters

LEMMA TypeInit == Init => TypeOK
<1> SUFFICES ASSUME Init PROVE TypeOK
  OBVIOUS
<1>1. store \in [Name -> SecretObject]
  BY SecretType, TokensAssumption DEF Init
<1> QED
  BY <1>1, IdleType, NamespaceType DEF Init, TypeOK

LEMMA TypeNext == TypeOK /\ [Next]_vars => TypeOK'
<1> SUFFICES ASSUME TypeOK, [Next]_vars PROVE TypeOK'
  OBVIOUS
<1> USE DEF apiVars, nsVars, counters
<1>1. CASE NamespaceChanges
  <2> DEFINE ns == nsStore[Namespace]
  <2>1. ns \in NamespaceObjects
    BY DEF TypeOK
  <2>2. \E new \in NamespaceObjects : NS!Write(Namespace, new)
    <3>1. /\ [ns EXCEPT !.labelled = FALSE] \in NamespaceObjects
          /\ [ns EXCEPT !.phase = "Terminating"] \in NamespaceObjects
      BY <2>1 DEF NamespaceObjects
    <3> QED
      BY <1>1, <3>1, NamespaceType DEF NamespaceChanges
  <2>3. changes' \in Nat /\ disturbances' \in Nat
    BY <1>1, CounterType DEF NamespaceChanges
  <2> QED
    BY <1>1, <2>2, <2>3, NamespaceWriteType DEF NamespaceChanges, TypeOK
<1>2. CASE NamespaceRemoved
  <2>1. [nsStore[Namespace] EXCEPT !.exists = FALSE] \in NamespaceObjects
    BY DEF TypeOK, NamespaceObjects
  <2>2. NS!Write(Namespace, [nsStore[Namespace] EXCEPT !.exists = FALSE])
    BY <1>2 DEF NamespaceRemoved, NS!Remove
  <2> QED
    BY <1>2, <2>1, <2>2, NamespaceWriteType DEF NamespaceRemoved, TypeOK
<1>3. CASE DeliverNamespace
  <2>1. /\ nsWatch[Namespace] \in Seq(NamespaceObjects) /\ nsWatch[Namespace] # <<>>
    BY <1>3 DEF DeliverNamespace, NS!Observe, TypeOK
  <2>2. Head(nsWatch[Namespace]) \in NamespaceObjects /\ Tail(nsWatch[Namespace]) \in Seq(NamespaceObjects)
    BY <2>1
  <2>3. queued' \in BOOLEAN
    BY <1>3 DEF DeliverNamespace, TypeOK, activeNamespacePredicate
  <2> QED
    BY <1>3, <2>2, <2>3 DEF DeliverNamespace, NS!Observe, TypeOK
<1>4. CASE Resync
  BY <1>4 DEF Resync, TypeOK
<1>5. ASSUME NEW n \in Name, PurgeSecret(n) PROVE TypeOK'
  BY <1>5, RemoveType DEF PurgeSecret, TypeOK
<1>6. ASSUME NEW n \in Name, Tamper(n) PROVE TypeOK'
  <2>1. /\ store' \in [Name -> SecretObject] /\ cache' \in [Name -> SecretObject]
        /\ watch' \in [Name -> Seq(SecretObject)]
    BY <1>6, SecretType, TokensAssumption, RemoveType, SecretWriteType DEF Tamper
  <2> QED
    BY <1>6, <2>1 DEF Tamper, Disturbance, TypeOK
<1>7. ASSUME NEW n \in Name, DeliverSecret(n) PROVE TypeOK'
  <2>1. /\ watch[n] \in Seq(SecretObject) /\ watch[n] # <<>>
    BY <1>7 DEF DeliverSecret, Observe, TypeOK
  <2>2. Head(watch[n]) \in SecretObject /\ Tail(watch[n]) \in Seq(SecretObject)
    BY <2>1
  <2> QED
    BY <1>7, <2>2 DEF DeliverSecret, Observe, TypeOK
<1>8. ASSUME NEW item \in job.left, PanicOnToken(item) PROVE TypeOK'
  BY <1>8, IdleType DEF PanicOnToken, Fails, TypeOK
<1>9. ASSUME NEW item \in job.left, CheckSecret(item) PROVE TypeOK'
  <2>1. item[1] \in Name
    BY DEF TypeOK, Job
  <2>2. /\ store' \in [Name -> SecretObject] /\ cache' \in [Name -> SecretObject]
        /\ watch' \in [Name -> Seq(SecretObject)]
    BY <1>9, <2>1, RemoveType DEF CheckSecret, TypeOK
  <2>3. job' \in Job
    <3>1. /\ Message(item) \in BOOLEAN /\ (job.found \/ Accepted(item)) \in BOOLEAN
          /\ job \in Job
      BY MessageType DEF TypeOK
    <3>2. [job EXCEPT !.left = @ \ {item}, !.message = Message(item),
                      !.found = @ \/ Accepted(item)] \in Job
      BY <3>1, CheckedType DEF Job
    <3> QED
      BY <1>9, <3>2, IdleType DEF CheckSecret, Fails
  <2>4. queued' \in BOOLEAN /\ changes' \in Nat /\ disturbances' \in Nat
    <3>1. queued' \in BOOLEAN
      BY <1>9 DEF CheckSecret, Fails, TypeOK
    <3>2. Disturbance \/ UNCHANGED counters
      BY <1>9 DEF CheckSecret
    <3> QED
      BY <3>1, <3>2, CounterType
  <2> QED
    BY <1>9, <2>2, <2>3, <2>4 DEF CheckSecret, TypeOK
<1>10. CASE Reconcile
  <2> DEFINE left == {<<n, cache[n]>> : n \in {m \in Name : cache[m].exists}}
  <2>1. left \in SUBSET (Name \X SecretObject) /\ nsCache[Namespace] \in NamespaceObjects
    BY DEF TypeOK
  <2> HIDE DEF left
  <2>2. [Idle EXCEPT !.busy = TRUE, !.ns = nsCache[Namespace], !.left = left] \in Job
    BY <2>1, IdleType DEF Job
  <2>3. job' \in Job
    BY <1>10, <2>2 DEF Reconcile, TypeOK, left
  <2> QED
    BY <1>10, <2>3 DEF Reconcile, TypeOK
<1>11. CASE CreateToken
  <2>1. /\ store' \in [Name -> SecretObject] /\ cache' \in [Name -> SecretObject]
        /\ watch' \in [Name -> Seq(SecretObject)]
    BY <1>11, NewSecretType, SecretWriteType, TokensAssumption DEF CreateToken, TypeOK
  <2>2. job' \in Job /\ queued' \in BOOLEAN /\ changes' \in Nat /\ disturbances' \in Nat
    <3>1. job' \in Job /\ queued' \in BOOLEAN
      BY <1>11, IdleType DEF CreateToken, Fails, TypeOK
    <3>2. Disturbance \/ UNCHANGED counters
      BY <1>11 DEF CreateToken
    <3> QED
      BY <3>1, <3>2, CounterType
  <2> QED
    BY <1>11, <2>1, <2>2 DEF CreateToken, TypeOK
<1>12. CASE Restart
  <2>1. /\ watch' \in [Name -> Seq(SecretObject)]
        /\ nsWatch' \in [{Namespace} -> Seq(NamespaceObjects)]
    BY <1>12 DEF Restart, Relist, NS!Relist
  <2>2. queued' \in BOOLEAN /\ key' \in Nat
    BY <1>12 DEF Restart, activeNamespacePredicate, TypeOK, NamespaceObjects
  <2> QED
    BY <1>12, <2>1, <2>2, IdleType DEF Restart, Relist, NS!Relist, Change, TypeOK
<1>13. CASE UNCHANGED vars
  BY <1>13 DEF vars, TypeOK
<1> QED
  BY <1>1, <1>2, <1>3, <1>4, <1>5, <1>6, <1>7, <1>8, <1>9, <1>10, <1>11, <1>12, <1>13 DEF Next

(* What a call leaves alone, and what it may do to the count of faults. *)
LEMMA CallFaults ==
  ASSUME NEW tok, NEW req, Web!Handle(tok, req), TypeOK
  PROVE  disturbances' \in {disturbances, disturbances + 1}
BY DEF Web!Handle, Web!Unauthorised, Web!Authorised

LEMMA CallLeaves ==
  ASSUME Calls, TypeOK
  PROVE  /\ UNCHANGED <<store, watch, cache, nsStore, nsWatch, nsCache, queued, job, key, changes>>
         /\ disturbances' \in {disturbances, disturbances + 1}
BY CallFaults DEF Calls, OwnCall, OtherCall, apiVars, nsVars

LEMMA ServiceTypeNext == TypeOK /\ [ServiceNext]_allVars => TypeOK'
<1> SUFFICES ASSUME TypeOK, [ServiceNext]_allVars PROVE TypeOK'
  OBVIOUS
<1>1. CASE [Next]_vars
  BY <1>1, TypeNext
<1>2. CASE Calls
  BY <1>2, CallLeaves DEF TypeOK
<1> QED
  BY <1>1, <1>2 DEF ServiceNext, allVars

(* Every variable of the Namespace reconciler keeps its type, whatever     *)
(* tokens its secrets hold and whatever calls the web service gets: what   *)
(* it writes into a secret is a token (jwt.go).                            *)
THEOREM TypeCorrect == SafeServiceSpec => []TypeOK
<1>1. ServiceInit => TypeOK
  BY TypeInit DEF ServiceInit
<1> QED
  BY <1>1, ServiceTypeNext, PTL DEF SafeServiceSpec

-----------------------------------------------------------------------------
(* The web service. *)

(* A token that is taken names the namespace it was issued for. *)
LEMMA TakenNames ==
  ASSUME NEW tok, ~Web!Invalid(key, tok)
  PROVE  Web!ExtractedNamespace(key, tok) = tok.ns
BY DEF Web!Invalid, Web!ExtractedNamespace, Web!Signed

(* The id in the message and in all of its items is the one handed over.   *)
LEMMA MessageNamesId ==
  ASSUME NEW req, NEW id
  PROVE  /\ Web!MessageFor(req, id).environment = id
         /\ \A item \in Web!MessageFor(req, id).items : item.environment = id
<1>1. CASE req.form = "none"
  BY <1>1 DEF Web!MessageFor, Web!DirectDeleteMessage
<1>2. CASE req.form # "none"
  <2>1. /\ Web!MessageFor(req, id).environment = id
        /\ Web!MessageFor(req, id).items = {Web!Forced(item, id) : item \in req.items}
    BY <1>2 DEF Web!MessageFor
  <2>2. \A item \in req.items : Web!Forced(item, id).environment = id
    BY DEF Web!Forced
  <2> QED
    BY <2>1, <2>2
<1> QED
  BY <1>1, <1>2

LEMMA CallIsOwn ==
  ASSUME NEW tok, NEW req, Web!Handle(tok, req)
  PROVE  MessagesAreOwn'
<1> DEFINE id == Web!ParseInt(EnvironmentId[Web!ExtractedNamespace(key, tok)])
           msg == Web!MessageFor(req, id.value)
<1>1. CASE call'.sent = {}
  BY <1>1 DEF MessagesAreOwn, Web!MessagesAreOwn
<1>2. CASE /\ ~Web!Invalid(key, tok) /\ call'.token = tok.ns
           /\ \A m \in call'.sent : m = msg
  <2>1. id.value = EnvironmentId[tok.ns]
    BY <1>2, TakenNames DEF Web!ParseInt
  <2>2. /\ msg.environment = EnvironmentId[tok.ns]
        /\ \A item \in msg.items : item.environment = msg.environment
    BY <2>1, MessageNamesId
  <2> QED
    BY <1>2, <2>2 DEF MessagesAreOwn, Web!MessagesAreOwn
<1>3. CASE Web!Unauthorised(tok)
  BY <1>1, <1>3 DEF Web!Unauthorised, Web!Answer, Web!NoCall
<1>4. CASE Web!Authorised(tok, req)
  <2> DEFINE sent == IF WriteToQueue THEN {msg} ELSE {}
             answered == [status |-> 200, token |-> tok.ns, route |-> req.route, sent |-> sent]
  <2>1. /\ ~Web!Invalid(key, tok)
        /\ call' \in {Web!Answer(400), answered, Web!BrokerFailed(answered),
                      Web!BrokerFailed(Web!Answer(200))}
    BY <1>4 DEF Web!Authorised
  <2>2. CASE call' = answered \/ call' = Web!BrokerFailed(answered)
    <3>1. call'.token = tok.ns /\ call'.sent = sent
      BY <2>2 DEF Web!BrokerFailed
    <3> QED
      BY <1>2, <2>1, <3>1
  <2>3. CASE call' = Web!Answer(400) \/ call' = Web!BrokerFailed(Web!Answer(200))
    BY <1>1, <2>3 DEF Web!BrokerFailed, Web!Answer, Web!NoCall
  <2> QED
    BY <2>1, <2>2, <2>3
<1> QED
  BY <1>3, <1>4 DEF Web!Handle

LEMMA CallIsTruly ==
  ASSUME NEW tok, NEW req, Web!Handle(tok, req)
  PROVE  AnsweredTruly'
<1> USE DEF AnsweredTruly, Web!AnsweredTruly
<1>1. CASE Web!Unauthorised(tok)
  BY <1>1 DEF Web!Unauthorised, Web!Answer, Web!NoCall
<1>2. CASE Web!Authorised(tok, req)
  <2> DEFINE id == Web!ParseInt(EnvironmentId[Web!ExtractedNamespace(key, tok)])
             sent == IF WriteToQueue THEN {Web!MessageFor(req, id.value)} ELSE {}
             answered == [status |-> 200, token |-> tok.ns, route |-> req.route, sent |-> sent]
  <2>1. call' \in {Web!Answer(400), answered, Web!BrokerFailed(answered),
                   Web!BrokerFailed(Web!Answer(200))}
    BY <1>2 DEF Web!Authorised
  <2>2. CASE call' = answered
    BY <2>2
  <2>3. CASE call' = Web!BrokerFailed(answered) \/ call' = Web!BrokerFailed(Web!Answer(200))
    <3>1. Web!BrokerFailed(answered).status = 500
      BY DEF Web!BrokerFailed
    <3>2. Web!BrokerFailed(Web!Answer(200)).status = 500
      BY DEF Web!BrokerFailed, Web!Answer, Web!NoCall
    <3>3. call'.status = 500
      BY <2>3, <3>1, <3>2
    <3> QED
      BY <3>3
  <2>4. CASE call' = Web!Answer(400)
    BY <2>4 DEF Web!Answer, Web!NoCall
  <2> QED
    BY <2>1, <2>2, <2>3, <2>4
<1> QED
  BY <1>1, <1>2 DEF Web!Handle

LEMMA CallAnswered ==
  ASSUME MessagesAreOwn, AnsweredTruly, [ServiceNext]_allVars
  PROVE  MessagesAreOwn' /\ AnsweredTruly'
<1>1. CASE Calls
  BY <1>1, CallIsOwn, CallIsTruly DEF Calls, OwnCall, OtherCall
<1>2. CASE UNCHANGED call
  BY <1>2 DEF MessagesAreOwn, AnsweredTruly, Web!MessagesAreOwn, Web!AnsweredTruly
<1> QED
  BY <1>1, <1>2 DEF ServiceNext, allVars

LEMMA NothingCalled == ServiceInit => MessagesAreOwn /\ AnsweredTruly
BY DEF ServiceInit, MessagesAreOwn, AnsweredTruly, Web!MessagesAreOwn, Web!AnsweredTruly,
       Web!WebInit, Web!NoCall

(* processFactsInsightsRouter and its siblings force the environment of    *)
(* the token on the message and on every item, for any request, any        *)
(* numbering of the environments and any width of ParseInt.                *)
THEOREM NobodyElsesMessages == SafeServiceSpec => []MessagesAreOwn
BY NothingCalled, CallAnswered, PTL DEF SafeServiceSpec

(* No 200 without the message at the broker, no message after a refusal.   *)
THEOREM AnswersAreTrue == SafeServiceSpec => []AnsweredTruly
BY NothingCalled, CallAnswered, PTL DEF SafeServiceSpec

(* A message built for a body that brings no type has that of its route. *)
LEMMA MessageTyped ==
  ASSUME NEW req, req.form = "object" => req.type = "absent", NEW id
  PROVE  Web!MessageFor(req, id).type = Web!RouteType(req.route)
BY DEF Web!MessageFor, Web!DirectDeleteMessage

LEMMA CallIsTyped ==
  ASSUME NEW tok, NEW req, Web!Handle(tok, req), req.form = "object" => req.type = "absent"
  PROVE  TypeOfTheRoute'
<1> USE DEF TypeOfTheRoute, Web!TypeOfTheRoute
<1>1. CASE call'.sent = {}
  BY <1>1
<1>2. CASE Web!Unauthorised(tok)
  BY <1>1, <1>2 DEF Web!Unauthorised, Web!Answer, Web!NoCall
<1>3. CASE Web!Authorised(tok, req)
  <2> DEFINE id == Web!ParseInt(EnvironmentId[Web!ExtractedNamespace(key, tok)])
             sent == IF WriteToQueue THEN {Web!MessageFor(req, id.value)} ELSE {}
             answered == [status |-> 200, token |-> tok.ns, route |-> req.route, sent |-> sent]
  <2>1. call' \in {Web!Answer(400), answered, Web!BrokerFailed(answered),
                   Web!BrokerFailed(Web!Answer(200))}
    BY <1>3 DEF Web!Authorised
  <2>2. \A msg \in sent : msg.type = Web!RouteType(req.route)
    BY MessageTyped
  <2> HIDE DEF sent
  <2>3. CASE call' = answered \/ call' = Web!BrokerFailed(answered)
    <3>1. call'.sent = sent /\ call'.route = req.route
      BY <2>3 DEF Web!BrokerFailed
    <3> QED
      BY <2>2, <3>1 DEF Web!RouteType
  <2>4. CASE call' = Web!Answer(400) \/ call' = Web!BrokerFailed(Web!Answer(200))
    BY <1>1, <2>4 DEF Web!BrokerFailed, Web!Answer, Web!NoCall
  <2> QED
    BY <2>1, <2>3, <2>4
<1> QED
  BY <1>2, <1>3 DEF Web!Handle

(* Only an object that brings a type of its own, as the body of the test   *)
(* of the facts route does, can send a message on under another type than  *)
(* that of its route.                                                      *)
THEOREM RoutesTypeTheRest ==
  ASSUME \A req \in Requests : req.form = "object" => req.type = "absent"
  PROVE  SafeServiceSpec => []TypeOfTheRoute
<1>1. ServiceInit => TypeOfTheRoute
  BY DEF ServiceInit, TypeOfTheRoute, Web!TypeOfTheRoute, Web!WebInit, Web!NoCall
<1>2. TypeOfTheRoute /\ [ServiceNext]_allVars => TypeOfTheRoute'
  <2> SUFFICES ASSUME TypeOfTheRoute, [ServiceNext]_allVars PROVE TypeOfTheRoute'
    OBVIOUS
  <2>1. CASE Calls
    BY <2>1, CallIsTyped DEF Calls, OwnCall, OtherCall
  <2>2. CASE UNCHANGED call
    BY <2>2 DEF TypeOfTheRoute, Web!TypeOfTheRoute, Web!RouteType
  <2> QED
    BY <2>1, <2>2 DEF ServiceNext, allVars
<1> QED
  BY <1>1, <1>2, PTL DEF SafeServiceSpec
=============================================================================
