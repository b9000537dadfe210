----------------------------- MODULE TokenService -----------------------------
(***************************************************************************)
(* The Namespace reconciler and the web service together: the secret that  *)
(* the one keeps in the namespace is what its containers show the other.   *)
(***************************************************************************)
EXTENDS NamespaceTokens

CONSTANTS
  Requests, EnvironmentId, MaxInt32, WriteToQueue,
  Presented        \* other tokens that calls come with

VARIABLE call

Web == INSTANCE WebService WITH faults <- disturbances, MaxFaults <- MaxDisturbances

ASSUME ServiceAssumption == Presented \subseteq Token /\ Web!WebAssumption

allVars == <<vars, call>>

-----------------------------------------------------------------------------
ServiceInit == Init /\ Web!WebInit

(* A container reads the token from its mounted secret and calls. *)
OwnCall(n, req) ==
  /\ store[n].exists
  /\ Web!Handle(store[n].token, req)
  /\ UNCHANGED <<apiVars, nsVars, queued, job, key, changes>>

(* A call with any other token. *)
OtherCall(tok, req) ==
  /\ Web!Handle(tok, req)
  /\ UNCHANGED <<apiVars, nsVars, queued, job, key, changes>>

Calls ==
  \E req \in Requests :
    \/ \E n \in Name : OwnCall(n, req)
    \/ \E tok \in Presented : OtherCall(tok, req)

(* Both run in one process, with one key. *)
ServiceNext == (Next /\ UNCHANGED call) \/ Calls

(* A container that has something well-formed to post keeps trying. *)
CallFairness ==
  \A n \in Name : WF_allVars(\E req \in Requests : Web!Readable(req) /\ OwnCall(n, req))

SafeServiceSpec == ServiceInit /\ [][ServiceNext]_allVars

(* The fairness of the reconciler, which says nothing of calls. *)
ServiceSpec ==
  /\ SafeServiceSpec
  /\ Fairness /\ WF_vars(Resync)
  /\ CallFairness

-----------------------------------------------------------------------------
(* Nobody writes as another environment: a message carries the id of the   *)
(* environment that the token was issued for, in itself and in every item, *)
(* whatever the request claims and whatever the width of the id.           *)
MessagesAreOwn == Web!MessagesAreOwn

(* A call that is answered with 200 has had its message taken by the       *)
(* broker, and one refused or unreadable has left none.                    *)
AnsweredTruly == Web!AnsweredTruly

(* "send along these direct problems or facts": the type of a message is   *)
(* that of its route.                                                      *)
TypeOfTheRoute == Web!TypeOfTheRoute

(* As long as nobody else has had a hand in it and no call has failed, the *)
(* token that a container finds in its secret is only turned away, or made *)
(* to panic on, when the reconciler is already about to look at it.        *)
RefusedOnlyMeanwhile ==
  [][\A n \in Name, req \in Requests :
       /\ OwnCall(n, req) /\ call'.status \in {401, 500} /\ disturbances' = 0
       /\ Eligible(nsStore[Namespace])
       => queued \/ job.busy \/ nsWatch[Namespace] # <<>>]_allVars

(* The containers of an eligible namespace come to be heard: after any     *)
(* refused call one of theirs is accepted, although the key changes, the   *)
(* secret is damaged or the namespace is made again.  Not while the        *)
(* reconciler keeps a secret that is no JWT or that is valid for another   *)
(* namespace: a container that has only that is never heard as itself.     *)
EventuallyAccepted ==
  Eligible(nsStore[Namespace]) ~>
    \/ call.status = 200 /\ call.token = "own"
    \/ ~Eligible(nsStore[Namespace])
    \/ \E n \in Name : Stuck(store[n])
=============================================================================
