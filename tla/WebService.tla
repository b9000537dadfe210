------------------------------ MODULE WebService ------------------------------
(***************************************************************************)
(* The web service: containers post facts and problems, or have them       *)
(* deleted, and what they send goes to Lagoon's message broker as coming   *)
(* from the environment of their token.                                    *)
(*                                                                         *)
(* The handlers share no state, so a call is one step; its only contact    *)
(* with the rest is the broker, which may fail before or after it has      *)
(* taken the message.  call is what the last call came to.  TokenService   *)
(* composes this with the reconciler that hands out the tokens.            *)
(***************************************************************************)
EXTENDS Tokens

CONSTANTS
  Requests,        \* what is asked for
  EnvironmentId,   \* [namespace -> the environment id its token carries]
  MaxInt32,        \* largest value of a 32 bit ParseInt
  WriteToQueue,    \* the broker is enabled
  MaxFaults        \* bound: failing calls of the broker

VARIABLES
  key,             \* insights-token-secret
  call,            \* the last call
  faults           \* faults so far

-----------------------------------------------------------------------------
(* The body is a list of items, or an object with such a list in it and,   *)
(* perhaps, a type of its own.  An item claims an environment too.  To     *)
(* delete there is no body.                                                *)
Item == [environment : Int, source : {"", "scanner"}]
Request == [route : {"facts", "problems", "delete facts", "delete problems"},
            form  : {"list", "object", "unreadable", "none"},
            type  : {"absent", ""},
            items : SUBSET Item]

(* What TokenService assumes of the constants. *)
WebAssumption ==
  /\ Requests \subseteq Request
  /\ EnvironmentId \in [{"own", "other"} -> Nat]
  /\ MaxInt32 \in Nat /\ WriteToQueue \in BOOLEAN /\ MaxFaults \in Nat

RouteType(route) ==
  CASE route = "facts"           -> "direct.facts"
    [] route = "problems"        -> "direct.problems"
    [] route = "delete facts"    -> "direct.delete.facts"
    [] route = "delete problems" -> "direct.delete.problems"

(* Facts may come as an object, problems only as a list. *)
Readable(req) ==
  CASE req.route = "facts"    -> req.form \in {"list", "object"}
    [] req.route = "problems" -> req.form = "list"
    [] OTHER                  -> TRUE

(* Mutant of ParseInt: the int32 that the number wraps round to. *)
ParseInt_Wraps(id) ==
  [ok |-> TRUE, value |-> ((id + MaxInt32 + 1) % (2 * (MaxInt32 + 1))) - (MaxInt32 + 1)]

(* strconv.ParseInt(id, 10, 32) *)
ParseInt(id) == [ok |-> id <= MaxInt32, value |-> id]

(* Mutant of Forced: what the item says of itself is sent on. *)
Forced_AsClaimed(item, id) == item

(* An item as it is sent on: the environment is forced on it, and a source *)
(* is given to it if it has none.                                          *)
Forced(item, id) ==
  [environment |-> id,
   source |-> IF item.source = "" THEN "InsightsRemoteWebService" ELSE item.source]

(* To delete, only the environment is put in. *)
DirectDeleteMessage(req, id) ==
  [type |-> RouteType(req.route), environment |-> id, items |-> {}]

(* The object is unmarshalled over the message, type and all, and the      *)
(* environment put into it afterwards.                                     *)
MessageFor(req, id) ==
  IF req.form = "none" THEN DirectDeleteMessage(req, id)
  ELSE [type        |-> IF req.form = "object" /\ req.type # "absent"
                        THEN req.type ELSE RouteType(req.route),
        environment |-> id,
        items       |-> {Forced(item, id) : item \in req.items}]

(* status is the answer, sent what the broker has taken; the namespace of  *)
(* the token and the route only matter when that is something.             *)
NoCall == [status |-> 0, token |-> "none", route |-> "none", sent |-> {}]
Answer(status) == [NoCall EXCEPT !.status = status]

WebInit == call = NoCall

(* Mutant of BrokerFailed: the writer's error is not handed up. *)
BrokerFailed_Swallowed(answered) == answered

(* The answer when MessageQWriter has returned an error. *)
BrokerFailed(answered) == [answered EXCEPT !.status = 500]

(* gin recovers the panic; a token that is not valid is turned away.       *)
Unauthorised(tok) ==
  /\ PanicsOn(tok) \/ Invalid(key, tok)
  /\ call' = Answer(IF PanicsOn(tok) THEN 500 ELSE 401)
  /\ UNCHANGED faults

(* With a valid token come the body and the id in it, then the broker.     *)
Authorised(tok, req) ==
  LET id       == ParseInt(EnvironmentId[ExtractedNamespace(key, tok)])
      sent     == IF WriteToQueue THEN {MessageFor(req, id.value)} ELSE {}
      answered == [status |-> 200, token |-> tok.ns, route |-> req.route, sent |-> sent]
  IN  /\ ~PanicsOn(tok) /\ ~Invalid(key, tok)
      /\ \/ /\ ~(Readable(req) /\ id.ok)
            /\ call' = Answer(400)
            /\ UNCHANGED faults
         \/ /\ Readable(req) /\ id.ok
            /\ call' = answered
            /\ UNCHANGED faults
         \/ /\ Readable(req) /\ id.ok /\ WriteToQueue
            /\ faults < MaxFaults /\ faults' = faults + 1
            /\ call' \in {BrokerFailed(answered), BrokerFailed(Answer(200))}

Handle(tok, req) == Unauthorised(tok) \/ Authorised(tok, req)

-----------------------------------------------------------------------------
(* Nobody writes as another environment: a message carries the id of the   *)
(* environment that the token was issued for, in itself and in every item, *)
(* whatever the request claims and whatever the width of the id.           *)
MessagesAreOwn ==
  \A msg \in call.sent :
    /\ msg.environment = EnvironmentId[call.token]
    /\ \A item \in msg.items : item.environment = msg.environment

(* A call that is answered with 200 has had its message taken by the       *)
(* broker, and one refused or unreadable has left none.                    *)
AnsweredTruly ==
  /\ call.status = 200 /\ WriteToQueue => call.sent # {}
  /\ call.status \in {400, 401} => call.sent = {}

(* "send along these direct problems or facts": the type of a message is   *)
(* that of its route.                                                      *)
TypeOfTheRoute == \A msg \in call.sent : msg.type = RouteType(call.route)
=============================================================================
