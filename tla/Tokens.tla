-------------------------------- MODULE Tokens --------------------------------
(***************************************************************************)
(* The JSON web tokens that insights-remote issues for an environment and  *)
(* asks of those who write to its web service.  Of a token only what the   *)
(* validation tells apart is modelled: whether it is there and a JWT at    *)
(* all, the key it is signed with, the namespace, project and environment  *)
(* it names, and which of its claims is missing: one that is read before   *)
(* the namespace, or one read after it.  "nokey" is no token at all: a     *)
(* secret without the key INSIGHTS_TOKEN, a call without Authorization.    *)
(***************************************************************************)
EXTENDS Integers

Token == [form    : {"jwt", "malformed", "nokey"},
          key     : Nat,
          ns      : {"own", "other"},
          missing : {"nothing", "early", "late"}]

(* Mutant of GenerateTokenForNamespace: signed with no key, none having    *)
(* been handed to the reconciler.                                          *)
GenerateTokenForNamespace_NoKey(key) ==
  [form |-> "jwt", key |-> -1, ns |-> "own", missing |-> "nothing"]

GenerateTokenForNamespace(key) ==
  [form |-> "jwt", key |-> key, ns |-> "own", missing |-> "nothing"]

(* ValidateAndExtractNamespaceDetailsFromToken: whether it returns an      *)
(* error, and the namespace in the details it returns, error or not.       *)
Signed(key, tok) == tok.form = "jwt" /\ tok.key = key
Invalid(key, tok) == ~(Signed(key, tok) /\ tok.missing = "nothing")
ExtractedNamespace(key, tok) ==
  IF Signed(key, tok) /\ tok.missing # "early" THEN tok.ns ELSE "none"

(* jwt.Parse returns no token for what is not three parts, such as an      *)
(* empty string, and its claims are read all the same.                     *)
PanicsOn(tok) == tok.form # "jwt"
=============================================================================
