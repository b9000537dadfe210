---------------------------- MODULE MCTokenService ----------------------------
(* Instances of TokenService, and of NamespaceTokens in it, for TLC. *)
EXTENDS TokenService

Good      == [form |-> "jwt", key |-> 1, ns |-> "own", missing |-> "nothing"]
OldKey    == [Good EXCEPT !.key = 0]
NoKey     == [Good EXCEPT !.form = "nokey"]
Malformed == [Good EXCEPT !.form = "malformed"]
NoEnvId   == [Good EXCEPT !.missing = "early"]
NoProject == [Good EXCEPT !.missing = "late"]
Foreign   == [Good EXCEPT !.ns = "other"]

Nothing      == {}
GoodOnly     == {Good}
GoodOrOld    == {Good, OldKey}
OthersTokens == {Foreign}

(* What may be there at first, and what users write later.  That these are *)
(* written and not found makes a difference to NeverLeftWithout, which     *)
(* promises nothing once a user had a hand in it: it does not hold of a    *)
(* secret with a token for another namespace, nor of one with a token that *)
(* lacks a claim read after the namespace.                                 *)
FoundAtFirst   == {Good, OldKey, NoKey, NoEnvId, Malformed}
WrittenByUsers == {NoKey, NoProject, Foreign}

Ids == [ns \in {"own", "other"} |-> IF ns = "own" THEN 3 ELSE 8]

Claims == {[environment |-> 4, source |-> ""]}
(* Facts that are read, problems that are not, and a call without a body. *)
Posts == {[route |-> "facts", form |-> "object", type |-> "absent", items |-> Claims],
          [route |-> "problems", form |-> "object", type |-> "absent", items |-> Claims],
          [route |-> "delete facts", form |-> "none", type |-> "absent", items |-> {}]}
(* The object that TestWriteFactsRoute posts: internal.Facts, in which a    *)
(* type is never absent.                                                    *)
TestFacts == {[route |-> "facts", form |-> "object", type |-> "", items |-> Claims]}
=============================================================================
