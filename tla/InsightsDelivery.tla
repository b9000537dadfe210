-------------------------- MODULE InsightsDelivery --------------------------
(***************************************************************************)
(* What insights-remote promises the build that publishes an insights      *)
(* ConfigMap, with no reconciler, cache, cron or annotation in sight: the  *)
(* payload is pending until either every processor that wants it has been  *)
(* handed it, and it is done, or the program gives up on it; only a done   *)
(* payload is discarded; and the payload the build published last is the   *)
(* one that counts, whatever a late delivery of an earlier one does.       *)
(***************************************************************************)
EXTENDS Naturals

CONSTANTS Name, Processor

VARIABLES
  present,    \* [Name -> BOOLEAN]: a payload is there
  payload,    \* [Name -> Nat]: the number of the last payload published
  required,   \* [Name -> SUBSET Processor]: those that must be handed it
  outcome,    \* [Name -> {"pending", "done", "abandoned"}]
  sent        \* set of <<name, payload, processor>> handed over

vars == <<present, payload, required, outcome, sent>>

Init ==
  /\ present = [c \in Name |-> FALSE]
  /\ payload = [c \in Name |-> 0]
  /\ required \in [Name -> SUBSET Processor]
  /\ outcome = [c \in Name |-> "pending"]
  /\ sent = {}

Publish(c) ==
  /\ present' = [present EXCEPT ![c] = TRUE]
  /\ payload' = [payload EXCEPT ![c] = @ + 1]
  /\ \E req \in SUBSET Processor : required' = [required EXCEPT ![c] = req]
  /\ outcome' = [outcome EXCEPT ![c] = "pending"]
  /\ UNCHANGED sent

HandOver(c) ==
  /\ \E g \in 1 .. payload[c], p \in Processor : sent' = sent \cup {<<c, g, p>>}
  /\ UNCHANGED <<present, payload, required, outcome>>

Complete(c) ==
  /\ present[c]
  /\ \A p \in required[c] : <<c, payload[c], p>> \in sent
  /\ outcome' = [outcome EXCEPT ![c] = "done"]
  /\ UNCHANGED <<present, payload, required, sent>>

Abandon(c) ==
  /\ present[c]
  /\ outcome[c] = "pending"
  /\ outcome' = [outcome EXCEPT ![c] = "abandoned"]
  /\ UNCHANGED <<present, payload, required, sent>>

Discard(c) ==
  /\ present[c]
  /\ outcome[c] = "done"
  /\ present' = [present EXCEPT ![c] = FALSE]
  /\ UNCHANGED <<payload, required, outcome, sent>>

Next ==
  \E c \in Name : Publish(c) \/ HandOver(c) \/ Complete(c) \/ Abandon(c) \/ Discard(c)

Spec == Init /\ [][Next]_vars
=============================================================================
