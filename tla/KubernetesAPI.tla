--------------------------- MODULE KubernetesAPI ---------------------------
(***************************************************************************)
(* The part of the Kubernetes API server and of the client machinery that  *)
(* the controllers of insights-remote are written against, for one kind of *)
(* object.  None of it is code of this repository: it is modelled from the *)
(* calls the repository makes (client.Get, List, Update, Delete, and the   *)
(* event filters handed to the controller builder).                        *)
(*                                                                         *)
(*  - The server keeps one object per name.  Every write gives the object  *)
(*    a new resource version and is announced on a watch, in order.        *)
(*  - An Update carries the resource version its author read and is        *)
(*    refused when the object has moved on or is gone; a Delete carries no *)
(*    such precondition.                                                   *)
(*  - Get and List of the manager's client read a cache that a watch feeds *)
(*    and that may therefore be behind the server.                         *)
(*                                                                         *)
(* An object is a record with at least the fields                          *)
(*    exists : the object is there (a deleted one keeps its version)       *)
(*    rv     : its metadata.resourceVersion                                *)
(***************************************************************************)
EXTENDS Naturals, Sequences

CONSTANT Name           \* names of the objects of this kind

VARIABLES
  store,                \* [Name -> object]: what the API server holds
  watch,                \* [Name -> Seq(object)]: events not yet delivered
  cache                 \* [Name -> object]: what Get and List return

apiVars == <<store, watch, cache>>

APIInit(absent) ==
  /\ store = [n \in Name |-> absent]
  /\ watch = [n \in Name |-> <<>>]
  /\ cache = [n \in Name |-> absent]

Versioned(n, obj) == [obj EXCEPT !.rv = store[n].rv + 1]

(* An accepted write of obj under the name n. *)
Write(n, obj) ==
  /\ store' = [store EXCEPT ![n] = Versioned(n, obj)]
  /\ watch' = [watch EXCEPT ![n] = Append(@, Versioned(n, obj))]
  /\ UNCHANGED cache

(* The server accepts an Update of the copy obj of n. *)
Accepts(n, obj) == store[n].exists /\ store[n].rv = obj.rv

(* Delete without preconditions: whatever version is there goes. *)
Remove(n) ==
  IF store[n].exists THEN Write(n, [store[n] EXCEPT !.exists = FALSE])
                     ELSE UNCHANGED apiVars

(* The next watch event of n reaches the cache. *)
Observe(n) ==
  /\ watch[n] # <<>>
  /\ cache' = [cache EXCEPT ![n] = Head(watch[n])]
  /\ watch' = [watch EXCEPT ![n] = Tail(@)]
  /\ UNCHANGED store

(* A restarted process lists everything before its workers start. *)
Relist ==
  /\ cache' = store
  /\ watch' = [n \in Name |-> <<>>]
  /\ UNCHANGED store
=============================================================================
