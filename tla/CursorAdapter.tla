--------------------------- MODULE CursorAdapter ----------------------------
(***************************************************************************)
(* The Cursor adapter (src/tools/cursor2api): admission of requests        *)
(* (server.mjs), the shared model-catalog queries, the generations in      *)
(* worker threads and the shutdown (runtime.mjs).                          *)
(*                                                                         *)
(* A request has a handler, which answers, and an operation, which may     *)
(* outlive the answer: an abort answers at once, the operation then winds  *)
(* down (leaves the catalog query, terminates its worker, removes its      *)
(* directory) and only then gives the request's slot back.  An action is   *)
(* the code between two awaits.                                            *)
(***************************************************************************)
EXTENDS Naturals, Sequences, FiniteSets

CONSTANTS
  Reqs,           \* requests, one slot each
  Accounts,       \* Cursor account keys
  MaxConcurrent,  \* active requests
  MaxCatalogs     \* cached catalogs (64 in the code)

CursorAssumption == {MaxConcurrent, MaxCatalogs} \subseteq Nat \ {0}

Items == 1 .. Cardinality(Reqs)

VARIABLES
  handler,   \* per request: "idle", "body", "waiting", "done"
  op,        \* per request: "none", "catalog", "mkdir", "worker", "terminate", "cleanup", "done"
  post,      \* the requests that generate (the others list models)
  account,   \* per request, its account
  active,    \* the server's set of active controllers
  aborted,   \* requests whose controller is aborted
  item,      \* the catalog queries made so far
  catalogs,  \* the cache: accounts with their items, oldest first
  stopping,  \* server.stop and runtime.stop were called
  awaited,   \* the workers runtime.stop waits for
  resolved   \* the promise of runtime.stop resolved

vars == <<handler, op, post, account, active, aborted, item, catalogs, stopping, awaited, resolved>>

NoItem == [query |-> "none", ok |-> FALSE, aborted |-> FALSE, expired |-> FALSE, waiters |-> {}]

Init ==
  /\ handler = [r \in Reqs |-> "idle"] /\ op = [r \in Reqs |-> "none"]
  /\ post = {} /\ account \in [Reqs -> Accounts]
  /\ active = {} /\ aborted = {}
  /\ item = [i \in Items |-> NoItem]
  /\ catalogs = <<>>
  /\ stopping = FALSE /\ awaited = {} /\ resolved = FALSE

----------------------------------------------------------------------------
(* The catalog cache.                                                      *)

Cached(a) == {catalogs[n].item : n \in {n \in 1 .. Len(catalogs) : catalogs[n].account = a}}

\* The cache without item i, if it still holds it.
Evicted(i) == SelectSeq(catalogs, LAMBDA c : c.item # i)

Pending(i) == item[i].query \in {"run", "terminate"}

\* An item that a request may join: its query runs, or it is not too old.
Usable(a) == {i \in Cached(a) : Pending(i) \/ ~item[i].expired}

NewItem == CHOOSE i \in Items : item[i] = NoItem /\ \A j \in 1 .. (i - 1) : item[j] # NoItem

\* Inserting into a full cache drops the oldest entry first; replacing an entry
\* keeps its place.
Inserted(a, i) ==
  LET room == IF Len(catalogs) >= MaxCatalogs THEN Tail(catalogs) ELSE catalogs
      places == {n \in 1 .. Len(room) : room[n].account = a}
  IN  IF places = {} THEN Append(room, [account |-> a, item |-> i])
      ELSE [n \in 1 .. Len(room) |-> IF n \in places THEN [account |-> a, item |-> i] ELSE room[n]]

\* CursorRuntime.catalog up to its await.
Join(r) ==
  /\ IF Usable(account[r]) # {}
       THEN \E i \in Usable(account[r]) :
              /\ item' = [item EXCEPT ![i].waiters = @ \union {r}]
              /\ UNCHANGED catalogs
       ELSE /\ item' = [item EXCEPT ![NewItem].query = "run", ![NewItem].waiters = {r}]
            /\ catalogs' = Inserted(account[r], NewItem)
  /\ op' = [op EXCEPT ![r] = "catalog"]

\* The query's worker answered, failed, exited, or noticed the abort.
QueryEnds(i) ==
  /\ item[i].query = "run"
  /\ \E ok \in BOOLEAN : /\ ok => ~item[i].aborted
                         /\ item' = [item EXCEPT ![i].query = "terminate", ![i].ok = ok]
  /\ UNCHANGED <<handler, op, post, account, active, aborted, catalogs, stopping, awaited, resolved>>

\* The worker is terminated and the promise settles; a failure leaves the cache.
Settle(i) ==
  /\ item[i].query = "terminate"
  /\ item' = [item EXCEPT ![i].query = "settled"]
  /\ catalogs' = IF item[i].ok THEN catalogs ELSE Evicted(i)
  /\ UNCHANGED <<handler, op, post, account, active, aborted, stopping, awaited, resolved>>

CatalogExpires(i) ==
  /\ item[i].query # "none" /\ ~item[i].expired
  /\ item' = [item EXCEPT ![i].expired = TRUE]
  /\ UNCHANGED <<handler, op, post, account, active, aborted, catalogs, stopping, awaited, resolved>>

----------------------------------------------------------------------------
(* Admission.                                                              *)

Refuse(r) ==
  /\ handler[r] = "idle"
  /\ stopping \/ Cardinality(active) >= MaxConcurrent
  /\ handler' = [handler EXCEPT ![r] = "done"]
  /\ UNCHANGED <<op, post, account, active, aborted, item, catalogs, stopping, awaited, resolved>>

ListModels(r) ==
  /\ handler[r] = "idle" /\ ~stopping /\ Cardinality(active) < MaxConcurrent
  /\ active' = active \union {r}
  /\ handler' = [handler EXCEPT ![r] = "waiting"]
  /\ Join(r)
  /\ UNCHANGED <<post, account, aborted, stopping, awaited, resolved>>

Chat(r) ==
  /\ handler[r] = "idle" /\ ~stopping /\ Cardinality(active) < MaxConcurrent
  /\ active' = active \union {r} /\ post' = post \union {r}
  /\ handler' = [handler EXCEPT ![r] = "body"]
  /\ UNCHANGED <<op, account, aborted, item, catalogs, stopping, awaited, resolved>>

\* The body could not be read, or the request was aborted while it was: there is
\* no operation, the slot is free at once.
BodyFails(r) ==
  /\ handler[r] = "body"
  /\ handler' = [handler EXCEPT ![r] = "done"] /\ active' = active \ {r}
  /\ UNCHANGED <<op, post, account, aborted, item, catalogs, stopping, awaited, resolved>>

\* The body is valid and nothing was aborted: the generation starts.
Generate(r) ==
  /\ handler[r] = "body" /\ r \notin aborted
  /\ handler' = [handler EXCEPT ![r] = "waiting"]
  /\ Join(r)
  /\ UNCHANGED <<post, account, active, aborted, stopping, awaited, resolved>>

\* Mutant of Abort: the slot is free before the operation has wound down.
AbortFreesSlot(r) ==
  /\ r \in active \ aborted
  /\ aborted' = aborted \union {r}
  /\ handler' = [handler EXCEPT ![r] = IF @ = "waiting" THEN "done" ELSE @]
  /\ active' = active \ {r}
  /\ UNCHANGED <<op, post, account, item, catalogs, stopping, awaited, resolved>>

\* Timeout or disconnect: the client is answered, the operation still winds down.
Abort(r) ==
  /\ r \in active \ aborted
  /\ aborted' = aborted \union {r}
  /\ handler' = [handler EXCEPT ![r] = IF @ = "waiting" THEN "done" ELSE @]
  /\ UNCHANGED <<op, post, account, active, item, catalogs, stopping, awaited, resolved>>

----------------------------------------------------------------------------
(* The operation.                                                          *)

ItemOf(r) == CHOOSE i \in Items : r \in item[i].waiters

\* The operation settles: its slot is free and a waiting handler answers.
Done(r) ==
  /\ op' = [op EXCEPT ![r] = "done"]
  /\ active' = active \ {r}
  /\ handler' = [handler EXCEPT ![r] = "done"]

\* Mutant of LeaveCatalog: whoever leaves aborts the shared query.
LeaveKillsQuery(r) ==
  /\ op[r] = "catalog" /\ r \in aborted
  /\ LET i == ItemOf(r)
     IN  /\ item' = [item EXCEPT ![i].waiters = @ \ {r}, ![i].aborted = @ \/ Pending(i)]
         /\ catalogs' = IF Pending(i) THEN Evicted(i) ELSE catalogs
  /\ Done(r)
  /\ UNCHANGED <<post, account, aborted, stopping, awaited, resolved>>

\* An aborted request stops waiting; the last one takes the query with it.
LeaveCatalog(r) ==
  /\ op[r] = "catalog" /\ r \in aborted
  /\ LET i == ItemOf(r)
         last == Pending(i) /\ item[i].waiters = {r}
     IN  /\ item' = [item EXCEPT ![i].waiters = @ \ {r}, ![i].aborted = @ \/ last]
         /\ catalogs' = IF last THEN Evicted(i) ELSE catalogs
  /\ Done(r)
  /\ UNCHANGED <<post, account, aborted, stopping, awaited, resolved>>

\* The catalog is there: a list of models is answered; a generation goes on if
\* the adapter does not stop and the catalog has the model.
CatalogArrives(r) ==
  /\ op[r] = "catalog" /\ item[ItemOf(r)].query = "settled"
  /\ item' = [item EXCEPT ![ItemOf(r)].waiters = @ \ {r}]
  /\ \/ Done(r)
     \/ /\ r \in post \ aborted /\ item[ItemOf(r)].ok /\ ~stopping
        /\ op' = [op EXCEPT ![r] = "mkdir"]
        /\ UNCHANGED <<active, handler>>
  /\ UNCHANGED <<post, account, aborted, catalogs, stopping, awaited, resolved>>

\* The directory exists; runWorker refuses when aborted or stopping.
StartWorker(r) ==
  /\ op[r] = "mkdir"
  /\ op' = [op EXCEPT ![r] = IF r \in aborted \/ stopping THEN "cleanup" ELSE "worker"]
  /\ UNCHANGED <<handler, post, account, active, aborted, item, catalogs, stopping, awaited, resolved>>

\* A result, an error, the worker's exit, or an abort.
WorkerEnds(r) ==
  /\ op[r] = "worker"
  /\ op' = [op EXCEPT ![r] = "terminate"]
  /\ UNCHANGED <<handler, post, account, active, aborted, item, catalogs, stopping, awaited, resolved>>

Terminated(r) ==
  /\ op[r] = "terminate"
  /\ op' = [op EXCEPT ![r] = "cleanup"]
  /\ UNCHANGED <<handler, post, account, active, aborted, item, catalogs, stopping, awaited, resolved>>

CleanedUp(r) ==
  /\ op[r] = "cleanup"
  /\ Done(r)
  /\ UNCHANGED <<post, account, aborted, item, catalogs, stopping, awaited, resolved>>

----------------------------------------------------------------------------
(* Shutdown.                                                               *)

OpWorkers == {r \in Reqs : op[r] \in {"worker", "terminate"}}
QueryWorkers == {i \in Items : Pending(i)}

\* server.stop aborts the active requests; runtime.stop aborts the cached
\* queries and terminates all workers.
Stop ==
  /\ ~stopping /\ stopping' = TRUE
  /\ aborted' = aborted \union active
  /\ handler' = [r \in Reqs |-> IF r \in active /\ handler[r] = "waiting" THEN "done" ELSE handler[r]]
  /\ item' = [i \in Items |-> IF \E n \in 1 .. Len(catalogs) : catalogs[n].item = i
                                THEN [item[i] EXCEPT !.aborted = TRUE] ELSE item[i]]
  /\ awaited' = {<<"op", r>> : r \in OpWorkers} \union {<<"query", i>> : i \in QueryWorkers}
  /\ UNCHANGED <<op, post, account, active, catalogs, resolved>>

\* The workers seen by stop are gone and the generations have settled.
StopResolves ==
  /\ stopping /\ ~resolved
  /\ \A r \in OpWorkers : <<"op", r>> \notin awaited
  /\ \A i \in QueryWorkers : <<"query", i>> \notin awaited
  /\ \A r \in post : op[r] \in {"none", "done"}
  /\ resolved' = TRUE
  /\ UNCHANGED <<handler, op, post, account, active, aborted, item, catalogs, stopping, awaited>>

Next ==
  \/ \E r \in Reqs : \/ Refuse(r) \/ ListModels(r) \/ Chat(r) \/ BodyFails(r) \/ Generate(r)
                     \/ Abort(r) \/ LeaveCatalog(r) \/ CatalogArrives(r) \/ StartWorker(r)
                     \/ WorkerEnds(r) \/ Terminated(r) \/ CleanedUp(r)
  \/ \E i \in Items : QueryEnds(i) \/ Settle(i) \/ CatalogExpires(i)
  \/ Stop \/ StopResolves

Spec == Init /\ [][Next]_vars

----------------------------------------------------------------------------
TypeOK ==
  /\ handler \in [Reqs -> {"idle", "body", "waiting", "done"}]
  /\ op \in [Reqs -> {"none", "catalog", "mkdir", "worker", "terminate", "cleanup", "done"}]
  /\ post \subseteq Reqs /\ active \subseteq Reqs /\ aborted \subseteq Reqs
  /\ Len(catalogs) <= MaxCatalogs
  /\ \A m, n \in 1 .. Len(catalogs) : catalogs[m].account = catalogs[n].account => m = n
  /\ stopping \in BOOLEAN /\ resolved \in BOOLEAN

\* At most MaxConcurrent operations are under way, those whose client has long
\* been answered included (server.mjs releases the slot when the operation settles).
WorkLimit == Cardinality({r \in Reqs : op[r] \notin {"none", "done"}}) <= MaxConcurrent

\* A request only loses its catalog query to an abort of its own, never because
\* another request sharing the query gave up.
CatalogIsolation ==
  \A i \in Items : \A r \in item[i].waiters : item[i].aborted => r \in aborted \/ stopping

\* A failed catalog is never served from the cache (失败不缓存).
FailureNotCached ==
  \A n \in 1 .. Len(catalogs) : item[catalogs[n].item].query = "settled" => item[catalogs[n].item].ok

\* One account has at most one catalog query running that was not given up; the
\* cache is large enough in this run not to drop running queries.
SingleFlight ==
  \A i, j \in Items :
    /\ Pending(i) /\ Pending(j) /\ ~item[i].aborted /\ ~item[j].aborted
    /\ \E r \in item[i].waiters, q \in item[j].waiters : account[r] = account[q]
    => i = j

\* When runtime.stop has resolved no worker runs, no request directory is left,
\* and none appears afterwards.
StopLeavesNothing ==
  resolved => OpWorkers = {} /\ QueryWorkers = {} /\ \A r \in Reqs : op[r] \notin {"mkdir", "cleanup"}

\* Every admitted request gives its slot back, also when Cursor never answers,
\* and a stop ends.
SlotsReturn == (\A r \in Reqs : r \in active ~> r \notin active) /\ (stopping ~> resolved)
=============================================================================
