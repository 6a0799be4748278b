--------------------------- MODULE AccountsTable ---------------------------
(***************************************************************************)
(* The account list of the administration pages (AccountsView.vue, with      *)
(* useTableLoader.ts): loads that abort each other, filters with a debounce, *)
(* the conditional auto-refresh, billing reconciliation, the edit dialog and *)
(* the statistics of today.                                                  *)
(*                                                                         *)
(* The filter stands for everything a list request is made with (filters,    *)
(* sorting, visible columns); the list fits on one page.                     *)
(***************************************************************************)
EXTENDS Integers, FiniteSets

CONSTANTS Accounts,
          AutoRefresh,      \* autoRefreshEnabled, a setting of the page
          MaxVersion,       \* bound: changes of one account
          MaxLoads,         \* bound: loads started
          MaxEdits,         \* bound: edit dialogs opened
          MaxBillings,      \* bound: billing refreshes
          MaxFails          \* bound: requests that fail

TableAssumption ==
    /\ IsFiniteSet(Accounts) /\ AutoRefresh \in BOOLEAN
    /\ {MaxVersion, MaxLoads, MaxEdits, MaxBillings, MaxFails} \subseteq Nat

Filters == {"all", "active"}
Rows == [id: Accounts, v: 0..MaxVersion, active: BOOLEAN]
NoTag == [f |-> "none", list |-> {}]
NoAsk == [st |-> "idle", f |-> "none", list |-> {}, tag |-> NoTag]
NoEdit == [st |-> "closed", id |-> {}, acc |-> {}, full |-> FALSE, saved |-> {}]

VARIABLES srv,            \* the server's accounts
          filter,         \* params, sortState and the visible columns
          rows, rowsOf,   \* accounts and, a history, the filter they were read with
          timer,          \* baseDebouncedReload is scheduled
          loads, loading, \* requests of baseLoad that have not been aborted
          loadErr,        \* the last load failed
          auto, etag,     \* refreshAccountsIncrementally and autoRefreshETag
          billing,        \* refreshUpstreamBillingRates
          pendingStats,   \* pendingTodayStatsRefresh
          stats,          \* todayStats: the rows shown, those asked for, and whether a request is open
          edit,           \* the edit dialog: edAcc, and whether it is a full account
          nloads, nedits, nbillings, fails

table == <<rows, rowsOf>>
counts == <<nedits, nbillings>>
vars == <<srv, filter, table, timer, loads, loading, loadErr, auto, etag, billing, pendingStats, stats, edit,
          nloads, counts, fails>>

TypeOK ==
    /\ \A a \in Accounts : srv[a] \in [v: 0..MaxVersion, active: BOOLEAN]
    /\ filter \in Filters /\ rowsOf \in Filters \cup {"none"} /\ rows \subseteq Rows
    /\ {timer, loading, loadErr, pendingStats} \subseteq BOOLEAN
    /\ loading <=> loads # {}
    /\ auto.st \in {"idle", "sent", "same", "read"} /\ billing.st \in {"idle", "sent", "read"}
    /\ edit.st \in {"closed", "asking", "read", "open", "saving"} /\ edit.acc \subseteq Rows
    /\ \A r \in loads : r.st \in {"sent", "read"} /\ r.list \subseteq Rows

RowOf(a) == [id |-> a, v |-> srv[a].v, active |-> srv[a].active]
Matches(r, f) == f = "all" \/ r.active
ListOf(f) == {r \in {RowOf(a) : a \in Accounts} : Matches(r, f)}
Ids(rs) == {r.id : r \in rs}
ModalOpen == edit.st \in {"open", "saving"}

Init ==
    /\ srv = [a \in Accounts |-> [v |-> 0, active |-> TRUE]]
    /\ filter = "all" /\ rows = {} /\ rowsOf = "none"
    /\ timer = FALSE /\ loading = TRUE /\ loadErr = FALSE
    /\ loads = {[n |-> 0, f |-> "all", then |-> TRUE, st |-> "sent", list |-> {}]}
    /\ auto = NoAsk /\ etag = NoTag /\ billing = NoAsk
    /\ pendingStats = FALSE /\ stats = [shown |-> {}, asked |-> {}, open |-> FALSE]
    /\ edit = NoEdit
    /\ nloads = 1 /\ nedits = 0 /\ nbillings = 0 /\ fails = 0

-----------------------------------------------------------------------------
(* The server                                                                *)

Change(a) ==
    /\ srv[a].v < MaxVersion
    /\ \E b \in BOOLEAN : srv' = [srv EXCEPT ![a] = [v |-> srv[a].v + 1, active |-> b]]
    /\ UNCHANGED <<filter, table, timer, loads, loading, loadErr, auto, etag, billing, pendingStats, stats,
                   edit, nloads, counts, fails>>

-----------------------------------------------------------------------------
(* refreshTodayStatsBatch: an answer to any but the last request is ignored   *)

AskStats(rs) ==
    stats' = IF rs = {} THEN [shown |-> {}, asked |-> {}, open |-> FALSE]
             ELSE [stats EXCEPT !.asked = Ids(rs), !.open = TRUE]
StatsArrive ==
    /\ stats.open /\ stats' = [shown |-> stats.asked, asked |-> {}, open |-> FALSE]
    /\ UNCHANGED <<srv, filter, table, timer, loads, loading, loadErr, auto, etag, billing, pendingStats, edit,
                   nloads, counts, fails>>

-----------------------------------------------------------------------------
(* Loads                                                                     *)

Request(n, f, then) == [n |-> n, f |-> f, then |-> then, st |-> "sent", list |-> {}]

\* Mutant of Start: the request before is not aborted.
StartKeeping(f, then) ==
    /\ loads' = loads \cup {Request(nloads, f, then)} /\ loading' = TRUE
    /\ IF \E r \in loads : r.then THEN AskStats(rows) ELSE UNCHANGED stats
\* baseLoad: the request before it is aborted; a load() so ended goes on to the statistics.
Start(f, then) ==
    /\ loads' = {Request(nloads, f, then)} /\ loading' = TRUE
    /\ IF \E r \in loads : r.then THEN AskStats(rows) ELSE UNCHANGED stats
Count == nloads < MaxLoads /\ nloads' = nloads + 1

\* load and reload: on mount, by hand, and after every operation that changes accounts.
Load(f, then) ==
    /\ Count /\ Start(f, then) /\ etag' = NoTag /\ pendingStats' = FALSE /\ filter' = f
    /\ UNCHANGED <<srv, table, timer, loadErr, auto, edit, counts, fails>>
Refresh ==
    /\ ~ModalOpen /\ Load(filter, TRUE) /\ UNCHANGED billing
\* handleSort and toggleColumn load at once.
ChangeSort(f) ==
    /\ ~ModalOpen /\ f # filter /\ Load(f, TRUE) /\ UNCHANGED billing

\* debouncedReload, when a filter changes.
ChangeFilter(f) ==
    /\ ~ModalOpen /\ f # filter /\ IF timer THEN UNCHANGED nloads ELSE Count
    /\ filter' = f /\ timer' = TRUE /\ etag' = NoTag /\ pendingStats' = TRUE
    /\ UNCHANGED <<srv, table, loads, loading, loadErr, auto, billing, stats, edit, counts, fails>>
DebounceFires ==
    /\ timer /\ timer' = FALSE /\ Start(filter, FALSE)
    /\ UNCHANGED <<srv, filter, table, loadErr, auto, etag, billing, pendingStats, edit, nloads, counts, fails>>

ServeLoad(r) ==
    /\ r.st = "sent" /\ loads' = (loads \ {r}) \cup {[r EXCEPT !.st = "read", !.list = ListOf(r.f)]}
    /\ UNCHANGED <<srv, filter, table, timer, loading, loadErr, auto, etag, billing, pendingStats, stats, edit,
                   nloads, counts, fails>>
\* The end of load() and the watcher of loading ask for the statistics of the rows shown then.
Finished(r, then, rs) ==
    /\ loads' = loads \ {r} /\ loading' = (loads \ {r} # {}) /\ pendingStats' = (pendingStats /\ loading')
    /\ IF then \/ (pendingStats /\ ~loading') THEN AskStats(rs) ELSE UNCHANGED stats
LoadArrives(r) ==
    /\ r.st = "read" /\ rows' = r.list /\ rowsOf' = r.f /\ loadErr' = FALSE /\ Finished(r, r.then, r.list)
    /\ UNCHANGED <<srv, filter, timer, auto, etag, billing, edit, nloads, counts, fails>>
LoadFails(r) ==
    /\ fails < MaxFails /\ fails' = fails + 1 /\ loadErr' = TRUE /\ Finished(r, FALSE, rows)
    /\ UNCHANGED <<srv, filter, table, timer, auto, etag, billing, edit, nloads, counts>>

-----------------------------------------------------------------------------
(* refreshAccountsIncrementally                                              *)

Tag(f, list) == [f |-> f, list |-> list]
AutoTick ==
    /\ AutoRefresh /\ ~loading /\ auto.st = "idle" /\ ~ModalOpen
    /\ auto' = [st |-> "sent", f |-> filter, list |-> {}, tag |-> etag]
    /\ UNCHANGED <<srv, filter, table, timer, loads, loading, loadErr, etag, billing, pendingStats, stats, edit,
                   nloads, counts, fails>>
ServeAuto ==
    /\ auto.st = "sent"
    /\ auto' = [auto EXCEPT !.st = IF auto.tag = Tag(auto.f, ListOf(auto.f)) THEN "same" ELSE "read",
                            !.list = ListOf(auto.f)]
    /\ UNCHANGED <<srv, filter, table, timer, loads, loading, loadErr, etag, billing, pendingStats, stats, edit,
                   nloads, counts, fails>>
\* syncAccountRefs: the dialog's account is replaced by its changed row.
SyncRefs(changed) ==
    edit' = IF ModalOpen /\ Ids(edit.acc) \subseteq Ids(changed)
            THEN [edit EXCEPT !.acc = {r \in changed : r.id \in edit.id}, !.full = FALSE]
            ELSE edit
AutoSame ==
    /\ auto.st = "same" /\ etag' = Tag(auto.f, auto.list) /\ auto' = NoAsk /\ AskStats(rows)
    /\ UNCHANGED <<srv, filter, table, timer, loads, loading, loadErr, billing, pendingStats, edit, nloads,
                   counts, fails>>
AutoArrives ==
    /\ auto.st = "read" /\ etag' = Tag(auto.f, auto.list) /\ auto' = NoAsk
    /\ rows' = auto.list /\ rowsOf' = auto.f
    /\ SyncRefs({r \in auto.list \ rows : r.id \in Ids(rows)}) /\ AskStats(auto.list)
    /\ UNCHANGED <<srv, filter, timer, loads, loading, loadErr, billing, pendingStats, nloads, counts, fails>>
\* Mutant of AutoFails: the flag of the running refresh stays set.
AutoFailsHeld ==
    /\ auto.st # "idle" /\ fails < MaxFails /\ fails' = fails + 1 /\ auto' = [auto EXCEPT !.st = "held"]
    /\ UNCHANGED <<srv, filter, table, timer, loads, loading, loadErr, etag, billing, pendingStats, stats, edit,
                   nloads, counts>>
AutoFails ==
    /\ auto.st # "idle" /\ fails < MaxFails /\ fails' = fails + 1 /\ auto' = NoAsk
    /\ UNCHANGED <<srv, filter, table, timer, loads, loading, loadErr, etag, billing, pendingStats, stats, edit,
                   nloads, counts>>

-----------------------------------------------------------------------------
(* refreshUpstreamBillingRates                                               *)

BillingTick ==
    /\ nbillings < MaxBillings /\ nbillings' = nbillings + 1
    /\ billing.st = "idle" /\ ~loading /\ rows # {} /\ ~ModalOpen
    /\ billing' = [NoAsk EXCEPT !.st = "sent", !.f = filter]
    /\ UNCHANGED <<srv, filter, table, timer, loads, loading, loadErr, auto, etag, pendingStats, stats, edit,
                   nloads, nedits, fails>>
ServeBilling ==
    /\ billing.st = "sent" /\ billing' = [billing EXCEPT !.st = "read", !.list = ListOf(billing.f)]
    /\ UNCHANGED <<srv, filter, table, timer, loads, loading, loadErr, auto, etag, pendingStats, stats, edit,
                   nloads, counts, fails>>
\* Rates of the same rows are patched in; other rows need a load, without statistics.
BillingArrives ==
    /\ billing.st = "read" /\ billing' = NoAsk
    /\ \/ /\ ~loading /\ billing.f = filter /\ Ids(billing.list) # Ids(rows) /\ Load(filter, FALSE)
       \/ /\ ~loading /\ billing.f = filter /\ Ids(billing.list) = Ids(rows)
          /\ \E changed \in SUBSET rows : SyncRefs(changed)
          /\ UNCHANGED <<srv, filter, table, timer, loads, loading, loadErr, auto, etag, pendingStats, stats,
                         nloads, counts, fails>>
       \/ /\ loading \/ billing.f # filter
          /\ UNCHANGED <<srv, filter, table, timer, loads, loading, loadErr, auto, etag, pendingStats, stats,
                         edit, nloads, counts, fails>>

-----------------------------------------------------------------------------
(* handleEdit and the edit dialog                                            *)

rest == <<filter, timer, loads, loading, loadErr, auto, etag, billing, pendingStats, stats, nloads, nbillings, fails>>

HandleEdit(r) ==
    /\ nedits < MaxEdits /\ nedits' = nedits + 1 /\ edit.st = "closed" /\ r \in rows
    /\ edit' = [NoEdit EXCEPT !.st = "asking", !.id = {r.id}]
    /\ UNCHANGED <<srv, table, rest>>
ServeDetails ==
    /\ edit.st = "asking" /\ edit' = [edit EXCEPT !.st = "read", !.acc = {RowOf(a) : a \in edit.id}]
    /\ UNCHANGED <<srv, table, rest, nedits>>
OpenEdit ==
    /\ edit.st = "read" /\ edit' = [edit EXCEPT !.st = "open", !.full = TRUE]
    /\ UNCHANGED <<srv, table, rest, nedits>>
CloseEdit ==
    /\ edit.st = "open" /\ edit' = NoEdit
    /\ UNCHANGED <<srv, table, rest, nedits>>
SaveEdit ==
    /\ edit.st = "open"
    /\ \E a \in edit.id, b \in BOOLEAN :
        /\ srv[a].v < MaxVersion /\ srv' = [srv EXCEPT ![a] = [v |-> srv[a].v + 1, active |-> b]]
        /\ edit' = [edit EXCEPT !.st = "saving", !.saved = {[id |-> a, v |-> srv[a].v + 1, active |-> b]}]
    /\ UNCHANGED <<table, rest, nedits>>
\* patchAccountInList: a row that no longer matches the filter leaves the list.
Saved ==
    /\ edit.st = "saving" /\ edit' = NoEdit
    /\ rows' = {r \in rows : r.id \notin edit.id}
                 \cup {r \in edit.saved : r.id \in Ids(rows) /\ Matches(r, filter)}
    /\ UNCHANGED <<srv, rowsOf, rest, nedits>>

-----------------------------------------------------------------------------
Next ==
    \/ \E a \in Accounts : Change(a)
    \/ StatsArrive \/ Refresh \/ DebounceFires
    \/ \E f \in Filters : ChangeFilter(f) \/ ChangeSort(f)
    \/ \E r \in loads : ServeLoad(r) \/ LoadArrives(r) \/ LoadFails(r)
    \/ AutoTick \/ ServeAuto \/ AutoSame \/ AutoArrives \/ AutoFails
    \/ BillingTick \/ ServeBilling \/ BillingArrives
    \/ (\E r \in rows : HandleEdit(r)) \/ ServeDetails \/ OpenEdit \/ CloseEdit \/ SaveEdit \/ Saved

Spec == Init /\ [][Next]_vars

-----------------------------------------------------------------------------
(* Properties                                                                *)

Settled == ~loading /\ ~timer /\ auto.st = "idle" /\ billing.st = "idle"

\* Once everything has been answered the rows are those of the present filter, unless the last
\* load failed: loads abort each other (useTableLoader.ts, load).
ShownMatchesFilter == Settled /\ ~loadErr /\ rowsOf # "none" => rowsOf = filter

\* With auto-refresh on, what others change shows up (refreshAccountsIncrementally).
ChangesShowUp == <>[](rows = ListOf(filter))

=============================================================================
