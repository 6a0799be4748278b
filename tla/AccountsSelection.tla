------------------------- MODULE AccountsSelection -------------------------
(***************************************************************************)
(* The selection of the account list (AccountsView.vue, useTableSelection.ts *)
(* and accountSelection.ts): rows picked by hand, all results of a filter,   *)
(* fetched page after page, and the bulk operations that act on a selection  *)
(* and put back what failed.                                                 *)
(*                                                                         *)
(* Each account belongs to one of the filters; a page of the server holds    *)
(* one account, so that fetching all results takes a request for each.       *)
(***************************************************************************)
EXTENDS Integers, FiniteSets, Sequences, SequencesExt

CONSTANTS Accounts, Filters,
          Class,          \* the filter an account is listed under
          MaxChanges,     \* bound: changes of the filter
          MaxSelects,     \* bound: requests for all results
          MaxBulks,       \* bound: bulk operations
          Initially,      \* the accounts that exist at first
          MaxDeletes, MaxCreates   \* bounds: accounts deleted and created elsewhere

SelectionAssumption ==
    /\ IsFiniteSet(Accounts) /\ Class \in [Accounts -> Filters] /\ Initially \subseteq Accounts
    /\ {MaxChanges, MaxSelects, MaxBulks, MaxDeletes, MaxCreates} \subseteq Nat

VARIABLES exists,       \* the server's accounts, oldest first
          filter,
          selected,     \* selectedSet
          snapshot,     \* selectedAllResultIDs; {} for null
          version,      \* selectionRequestVersion
          all,          \* handleSelectAllResults under way, or waiting for a page
          selecting,    \* selectingAllResults
          bulk,         \* the bulk operation under way
          chosen,       \* history: the filter each account was last selected under
          changes, selects, bulks, deletes, creates

vars == <<exists, filter, selected, snapshot, version, all, selecting, bulk, chosen, changes, selects, bulks, deletes,
          creates>>
nums == <<changes, selects, bulks, deletes, creates>>

NoAll == [st |-> "idle", version |-> 0, f |-> "none", page |-> 0, total |-> 0, ids |-> {}]
NoBulk == [st |-> "idle", kind |-> "none", ids |-> {}, failed |-> {}]
Listed(f) == SelectSeq(exists, LAMBDA a : Class[a] = f)
ListedSet(f) == {a \in ToSet(exists) : Class[a] = f}

TypeOK ==
    /\ ToSet(exists) \subseteq Accounts /\ filter \in Filters
    /\ selected \subseteq Accounts /\ snapshot \subseteq Accounts
    /\ \A r \in all : r.version <= version /\ r.ids \subseteq Accounts
    /\ Cardinality({r \in all : r.version = version}) <= 1
    /\ selecting <=> \E r \in all : r.version = version
    /\ bulk.st \in {"idle", "sent", "done"} /\ bulk.failed \subseteq bulk.ids

Init ==
    /\ \E f \in Filters : filter = f
    /\ exists = SetToSeq(Initially) /\ selected = {} /\ snapshot = {} /\ version = 0
    /\ all = {} /\ selecting = FALSE /\ bulk = NoBulk
    /\ chosen = [a \in Accounts |-> filter]
    /\ changes = 0 /\ selects = 0 /\ bulks = 0 /\ deletes = 0 /\ creates = 0

\* Selecting the accounts in S under the filter f.
Choose(S, f) == chosen' = [a \in Accounts |-> IF a \in S THEN f ELSE chosen[a]]

-----------------------------------------------------------------------------
(* The user                                                                  *)

\* toggle, on a row of the page.
Toggle(a) ==
    /\ a \in ListedSet(filter)
    /\ IF a \in selected THEN selected' = selected \ {a} /\ UNCHANGED chosen
       ELSE selected' = selected \cup {a} /\ Choose({a}, filter)
    /\ UNCHANGED <<exists, filter, snapshot, version, all, selecting, bulk, nums>>
SelectPage ==
    /\ selected' = selected \cup ListedSet(filter) /\ Choose(ListedSet(filter), filter)
    /\ UNCHANGED <<exists, filter, snapshot, version, all, selecting, bulk, nums>>

\* clearSelection: a request for all results that is under way will be ignored.
Clear ==
    /\ version' = version + 1 /\ selecting' = FALSE /\ snapshot' = {} /\ selected' = {}
ClearSelection ==
    /\ changes < MaxChanges /\ changes' = changes + 1 /\ Clear
    /\ UNCHANGED <<exists, filter, all, bulk, chosen, selects, bulks, deletes, creates>>
\* debouncedReload
ChangeFilter(f) ==
    /\ f # filter /\ changes < MaxChanges /\ changes' = changes + 1 /\ filter' = f /\ Clear
    /\ UNCHANGED <<exists, all, bulk, chosen, selects, bulks, deletes, creates>>

-----------------------------------------------------------------------------
(* handleSelectAllResults and fetchAllAccountIds                             *)

SelectAll ==
    /\ ~selecting /\ ListedSet(filter) # {} /\ selects < MaxSelects /\ selects' = selects + 1
    /\ version' = version + 1 /\ selecting' = TRUE
    /\ all' = all \cup {[NoAll EXCEPT !.st = "paging", !.version = version + 1, !.f = filter]}
    /\ UNCHANGED <<exists, filter, selected, snapshot, bulk, chosen, changes, bulks, deletes, creates>>

\* A page of one account: the first also tells how many there are.
FetchPage(r) ==
    /\ r.page = 0 \/ r.page < r.total
    /\ all' = (all \ {r}) \cup {[r EXCEPT !.page = r.page + 1,
                                   !.total = IF r.page = 0 THEN Len(Listed(r.f)) ELSE r.total,
                                   !.ids = IF r.page < Len(Listed(r.f)) THEN r.ids \cup {Listed(r.f)[r.page + 1]}
                                           ELSE r.ids]}
    /\ UNCHANGED <<exists, filter, selected, snapshot, version, selecting, bulk, chosen, nums>>
Fetched(r) == r.page > 0 /\ r.page >= r.total

\* Mutant of AllArrive: the count is not compared.
AllArriveIncomplete(r) ==
    /\ Fetched(r) /\ all' = all \ {r}
    /\ IF r.version = version
       THEN selected' = r.ids /\ snapshot' = r.ids /\ Choose(r.ids, r.f)
       ELSE UNCHANGED <<selected, snapshot, chosen>>
    /\ selecting' = (selecting /\ r.version # version)
    /\ UNCHANGED <<exists, filter, version, bulk, nums>>
AllArrive(r) ==
    /\ Fetched(r) /\ all' = all \ {r}
    /\ IF Cardinality(r.ids) = r.total /\ r.version = version
       THEN selected' = r.ids /\ snapshot' = r.ids /\ Choose(r.ids, r.f)
       ELSE UNCHANGED <<selected, snapshot, chosen>>
    /\ selecting' = (selecting /\ r.version # version)
    /\ UNCHANGED <<exists, filter, version, bulk, nums>>

-----------------------------------------------------------------------------
(* Bulk operations: deletion, update (token refresh, schedulable), status reset *)

Bulk(kind) ==
    /\ bulk.st = "idle" /\ selected # {} /\ bulks < MaxBulks /\ bulks' = bulks + 1
    /\ bulk' = [NoBulk EXCEPT !.st = "sent", !.kind = kind, !.ids = selected]
    /\ UNCHANGED <<exists, filter, selected, snapshot, version, all, selecting, chosen, changes, selects, deletes, creates>>
ServeBulk ==
    /\ bulk.st = "sent"
    /\ \E failed \in SUBSET bulk.ids :
        /\ bulk.ids \ ToSet(exists) \subseteq failed
        /\ bulk' = [bulk EXCEPT !.st = "done", !.failed = failed]
        /\ exists' = IF bulk.kind = "delete" THEN SelectSeq(exists, LAMBDA a : a \notin bulk.ids \ failed) ELSE exists
    /\ UNCHANGED <<filter, selected, snapshot, version, all, selecting, chosen, nums>>
\* setSelectedIds with what failed, or clearSelection; resetting the status leaves the selection.
BulkArrives ==
    /\ bulk.st = "done" /\ bulk' = NoBulk
    /\ IF bulk.failed = {} THEN Clear
       ELSE /\ selected' = IF bulk.kind = "reset" THEN selected ELSE bulk.failed
            /\ UNCHANGED <<snapshot, version, selecting>>
    /\ UNCHANGED <<exists, filter, all, chosen, nums>>
\* The outcome of a request that failed is unknown; the selection stays.
BulkFails ==
    /\ bulk.st # "idle" /\ bulk' = NoBulk
    /\ UNCHANGED <<exists, filter, selected, snapshot, version, all, selecting, chosen, nums>>

\* Another administrator.
DeleteElsewhere(a) ==
    /\ a \in ToSet(exists) /\ deletes < MaxDeletes /\ deletes' = deletes + 1
    /\ exists' = SelectSeq(exists, LAMBDA b : b # a)
    /\ UNCHANGED <<filter, selected, snapshot, version, all, selecting, bulk, chosen, changes, selects, bulks, creates>>
CreateElsewhere(a) ==
    /\ a \notin ToSet(exists) \cup Initially /\ creates < MaxCreates /\ creates' = creates + 1
    /\ exists' = Append(exists, a)
    /\ UNCHANGED <<filter, selected, snapshot, version, all, selecting, bulk, chosen, changes, selects, bulks, deletes>>

-----------------------------------------------------------------------------
Next ==
    \/ \E a \in Accounts : Toggle(a) \/ DeleteElsewhere(a) \/ CreateElsewhere(a)
    \/ SelectPage \/ ClearSelection \/ SelectAll
    \/ \E f \in Filters : ChangeFilter(f)
    \/ \E r \in all : FetchPage(r) \/ AllArrive(r)
    \/ \E k \in {"delete", "update", "reset"} : Bulk(k)
    \/ ServeBulk \/ BulkArrives \/ BulkFails

Spec == Init /\ [][Next]_vars

-----------------------------------------------------------------------------
(* Properties; NoneMissed is about a step.                                    *)

\* What is selected was selected under the present filter (debouncedReload, handleSelectAllResults):
\* answers that belong to another filter are ignored.
SelectedHere == \A a \in selected : chosen[a] = filter

\* When all results are selected, every account under the filter that was there before is
\* (fetchAllAccountIds): deletions between two pages shift the next page, and the count shows it.
NoneMissed ==
    \A r \in all : r \notin all' /\ snapshot' = r.ids /\ snapshot' # snapshot
        => ListedSet(r.f) \cap Initially \subseteq snapshot'

=============================================================================
