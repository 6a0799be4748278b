--------------------------- MODULE TeleAgentLogin ---------------------------
(***************************************************************************)
(* Signing in to TeleAgent through the adapter (src/tools/teleagent2api,   *)
(* login.mjs) and the account store the result goes to (accounts.mjs).     *)
(*                                                                         *)
(* A login session is a browser context an owner steers remotely; the      *)
(* token of a finished sign-in is verified and saved, and the account gets *)
(* a local API key.  An action is the code between two awaits.  A context  *)
(* is closed in the step that asks for it.  Opening a page takes less than *)
(* a session's ten minutes (launch and navigation time out after about 30  *)
(* seconds each), so only an opened session can be found expired.          *)
(***************************************************************************)
EXTENDS Naturals, Sequences, FiniteSets, FiniteSetsExt

CONSTANTS
  Logins,       \* login sessions, one slot each
  Owners,       \* sub2api users
  Uids,         \* TeleAgent accounts
  MaxSessions,  \* sessions kept at a time (4 in the code)
  Faults,       \* failing writes of account files
  Crashes       \* process deaths

None == "none"

LoginAssumption ==
  {MaxSessions, Faults, Crashes} \subseteq Nat /\ None \notin Owners \union Uids \union Logins

Ids == Owners \X Uids   \* an account belongs to an owner
NoId == <<None, None>>
ApiKeys == 1 .. Cardinality(Logins)

VARIABLES
  login,     \* the sessions
  queue,     \* saves waiting in the store's queue
  accounts,  \* the store's account map: the key of each account, 0 for none
  keys,      \* the store's key map: the account of each key
  file,      \* the account files
  given,     \* per account, the keys its owner was told
  budget

vars == <<login, queue, accounts, keys, file, given, budget>>

NoLogin == [phase |-> "idle", owner |-> None, listed |-> FALSE, known |-> FALSE, context |-> FALSE,
            status |-> "pending", failed |-> FALSE, expired |-> FALSE,
            completing |-> "no", uid |-> None, key |-> 0]

Init ==
  /\ login = [l \in Logins |-> NoLogin]
  /\ queue = <<>>
  /\ accounts = [i \in Ids |-> 0] /\ file = accounts
  /\ keys = [k \in ApiKeys |-> NoId]
  /\ given = [i \in Ids |-> {}]
  /\ budget = [faults |-> Faults, crashes |-> Crashes]

Id(l) == <<login[l].owner, login[l].uid>>

Listed == {l \in Logins : login[l].listed}

\* remove: the session leaves the map, then its context is closed.
Removed(lg, ls) ==
  [l \in Logins |-> IF l \in ls THEN [lg[l] EXCEPT !.listed = FALSE, !.context = FALSE] ELSE lg[l]]

----------------------------------------------------------------------------
(* start.                                                                  *)

Expired == {l \in Listed : login[l].expired}

Pending(o) == {l \in Listed \ Expired : login[l].owner = o /\ login[l].status = "pending"}

\* The owner's session that a page reload lost: its page exists, nothing failed.
Resumable(o) == {l \in Pending(o) : login[l].phase \in {"navigate", "open"} /\ ~login[l].failed}

MayOpen(o) == Pending(o) = {} /\ Cardinality(Listed \ Expired) < MaxSessions

\* A request to start: expired sessions go, then the owner's session is resumed,
\* refused or opened.
StartNew(l, o) ==
  /\ login[l].phase = "idle" /\ MayOpen(o)
  /\ login' = [Removed(login, Expired) EXCEPT
                 ![l] = [NoLogin EXCEPT !.phase = "launch", !.owner = o, !.listed = TRUE]]
  /\ UNCHANGED <<queue, accounts, keys, file, given, budget>>

StartResumes(o) ==
  /\ \E l \in Resumable(o) : login' = [Removed(login, Expired) EXCEPT ![l].known = TRUE]
  /\ UNCHANGED <<queue, accounts, keys, file, given, budget>>

StartRefused(o) ==
  /\ Resumable(o) = {} /\ ~MayOpen(o) /\ Expired # {}
  /\ login' = Removed(login, Expired)
  /\ UNCHANGED <<queue, accounts, keys, file, given, budget>>

\* The browser is up: the session gets its context ...
NewContext(l) ==
  /\ login[l].phase = "launch"
  /\ login' = [login EXCEPT ![l].phase = "page", ![l].context = TRUE]
  /\ UNCHANGED <<queue, accounts, keys, file, given, budget>>

\* ... its page ...
NewPage(l) ==
  /\ login[l].phase = "page" /\ login[l].context
  /\ login' = [login EXCEPT ![l].phase = "navigate"]
  /\ UNCHANGED <<queue, accounts, keys, file, given, budget>>

\* ... the login form, and from then on a timer; the owner learns the id.
Opened(l) ==
  /\ login[l].phase = "navigate" /\ login[l].context
  /\ login' = [login EXCEPT ![l].phase = "open", ![l].known = TRUE]
  /\ UNCHANGED <<queue, accounts, keys, file, given, budget>>

\* Mutant of OpenFails: the session stays in the map.
OpenFailsKept(l) ==
  /\ login[l].phase \in {"launch", "page", "navigate"}
  /\ login' = [login EXCEPT ![l].phase = "gone"]
  /\ UNCHANGED <<queue, accounts, keys, file, given, budget>>

\* A step fails, also because a cancel or a completed sign-in closed the context.
OpenFails(l) ==
  /\ login[l].phase \in {"launch", "page", "navigate"}
  /\ login' = [Removed(login, {l}) EXCEPT ![l].phase = "gone"]
  /\ UNCHANGED <<queue, accounts, keys, file, given, budget>>

----------------------------------------------------------------------------
(* The sign-in and what follows it.                                        *)

\* Mutant of Callback: each callback completes the sign-in, also after the first.
CallbackEach(l, u) ==
  /\ login[l].phase \in {"navigate", "open"} /\ login[l].known /\ login[l].context
  /\ login[l].status = "pending"
  /\ login' = [login EXCEPT ![l].completing = "verify", ![l].uid = u]
  /\ UNCHANGED <<queue, accounts, keys, file, given, budget>>

\* The context requests the official callback with a token; the first one counts.
Callback(l, u) ==
  /\ login[l].phase \in {"navigate", "open"} /\ login[l].known /\ login[l].context
  /\ login[l].completing = "no" /\ login[l].status = "pending"
  /\ login' = [login EXCEPT ![l].completing = "verify", ![l].uid = u]
  /\ UNCHANGED <<queue, accounts, keys, file, given, budget>>

\* verifyToken answered; a session that is gone by now is not completed.
Verified(l) ==
  /\ login[l].completing = "verify"
  /\ IF l \in Listed \ Expired
       THEN /\ queue' = Append(queue, l)
            /\ login' = [login EXCEPT ![l].completing = "save"]
       ELSE /\ login' = [login EXCEPT ![l].completing = "done"]
            /\ UNCHANGED queue
  /\ UNCHANGED <<accounts, keys, file, given, budget>>

VerifyFails(l) ==
  /\ login[l].completing = "verify"
  /\ login' = [login EXCEPT ![l].completing = "done", ![l].failed = TRUE]
  /\ UNCHANGED <<queue, accounts, keys, file, given, budget>>

UsedKeys == {accounts[i] : i \in Ids} \union {file[i] : i \in Ids} \union {k \in ApiKeys : keys[k] # NoId}

\* A known account keeps its key; a new one gets a random key.
KeyFor(i) == IF accounts[i] # 0 THEN accounts[i] ELSE Min(ApiKeys \ UsedKeys)

\* AccountStore.save: the file first, then the maps; the session completes and
\* its context closes.
Save ==
  /\ queue # <<>>
  /\ LET l == Head(queue)
         k == KeyFor(Id(l))
     IN  /\ file' = [file EXCEPT ![Id(l)] = k]
         /\ accounts' = [accounts EXCEPT ![Id(l)] = k]
         /\ keys' = [keys EXCEPT ![k] = Id(l)]
         /\ login' = [login EXCEPT ![l].completing = "done", ![l].status = "completed",
                                   ![l].key = k, ![l].context = FALSE]
  /\ queue' = Tail(queue)
  /\ UNCHANGED <<given, budget>>

\* The write throws, before the file was replaced or after it.
SaveFails ==
  /\ queue # <<>> /\ budget.faults > 0
  /\ LET l == Head(queue)
     IN  /\ \/ file' = file
            \/ file' = [file EXCEPT ![Id(l)] = KeyFor(Id(l))]
         /\ login' = [login EXCEPT ![l].completing = "done", ![l].failed = TRUE]
  /\ queue' = Tail(queue)
  /\ budget' = [budget EXCEPT !.faults = @ - 1]
  /\ UNCHANGED <<accounts, keys, given>>

\* The owner polls a completed session and is told the key.
Poll(l) ==
  /\ l \in Listed \ Expired /\ login[l].known
  /\ ~login[l].failed /\ login[l].status = "completed"
  /\ given' = [given EXCEPT ![Id(l)] = @ \union {login[l].key}]
  /\ UNCHANGED <<login, queue, accounts, keys, file, budget>>

----------------------------------------------------------------------------
(* The end of a session.                                                   *)

Cancel(l) ==
  /\ l \in Listed /\ login[l].known
  /\ login' = Removed(login, {l})
  /\ UNCHANGED <<queue, accounts, keys, file, given, budget>>

Expire(l) ==
  /\ l \in Listed /\ login[l].phase = "open" /\ ~login[l].expired
  /\ login' = [login EXCEPT ![l].expired = TRUE]
  /\ UNCHANGED <<queue, accounts, keys, file, given, budget>>

\* The session's timer, or a get that finds it expired.
Timer(l) ==
  /\ l \in Expired
  /\ login' = Removed(login, {l})
  /\ UNCHANGED <<queue, accounts, keys, file, given, budget>>

\* The process dies, or is stopped, and starts again: the store loads its files.
Restart ==
  /\ budget.crashes > 0
  /\ budget' = [budget EXCEPT !.crashes = @ - 1]
  /\ login' = [l \in Logins |-> IF login[l].phase = "idle" THEN login[l] ELSE [NoLogin EXCEPT !.phase = "gone"]]
  /\ queue' = <<>>
  /\ accounts' = file
  /\ keys' = [k \in ApiKeys |-> IF \E i \in Ids : file[i] = k THEN CHOOSE i \in Ids : file[i] = k ELSE NoId]
  /\ UNCHANGED <<file, given>>

Next ==
  \/ \E o \in Owners : StartResumes(o) \/ StartRefused(o)
  \/ \E l \in Logins :
       \/ \E o \in Owners : StartNew(l, o)
       \/ NewContext(l) \/ NewPage(l) \/ Opened(l) \/ OpenFails(l)
       \/ \E u \in Uids : Callback(l, u)
       \/ Verified(l) \/ VerifyFails(l) \/ Poll(l) \/ Cancel(l) \/ Expire(l) \/ Timer(l)
  \/ Save \/ SaveFails \/ Restart

Spec == Init /\ [][Next]_vars

----------------------------------------------------------------------------
TypeOK ==
  /\ \A l \in Logins :
       /\ login[l].phase \in {"idle", "launch", "page", "navigate", "open", "gone"}
       /\ login[l].owner \in Owners \union {None} /\ login[l].uid \in Uids \union {None}
       /\ login[l].completing \in {"no", "verify", "save", "done"}
       /\ login[l].key \in {0} \union ApiKeys
  /\ \A i \in 1 .. Len(queue) : queue[i] \in Logins /\ login[queue[i]].completing = "save"
  /\ accounts \in [Ids -> {0} \union ApiKeys] /\ file \in [Ids -> {0} \union ApiKeys]
  /\ keys \in [ApiKeys -> Ids \union {NoId}]

\* A key an owner was told keeps opening that owner's account, through later
\* sign-ins, failed saves and restarts (README: 重新授权保留已存在的本地账号 Key).
GivenKeyWorks == \A i \in Ids : \A k \in given[i] : keys[k] = i /\ accounts[i] = k

\* Every open browser context belongs to a listed session: no interleaving of
\* opening, resuming, cancelling and expiring leaves one behind.
NoOrphanContext == \A l \in Logins : login[l].context => login[l].listed

\* Every session gives its slot back, whether it fails to open, completes, is
\* cancelled or is forgotten by its owner.
SlotsReturn == \A l \in Logins : login[l].listed ~> ~login[l].listed
=============================================================================
