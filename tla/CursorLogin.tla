---------------------------- MODULE CursorLogin -----------------------------
(***************************************************************************)
(* Administrator sign-in of the Cursor adapter (src/tools/cursor2api,      *)
(* login.mjs).  The SDK runs one browser authorization at a time and mints *)
(* an account key; the session keeps the key until its time to live is     *)
(* over, and the administration page polls for it.                         *)
(***************************************************************************)
EXTENDS Naturals, FiniteSets

CONSTANTS
  Logins,       \* login sessions, one slot each
  MaxSessions,  \* sessions kept (50 in the code)
  MaxPolls      \* polls of one session the model counts

None == "none"

CursorLoginAssumption ==
  None \notin Logins /\ {MaxSessions, MaxPolls} \subseteq Nat \ {0}

VARIABLES
  login,   \* the sessions
  active,  \* the session whose task runs
  told     \* per session, how often its key was returned

vars == <<login, active, told>>

NoLogin == [status |-> "none", listed |-> FALSE, aborted |-> FALSE, expired |-> FALSE]

Init ==
  /\ login = [l \in Logins |-> NoLogin]
  /\ active = None
  /\ told = [l \in Logins |-> 0]

Listed == {l \in Logins : login[l].listed}
Expired == {l \in Listed : login[l].expired}

\* One login at a time; expired sessions make room.
Start(l) ==
  /\ login[l].status = "none" /\ active = None
  /\ Cardinality(Listed \ Expired) < MaxSessions
  /\ login' = [m \in Logins |->
        IF m = l THEN [NoLogin EXCEPT !.status = "pending", !.listed = TRUE]
        ELSE IF m \in Expired THEN [login[m] EXCEPT !.listed = FALSE] ELSE login[m]]
  /\ active' = l
  /\ UNCHANGED told

\* The SDK's promise settles: a key, or a failure; an aborted task that still
\* succeeds changes no status.
TaskEnds(l) ==
  /\ active = l
  /\ \E status \in IF login[l].aborted THEN {"pending", "expired"} ELSE {"completed", "failed"} :
       login' = [login EXCEPT ![l].status = status]
  /\ active' = None
  /\ UNCHANGED told

\* The login's twenty minutes are over.
Timeout(l) ==
  /\ active = l /\ ~login[l].aborted
  /\ login' = [login EXCEPT ![l].aborted = TRUE]
  /\ UNCHANGED <<active, told>>

\* The session's thirty minutes are over.
Expire(l) ==
  /\ l \in Listed \ Expired
  /\ login[l].aborted \/ active # l
  /\ login' = [login EXCEPT ![l].expired = TRUE]
  /\ UNCHANGED <<active, told>>

\* A get that finds the session expired aborts and forgets it.
Forgotten(l) == [login EXCEPT ![l].aborted = TRUE, ![l].listed = FALSE]

PollExpired(l) ==
  /\ l \in Expired
  /\ login' = Forgotten(l)
  /\ UNCHANGED <<active, told>>

\* A poll of a completed session returns the key.
Poll(l) ==
  /\ l \in Listed \ Expired /\ login[l].status = "completed" /\ told[l] < MaxPolls
  /\ told' = [told EXCEPT ![l] = @ + 1]
  /\ UNCHANGED <<login, active>>

Cancel(l) ==
  /\ l \in Listed \ Expired
  /\ login' = Forgotten(l)
  /\ UNCHANGED <<active, told>>

Next == \E l \in Logins : \/ Start(l) \/ TaskEnds(l) \/ Timeout(l) \/ Expire(l)
                          \/ PollExpired(l) \/ Poll(l) \/ Cancel(l)

Spec == Init /\ [][Next]_vars

----------------------------------------------------------------------------
\* A session holds a key only if its task succeeded, and the key is returned
\* only from such a session; at most one task runs and it is a known one.
TypeOK ==
  /\ login \in [Logins -> [status : {"none", "pending", "completed", "failed", "expired"},
                           listed : BOOLEAN, aborted : BOOLEAN, expired : BOOLEAN]]
  /\ active \in Logins \union {None}
  /\ \A l \in Logins : told[l] > 0 => login[l].status = "completed"
  /\ Cardinality({l \in Listed : login[l].status = "pending" /\ ~login[l].aborted}) <= 1

\* The one login slot is given back: an administrator can always start again.
LoginReleased == \A l \in Logins : active = l ~> active = None

=============================================================================
