-------------------------- MODULE TeleAgentServer ---------------------------
(***************************************************************************)
(* Admission of chat requests by the TeleAgent adapter                     *)
(* (src/tools/teleagent2api, server.mjs): a global limit and a limit per   *)
(* account, counted in two variables, checked before the body is read and  *)
(* again after it.                                                         *)
(***************************************************************************)
EXTENDS Naturals, FiniteSets

CONSTANTS
  Reqs,           \* requests, one slot each
  Accounts,       \* account keys
  MaxConcurrent,  \* requests forwarded at a time
  PerAccount      \* of one account (2 in the code)

ServerAssumption == {MaxConcurrent, PerAccount} \subseteq Nat

VARIABLES
  req,       \* per request: "idle", "body", "forward", "stream", "done"
  account,   \* per request, the account of its key
  active, activeAccounts,  \* the server's counters
  aborted,   \* requests whose controller is aborted
  stopping

vars == <<req, account, active, activeAccounts, aborted, stopping>>

Init ==
  /\ req = [r \in Reqs |-> "idle"] /\ account \in [Reqs -> Accounts]
  /\ active = 0 /\ activeAccounts = [a \in Accounts |-> 0]
  /\ aborted = {} /\ stopping = FALSE

Busy(r) == active >= MaxConcurrent \/ activeAccounts[account[r]] >= PerAccount

\* The first check; a closing server accepts no new connection.
Arrive(r) ==
  /\ req[r] = "idle" /\ ~stopping
  /\ req' = [req EXCEPT ![r] = IF Busy(r) THEN "done" ELSE "body"]
  /\ UNCHANGED <<account, active, activeAccounts, aborted, stopping>>

\* The body is invalid, incomplete or too large.
BodyRefused(r) ==
  /\ req[r] = "body"
  /\ req' = [req EXCEPT ![r] = "done"]
  /\ UNCHANGED <<account, active, activeAccounts, aborted, stopping>>

\* The body is read: the limits are checked again and the slot is taken.
Admit(r) ==
  /\ req[r] = "body"
  /\ IF Busy(r)
       THEN /\ req' = [req EXCEPT ![r] = "done"]
            /\ UNCHANGED <<active, activeAccounts>>
       ELSE /\ req' = [req EXCEPT ![r] = "forward"]
            /\ active' = active + 1
            /\ activeAccounts' = [activeAccounts EXCEPT ![account[r]] = @ + 1]
  /\ UNCHANGED <<account, aborted, stopping>>

\* The upstream answered; its body is piped to the client.
Answered(r) ==
  /\ req[r] = "forward" /\ r \notin aborted
  /\ req' = [req EXCEPT ![r] = "stream"]
  /\ UNCHANGED <<account, active, activeAccounts, aborted, stopping>>

\* The upstream failed, the pipeline ended or broke, or the abort was noticed:
\* the finally block gives the slot back.
Ends(r) ==
  /\ req[r] \in {"forward", "stream"}
  /\ req' = [req EXCEPT ![r] = "done"]
  /\ active' = active - 1
  /\ activeAccounts' = [activeAccounts EXCEPT ![account[r]] = @ - 1]
  /\ UNCHANGED <<account, aborted, stopping>>

\* The request's timer, or its client going away.
Abort(r) ==
  /\ req[r] \in {"forward", "stream"} /\ r \notin aborted
  /\ aborted' = aborted \union {r}
  /\ UNCHANGED <<req, account, active, activeAccounts, stopping>>

\* stop aborts every forwarded request; one whose body is still read is served.
Stop ==
  /\ ~stopping /\ stopping' = TRUE
  /\ aborted' = aborted \union {r \in Reqs : req[r] \in {"forward", "stream"}}
  /\ UNCHANGED <<req, account, active, activeAccounts>>

Next ==
  \/ \E r \in Reqs : \/ Arrive(r) \/ BodyRefused(r) \/ Admit(r) \/ Answered(r) \/ Ends(r) \/ Abort(r)
  \/ Stop

----------------------------------------------------------------------------
Running(a) == {r \in Reqs : req[r] \in {"forward", "stream"} /\ account[r] = a}

\* However the bodies of concurrent requests arrive, and however requests end,
\* neither limit is exceeded and both counters are exact (读取请求体期间可能有其他请求占用名额).
LimitsHold ==
  /\ active <= MaxConcurrent
  /\ active = Cardinality({r \in Reqs : req[r] \in {"forward", "stream"}})
  /\ \A a \in Accounts : activeAccounts[a] = Cardinality(Running(a)) /\ activeAccounts[a] <= PerAccount

=============================================================================
