---------------------------- MODULE MCIdempotency ----------------------------
(***************************************************************************)
(* Idempotency keys for TLC: the coordinator on the server (Idempotency) and *)
(* the dialog that keeps a key for every withdrawal of unknown outcome, with *)
(* the ledger it registers withdrawals in (AffiliateWithdraw).  They share   *)
(* no variable; one runs at a time, and part says which, with which          *)
(* parameters: "losses" and "replay" have those of the configuration.        *)
(***************************************************************************)
EXTENDS Idempotency, TLC

CONSTANTS a, b, c,     \* interchangeable requests
          d,           \* a request with another payload
          u, v, None   \* users

VARIABLES part,
          quota, ledger, memory, session, made, sent, wire, inst, open, form, loads, op, waits,
          acked, released, deducted

\* Executions that outlive their lease and their record, which are renewed, with results
\* too long to be stored.
Renewal == INSTANCE Idempotency WITH
    Renewed <- {a, b, c}, Big <- {a, b, c}, Ttl <- 4, Lease <- 3, MaxExec <- 2, MaxRenewed <- 5,
    MaxMisses <- 1, MaxFaults <- 1, MaxTime <- 8

\* One mounting of the dialog that submits again and again, and two that share the keys.
Retries == INSTANCE AffiliateWithdraw WITH
    Users <- {u}, Amounts <- {1}, Quota <- 2, MaxKeys <- 3, MaxSends <- 3, MaxInsts <- 1, Storage <- TRUE
Mountings == INSTANCE AffiliateWithdraw WITH
    Users <- {u, v}, Amounts <- {1}, Quota <- 2, MaxKeys <- 2, MaxSends <- 1, MaxInsts <- 2, Storage <- TRUE
\* The dialog while the coordinator runs.
Closed == INSTANCE AffiliateWithdraw WITH
    Users <- {u}, Amounts <- {1}, Quota <- 0, MaxKeys <- 1, MaxSends <- 1, MaxInsts <- 1, Storage <- TRUE

ASSUME /\ SetsAssumption /\ TimingAssumption /\ Renewal!SetsAssumption /\ Renewal!TimingAssumption
       /\ Retries!WithdrawAssumption /\ Mountings!WithdrawAssumption

withdrawal == <<quota, ledger, memory, session, made, sent, wire, inst, open, form, loads, op, waits,
                acked, released, deducted>>
mcVars == <<part, vars, withdrawal>>

MCInit ==
    /\ Init
    /\ \/ part \in {"losses", "replay", "renewal"} /\ Closed!Init
       \/ part = "retries" /\ Retries!Init
       \/ part = "mountings" /\ Mountings!Init

\* Only two of the interchangeable requests come; d comes with them or does not.
Two == Cardinality({x \in {a, b, c} : pc'[x] # "idle"}) <= 2
Absent == pc'[d] = "idle"

\* Clients, store calls and processes are lost; replays, also to another payload.
MCNext ==
    \/ part = "losses" /\ Next /\ Absent /\ UNCHANGED <<part, withdrawal>>
    \/ part = "replay" /\ Next /\ Two /\ faults' <= 1 /\ UNCHANGED <<part, withdrawal>>
    \/ part = "renewal" /\ Renewal!Next /\ Two /\ Absent /\ UNCHANGED <<part, withdrawal>>
    \/ part = "retries" /\ Retries!Next /\ UNCHANGED <<part, vars>>
    \/ part = "mountings" /\ Mountings!Next /\ UNCHANGED <<part, vars>>

MCSpec == MCInit /\ [][MCNext]_mcVars

Symmetry == Permutations({a, b, c})

-----------------------------------------------------------------------------
(* Properties: NoOverlap, OneResult and SuccessKept of Idempotency, and that *)
(* of the dialog.  The renewed requests keep OneResult with the lifetime of  *)
(* the configuration, which is shorter than theirs.                          *)

\* Of the deductions for one user and amount at most one is unknown to the administrator:
\* however often a registration of unknown outcome is submitted again, nothing is deducted
\* twice, and a key given up as refused is never registered later
\* (affiliateWithdrawOperation.ts, WithdrawQuota).  While the outcome is unknown the dialog
\* shows the user and the amount a retry will send, and the quota it checks the amount
\* against is that user's (overviewSeq).
WithdrawnOnce ==
    /\ part = "retries" =>
         Retries!TypeOK /\ Retries!OneUnknown /\ Retries!RefusedStaysOut /\ Retries!FormShowsOperation
    /\ part = "mountings" =>
         Mountings!TypeOK /\ Mountings!FormShowsOperation /\ Mountings!QuotaIsSelected
=============================================================================
