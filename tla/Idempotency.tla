---------------------------- MODULE Idempotency ----------------------------
(***************************************************************************)
(* IdempotencyCoordinator.Execute (backend/internal/service/idempotency.go)*)
(* over the idempotency_records row of ONE (scope, key): concurrent        *)
(* requests that carry the same key claim the row, execute, and record the *)
(* outcome; a later request replays it, is refused, or takes the row over. *)
(*                                                                         *)
(* Every repository call is one atomic SQL statement and one action here;  *)
(* between two calls of a request anything may happen.  A request reads    *)
(* the clock once, before its first call, and compares that reading with   *)
(* what it finds later.                                                    *)
(***************************************************************************)
EXTENDS Naturals, FiniteSets, FiniteSetsExt

CONSTANTS
    Requests,     \* requests carrying the key
    Other,        \* those whose payload (hence fingerprint) is the other one
    Renewed,      \* those executed with ExecutionTimeout > 0 (lease renewed)
    Big,          \* those whose result exceeds MaxStoredResponseLen
    Ttl,          \* record lifetime, in ticks
    Lease,        \* cfg.ProcessingTimeout
    Backoff,      \* cfg.FailedRetryBackoff
    MaxClaim,     \* bound: ticks from reading the clock to claiming the row
    MaxExec,      \* bound: ticks a request without renewal takes
    MaxRenewed,   \* bound: ExecutionTimeout, in ticks
    MaxMisses,    \* bound: renewals that fail in a row
    MaxFaults,    \* bound: store errors, lost clients and crashes
    MaxTime       \* bound: the clock

SetsAssumption ==
    Other \subseteq Requests /\ Renewed \subseteq Requests /\ Big \subseteq Requests

(* How often renewProcessingLease extends the lease: a third of the lease  *)
(* or of the record's lifetime, at least one unit of time.                 *)
Interval == Max({1, Min({Lease \div 3, Ttl \div 3})})

(* Claiming is quicker than the lease (30 s), a request without renewal    *)
(* is quicker than the record's lifetime (24 h), and a renewal gets        *)
(* through before the lifetime is over.                                    *)
TimingAssumption ==
    /\ {Ttl, Lease, Backoff, MaxTime} \subseteq Nat \ {0}
    /\ {MaxClaim, MaxExec, MaxRenewed, MaxMisses, MaxFaults} \subseteq Nat
    /\ MaxClaim < Lease /\ MaxClaim < Ttl /\ MaxExec < Ttl
    /\ Renewed # {} => MaxClaim + (MaxMisses + 1) * Interval < Ttl

Fingerprint(r) == IF r \in Other THEN "other" ELSE "same"

NoRec == [id |-> 0, status |-> "none"]
NoBody == "none"
Null == 0                       \* locked_until IS NULL

VARIABLES
    clock,
    rec,       \* the row: id, fp, status, lock, exp, body
    lastId,    \* the table's id sequence
    pc,        \* where each request is in Execute
    start,     \* the request's `now`
    own,       \* record.ID: the row the request claimed
    seen,      \* the row as the request last read it (existing)
    reply,     \* what Execute returned
    gone,      \* requests whose client disconnected: their context is cancelled
    renewedAt, \* when the lease was last extended, and the misses since
    misses,
    effect,    \* history: requests whose execute() took effect
    claimedAt, \* history: when the request claimed the row
    lost,      \* history: requests whose recorded success was overwritten in its lifetime
    faults

vars == <<clock, rec, lastId, pc, start, own, seen, reply, gone, renewedAt,
          misses, effect, claimedAt, lost, faults>>

Claiming == {"create", "get", "reclaim", "reget", "retake"}
Running == {"exec", "ok", "failed"}
Replies == {"none", "done", "replay", "execErr", "mismatch", "inProgress",
            "backoff", "unavailable", "dead"}
Stopped == MaxMisses + 1        \* the renewal has ended
Statuses == {"processing", "succeeded", "failed_retryable"}

(* The row CreateProcessing inserts.                                       *)
NewRec(r) == [id |-> lastId + 1, fp |-> Fingerprint(r), status |-> "processing",
              lock |-> start[r] + Lease, exp |-> start[r] + Ttl, body |-> NoBody]

\* Mutant of Reclaimable: the status clause is missing.
Reclaimable_AnyStatus(id, from, now) ==
    rec.id = id /\ (rec.lock = Null \/ rec.lock <= now)

(* TryReclaim: the row with status from whose lock is absent or over.      *)
Reclaimable(id, from, now) ==
    /\ rec.id = id
    /\ rec.status = from
    /\ rec.lock = Null \/ rec.lock <= now

Init ==
    /\ clock = 1 /\ rec = NoRec /\ lastId = 0
    /\ pc = [r \in Requests |-> "idle"]
    /\ start = [r \in Requests |-> 0]
    /\ own = [r \in Requests |-> 0]
    /\ seen = [r \in Requests |-> NoRec]
    /\ reply = [r \in Requests |-> [kind |-> "none", body |-> NoBody]]
    /\ gone = {}
    /\ renewedAt = [r \in Requests |-> 0]
    /\ misses = [r \in Requests |-> 0]
    /\ effect = {}
    /\ claimedAt = [r \in Requests |-> 0]
    /\ lost = {}
    /\ faults = 0

(* Execute returns.                                                        *)
Return(r, kind, body) ==
    /\ pc' = [pc EXCEPT ![r] = "end"]
    /\ reply' = [reply EXCEPT ![r] = [kind |-> kind, body |-> body]]

(* The request owns row id: it starts the renewal, if any, and executes.   *)
Claim(r, id) ==
    /\ own' = [own EXCEPT ![r] = id]
    /\ pc' = [pc EXCEPT ![r] = "exec"]
    /\ claimedAt' = [claimedAt EXCEPT ![r] = clock]
    /\ renewedAt' = [renewedAt EXCEPT ![r] = clock]
    /\ UNCHANGED <<reply, misses>>

-----------------------------------------------------------------------------
(* Up to the first repository call.                                        *)
Begin(r) ==
    /\ pc[r] = "idle"
    /\ start' = [start EXCEPT ![r] = clock]
    /\ pc' = [pc EXCEPT ![r] = "create"]
    /\ UNCHANGED <<clock, rec, lastId, own, seen, reply, gone, renewedAt, misses,
                   effect, claimedAt, lost, faults>>

(* INSERT ... ON CONFLICT DO NOTHING.                                      *)
CreateProcessing(r) ==
    /\ pc[r] = "create" /\ r \notin gone
    /\ IF rec = NoRec
       THEN rec' = NewRec(r) /\ lastId' = lastId + 1 /\ Claim(r, lastId + 1)
       ELSE /\ pc' = [pc EXCEPT ![r] = "get"]
            /\ UNCHANGED <<rec, lastId, own, claimedAt, renewedAt, misses, reply>>
    /\ UNCHANGED <<clock, start, seen, gone, effect, lost, faults>>

(* The switch on the status of the row just read: replay it, refuse, or go *)
(* on to take over a failed attempt.                                       *)
Decide(r, row) ==
    CASE row.status = "succeeded" ->
           (* a result longer than MaxStoredResponseLen was cut and does not parse *)
           IF row.body \in Big THEN Return(r, "unavailable", NoBody)
                               ELSE Return(r, "replay", row.body)
      [] row.status = "processing" -> Return(r, "inProgress", NoBody)
      [] row.status = "failed_retryable" ->
           IF row.lock > start[r] THEN Return(r, "backoff", NoBody)
           ELSE pc' = [pc EXCEPT ![r] = "retake"] /\ UNCHANGED reply

\* Mutant of GetExisting: fingerprints are not compared.
GetExisting_NoFingerprint(r) ==
    /\ pc[r] = "get" /\ r \notin gone
    /\ seen' = [seen EXCEPT ![r] = rec]
    /\ IF rec = NoRec THEN Return(r, "unavailable", NoBody)
       ELSE IF rec.exp <= start[r]
            THEN pc' = [pc EXCEPT ![r] = "reclaim"] /\ UNCHANGED reply
       ELSE Decide(r, rec)
    /\ UNCHANGED <<clock, rec, lastId, start, own, gone, renewedAt, misses,
                   effect, claimedAt, lost, faults>>

(* GetByScopeAndKeyHash after the insert found a row: gone meanwhile, of   *)
(* another request, past its lifetime, or one to decide on.                *)
GetExisting(r) ==
    /\ pc[r] = "get" /\ r \notin gone
    /\ seen' = [seen EXCEPT ![r] = rec]
    /\ IF rec = NoRec THEN Return(r, "unavailable", NoBody)
       ELSE IF rec.fp # Fingerprint(r) THEN Return(r, "mismatch", NoBody)
       ELSE IF rec.exp <= start[r]
            THEN pc' = [pc EXCEPT ![r] = "reclaim"] /\ UNCHANGED reply
       ELSE Decide(r, rec)
    /\ UNCHANGED <<clock, rec, lastId, start, own, gone, renewedAt, misses,
                   effect, claimedAt, lost, faults>>

(* What TryReclaim writes; the old response body stays in the row.         *)
Retaken(r) == [rec EXCEPT !.status = "processing", !.lock = start[r] + Lease,
                          !.exp = start[r] + Ttl]

(* The request whose unexpired success the row holds, if any.              *)
Overwritten ==
    IF rec.status = "succeeded" /\ rec.exp > clock THEN {rec.body} ELSE {}

(* TryReclaim of a row past its lifetime, from whatever status was read.   *)
ReclaimExpired(r) ==
    /\ pc[r] = "reclaim" /\ r \notin gone
    /\ IF Reclaimable(seen[r].id, seen[r].status, start[r])
       THEN rec' = Retaken(r) /\ Claim(r, rec.id) /\ lost' = lost \cup Overwritten
       ELSE /\ pc' = [pc EXCEPT ![r] = "reget"]
            /\ UNCHANGED <<rec, own, claimedAt, lost, renewedAt, misses, reply>>
    /\ UNCHANGED <<clock, lastId, start, seen, gone, effect, faults>>

(* The row was not to be had: read it again and decide on what it is now.  *)
GetLatest(r) ==
    /\ pc[r] = "reget" /\ r \notin gone
    /\ seen' = [seen EXCEPT ![r] = rec]
    /\ IF rec = NoRec THEN Return(r, "unavailable", NoBody)
       ELSE IF rec.fp # Fingerprint(r) THEN Return(r, "mismatch", NoBody)
       ELSE Decide(r, rec)
    /\ UNCHANGED <<clock, rec, lastId, start, own, gone, renewedAt, misses,
                   effect, claimedAt, lost, faults>>

(* TryReclaim of a failed attempt whose backoff is over.                   *)
ReclaimFailed(r) ==
    /\ pc[r] = "retake" /\ r \notin gone
    /\ IF Reclaimable(seen[r].id, "failed_retryable", start[r])
       THEN rec' = Retaken(r) /\ Claim(r, rec.id)
       ELSE /\ Return(r, "inProgress", NoBody)
            /\ UNCHANGED <<rec, own, claimedAt, renewedAt, misses>>
    /\ UNCHANGED <<clock, lastId, start, seen, gone, effect, lost, faults>>

\* Mutant of Renew: the lock is extended, the lifetime is not.
Renew_LockOnly(r) ==
    /\ pc[r] = "exec" /\ r \in Renewed
    /\ clock >= renewedAt[r] + Interval
    /\ renewedAt' = [renewedAt EXCEPT ![r] = clock]
    /\ rec.id = own[r] /\ rec.status = "processing" /\ rec.fp = Fingerprint(r)
    /\ rec' = [rec EXCEPT !.lock = clock + Lease]
    /\ UNCHANGED <<clock, lastId, pc, start, own, seen, reply, gone, effect,
                   claimedAt, lost, faults, misses>>

(* The ticker of renewProcessingLease: ExtendProcessingLock writes to the  *)
(* row while it is processing and of the same fingerprint; a renewal that  *)
(* finds no such row is the last.                                          *)
Renew(r) ==
    /\ pc[r] = "exec" /\ r \in Renewed
    /\ misses[r] # Stopped
    /\ clock >= renewedAt[r] + Interval
    /\ renewedAt' = [renewedAt EXCEPT ![r] = clock]
    /\ \/ LET ok == /\ rec.id = own[r]
                     /\ rec.status = "processing" /\ rec.fp = Fingerprint(r)
          IN /\ rec' = IF ok THEN [rec EXCEPT !.lock = clock + Lease, !.exp = clock + Ttl]
                       ELSE rec
             /\ misses' = [misses EXCEPT ![r] = IF ok THEN 0 ELSE Stopped]
       \/ /\ misses[r] < MaxMisses        \* the call failed or timed out
          /\ misses' = [misses EXCEPT ![r] = @ + 1]
          /\ UNCHANGED rec
    /\ UNCHANGED <<clock, lastId, pc, start, own, seen, reply, gone, effect,
                   claimedAt, lost, faults>>

(* execute(ctx) returns: it took effect, or it failed without effect.      *)
Executed(r) ==
    /\ pc[r] = "exec"
    /\ \/ pc' = [pc EXCEPT ![r] = "ok"] /\ effect' = effect \cup {r}
       \/ pc' = [pc EXCEPT ![r] = "failed"] /\ UNCHANGED effect
    /\ UNCHANGED <<clock, rec, lastId, start, own, seen, reply, gone, renewedAt,
                   misses, claimedAt, lost, faults>>

(* The lifetime the outcome is stored with: counted from now when the      *)
(* lease was renewed, from the start of the request otherwise.             *)
OutcomeExpiry(r) == IF r \in Renewed THEN clock + Ttl ELSE start[r] + Ttl

Succeeded(r) ==
    [rec EXCEPT !.status = "succeeded", !.body = r, !.lock = Null,
                !.exp = OutcomeExpiry(r)]

FailedRetryable(r) ==
    [rec EXCEPT !.status = "failed_retryable", !.lock = clock + Backoff,
                !.exp = OutcomeExpiry(r)]

(* UPDATE ... WHERE id: whatever the row's status, nothing if it is gone.  *)
MarkSucceeded(r) ==
    /\ pc[r] = "ok" /\ r \notin gone
    /\ rec' = IF rec.id = own[r] THEN Succeeded(r) ELSE rec
    /\ Return(r, "done", r)
    /\ UNCHANGED <<clock, lastId, start, own, seen, gone, renewedAt, misses,
                   effect, claimedAt, lost, faults>>

MarkFailedRetryable(r) ==
    /\ pc[r] = "failed" /\ r \notin gone
    /\ rec' = IF rec.id = own[r] THEN FailedRetryable(r) ELSE rec
    /\ Return(r, "execErr", NoBody)
    /\ UNCHANGED <<clock, lastId, start, own, seen, gone, renewedAt, misses,
                   effect, claimedAt, lost, faults>>

-----------------------------------------------------------------------------
(* What the call a request is about to make would write to the row.        *)
Writes(r) ==
    CASE pc[r] = "create" /\ rec = NoRec -> NewRec(r)
      [] pc[r] = "reclaim" /\ Reclaimable(seen[r].id, seen[r].status, start[r]) -> Retaken(r)
      [] pc[r] = "retake" /\ Reclaimable(seen[r].id, "failed_retryable", start[r]) -> Retaken(r)
      [] pc[r] = "ok" /\ rec.id = own[r] -> Succeeded(r)
      [] pc[r] = "failed" /\ rec.id = own[r] -> FailedRetryable(r)
      [] OTHER -> rec

(* A repository call fails: the store is unavailable, or the request's     *)
(* context is cancelled.  The statement may have reached the row all the   *)
(* same.  A failure is returned as STORE_UNAVAILABLE, except that of       *)
(* MarkFailedRetryable, which returns the execution's own error.           *)
StoreError(r) ==
    /\ pc[r] \in Claiming \cup {"ok", "failed"}
    /\ IF r \in gone THEN UNCHANGED faults
                     ELSE faults < MaxFaults /\ faults' = faults + 1
    /\ Return(r, IF pc[r] = "failed" THEN "execErr" ELSE "unavailable", NoBody)
    /\ rec' \in {rec, Writes(r)}
    /\ lastId' = Max({lastId, rec'.id})
    /\ lost' = IF rec' = rec THEN lost ELSE lost \cup Overwritten
    /\ UNCHANGED <<clock, start, own, seen, gone, renewedAt, misses, effect, claimedAt>>

(* The client disconnects: its context is cancelled, unless the request    *)
(* runs with ExecutionTimeout, which detaches it (context.WithoutCancel).  *)
Disconnect(r) ==
    /\ pc[r] \in Claiming \cup Running
    /\ r \notin gone \cup Renewed
    /\ faults < MaxFaults /\ faults' = faults + 1
    /\ gone' = gone \cup {r}
    /\ UNCHANGED <<clock, rec, lastId, pc, start, own, seen, reply, renewedAt,
                   misses, effect, claimedAt, lost>>

(* The process dies with the request.                                      *)
Crash(r) ==
    /\ pc[r] \in Claiming \cup Running
    /\ faults < MaxFaults /\ faults' = faults + 1
    /\ Return(r, "dead", NoBody)
    /\ UNCHANGED <<clock, rec, lastId, start, own, seen, gone, renewedAt, misses,
                   effect, claimedAt, lost>>

(* IdempotencyCleanupService.cleanupOnce.                                  *)
DeleteExpired ==
    /\ rec # NoRec /\ rec.exp <= clock
    /\ rec' = NoRec
    /\ UNCHANGED <<clock, lastId, pc, start, own, seen, reply, gone, renewedAt,
                   misses, effect, claimedAt, lost, faults>>

(* Time passes, as far as the bounds on the requests under way allow: the  *)
(* result of a renewed request is stored within 5 s, less than a tick.     *)
MayTick(r) ==
    /\ pc[r] \in Claiming => clock < start[r] + MaxClaim
    /\ pc[r] \in Running /\ r \notin Renewed => clock < start[r] + MaxExec
    /\ pc[r] = "exec" /\ r \in Renewed =>
          /\ clock < start[r] + MaxRenewed
          /\ misses[r] = Stopped \/ clock < renewedAt[r] + Interval
    /\ pc[r] \in {"ok", "failed"} => r \notin Renewed

Tick ==
    /\ clock < MaxTime
    /\ \A r \in Requests : MayTick(r)
    /\ clock' = clock + 1
    /\ UNCHANGED <<rec, lastId, pc, start, own, seen, reply, gone, renewedAt,
                   misses, effect, claimedAt, lost, faults>>

Step(r) ==
    \/ CreateProcessing(r) \/ GetExisting(r) \/ ReclaimExpired(r) \/ GetLatest(r)
    \/ ReclaimFailed(r) \/ Executed(r) \/ MarkSucceeded(r) \/ MarkFailedRetryable(r)

Fault(r) == StoreError(r) \/ Disconnect(r) \/ Crash(r)

Next ==
    \/ \E r \in Requests : Begin(r) \/ Step(r) \/ Renew(r) \/ Fault(r)
    \/ DeleteExpired
    \/ Tick

Spec == Init /\ [][Next]_vars

-----------------------------------------------------------------------------
Rows == [id : Nat \ {0}, fp : {"same", "other"}, status : Statuses,
         lock : Nat, exp : Nat, body : Requests \cup {NoBody}]

(* The row and the requests have the shape the code gives them.            *)
TypeOK ==
    /\ clock \in 1..MaxTime /\ lastId \in Nat
    /\ rec = NoRec \/ rec \in Rows
    /\ pc \in [Requests -> {"idle", "end"} \cup Claiming \cup Running]
    /\ start \in [Requests -> 0..MaxTime] /\ own \in [Requests -> 0..lastId]
    /\ seen \in [Requests -> Rows \cup {NoRec}]
    /\ reply \in [Requests -> [kind : Replies, body : Requests \cup {NoBody}]]
    /\ gone \subseteq Requests /\ effect \subseteq Requests
    /\ misses \in [Requests -> 0..Stopped]

(* Two requests with one key never execute at the same time: a claim is    *)
(* taken over only once the request that holds it has ended or its record  *)
(* has outlived the lifetime its renewals keep extending (Execute,         *)
(* renewProcessingLease).                                                  *)
NoOverlap ==
    \A r, s \in Requests : pc[r] \in Running /\ pc[s] \in Running => r = s

(* Two executions with one key that both took effect are a record lifetime *)
(* apart: the later one claimed the row after the earlier one's TTL.       *)
Apart(r, s) == claimedAt[s] >= start[r] + Ttl \/ claimedAt[r] >= start[s] + Ttl

(* Whatever is lost on the way (a client, a store call, the process), the  *)
(* side effect happens once per record lifetime, unless the success of one *)
(* execution was overwritten before its lifetime ended (SuccessKept says   *)
(* by whom).                                                               *)
OnceUnlessOverwritten ==
    \A r, s \in effect : r = s \/ Apart(r, s) \/ r \in lost \/ s \in lost

(* A replayed response is the result of an execution that took effect, for *)
(* a request with the same fingerprint: neither the body an earlier        *)
(* lifetime left in a reclaimed row nor that of another payload.           *)
ReplayIsResult ==
    \A r \in Requests : reply[r].kind = "replay" =>
        /\ reply[r].body \in effect
        /\ Fingerprint(reply[r].body) = Fingerprint(r)

(* One result per record lifetime, whatever is lost on the way, unless a   *)
(* recorded success was overwritten; and replays of nothing else: neither  *)
(* of an earlier lifetime nor of another payload (decodeStoredResponse,    *)
(* TryReclaim).                                                            *)
OneResult == OnceUnlessOverwritten /\ ReplayIsResult

(* The request read a success past its lifetime and is about to take it    *)
(* over.                                                                   *)
TakesOverSuccess(r) == seen[r].status = "succeeded"

(* Once a success is recorded nothing touches it before its lifetime ends: *)
(* no reclaim that read an older status, and no late mark of an attempt    *)
(* that lost the row, although the marks write to the row unconditionally. *)
(* The exception: TryReclaim does not look at expires_at, so a request     *)
(* that read an expired success takes over the one recorded since.         *)
KeepsSuccess ==
    rec.status = "succeeded" /\ rec.exp > clock =>
        \/ rec' = rec
        \/ \E r \in Requests :
             pc[r] = "reclaim" /\ pc'[r] # "reclaim" /\ TakesOverSuccess(r)

(* A recorded success is kept until its lifetime ends by every step of     *)
(* Execute, its renewals and the clean-up, but for that late takeover.     *)
SuccessKept == [][KeepsSuccess]_vars
=============================================================================
