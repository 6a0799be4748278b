--------------------------- MODULE BatchImageQueue ---------------------------
(***************************************************************************)
(* The Redis work queue of the batch image subsystem and the worker loop    *)
(* that drains it (repository/batch_image_queue.go and                      *)
(* service/batch_image_worker.go).                                          *)
(*                                                                         *)
(* Redis runs every Lua script and every MULTI pipeline atomically, so one  *)
(* Redis call is one step; a worker's RunOnce is a sequence of such calls   *)
(* and any number of workers, in any number of processes, interleave        *)
(* between them.  Time is abstracted: a delay, a TTL or a stale timestamp   *)
(* elapses at any moment unless a heartbeat that reaches Redis prevents it. *)
(***************************************************************************)
EXTENDS BatchImage, Sequences

CONSTANTS Workers,      \* BatchImageWorker goroutines, one per process
          NoJob,        \* "this worker has reserved nothing"
          NoWorker,     \* "the lock key does not exist"
          MaxOutages,   \* bound: heartbeat outages
          MaxFaults,    \* bound: crashes and failed Redis calls
          MaxReady      \* bound: producers pause while the ready list is this long

ASSUME QueueAssumption ==
    /\ NoJob \notin Jobs
    /\ NoWorker \notin Workers
    /\ MaxOutages \in Nat
    /\ MaxFaults \in Nat
    /\ MaxReady \in Nat

VARIABLES ready,     \* the ready list: LPUSH adds at the head, RPOP takes the last
          active,    \* members of the active zset
          aged,      \* members of active whose score is older than StaleActiveAfter
          delayed,   \* members of the delayed zset
          inflight,  \* batch ids whose inflight de-duplication key exists
          lock,      \* owner token of each job lock key
          wpc,       \* where each worker is in RunOnce
          wjob,      \* the batch id each worker has reserved
          late,      \* workers whose heartbeats have stopped reaching Redis
          outages,   \* number of heartbeat outages so far
          faults     \* number of crashes and failed Redis calls so far

redis == <<ready, active, aged, delayed, inflight, lock>>
worker == <<wpc, wjob, late>>
qvars == <<ready, active, aged, delayed, inflight, lock, wpc, wjob, late,
           outages, faults>>

\* A worker owns its job from SETNX until the deferred lock.Release.
OwningPcs == {"processing", "requeue", "ack", "unlock"}
WorkerPcs == {"idle", "reserved", "conflict"} \cup OwningPcs

Owns(w, j) == wpc[w] \in OwningPcs /\ wjob[w] = j

QTypeOK ==
    /\ ready \in Seq(Jobs)
    /\ active \subseteq Jobs
    /\ aged \subseteq active
    /\ delayed \subseteq Jobs
    /\ inflight \subseteq Jobs
    /\ lock \in [Jobs -> Workers \cup {NoWorker}]
    /\ wpc \in [Workers -> WorkerPcs]
    /\ wjob \in [Workers -> Jobs \cup {NoJob}]
    /\ \A w \in Workers : wjob[w] = NoJob <=> wpc[w] = "idle"
    /\ late \subseteq Workers
    /\ outages \in 0..MaxOutages
    /\ faults \in 0..MaxFaults

QInit ==
    /\ ready = <<>>
    /\ active = {} /\ aged = {} /\ delayed = {} /\ inflight = {}
    /\ lock = [j \in Jobs |-> NoWorker]
    /\ wpc = [w \in Workers |-> "idle"]
    /\ wjob = [w \in Workers |-> NoJob]
    /\ late = {}
    /\ outages = 0 /\ faults = 0

-----------------------------------------------------------------------------
(* Redis scripts and pipelines, over the Redis state alone.                 *)

\* batchImageEnqueueScript: SET NX inflight, then LPUSH; otherwise the caller
\* gets ErrBatchImageAlreadyQueued and nothing changes.
EnqueueScript(j) ==
    /\ IF j \in inflight
       THEN UNCHANGED <<ready, inflight>>
       ELSE /\ inflight' = inflight \cup {j}
            /\ ready' = <<j>> \o ready
    /\ UNCHANGED <<active, aged, delayed, lock>>

\* RequeueAfter with a positive delay.  RunOnce, its only caller, normalises
\* every delay it passes to a positive one.
RequeueAfter(j) ==
    /\ active' = active \ {j}
    /\ aged' = aged \ {j}
    /\ delayed' = delayed \cup {j}
    /\ UNCHANGED <<ready, inflight, lock>>

\* Mutant of AckPipeline: the inflight key is not deleted.
AckKeepsInflight(j) ==
    /\ active' = active \ {j}
    /\ aged' = aged \ {j}
    /\ delayed' = delayed \ {j}
    /\ UNCHANGED <<ready, inflight, lock>>

\* Ack leaves the ready list alone: a duplicate entry there survives it.
AckPipeline(j) ==
    /\ active' = active \ {j}
    /\ aged' = aged \ {j}
    /\ delayed' = delayed \ {j}
    /\ inflight' = inflight \ {j}
    /\ UNCHANGED <<ready, lock>>

\* The order in which a script pushes a set of jobs (by score).
Orders(S) == {s \in [1..Cardinality(S) -> S] : S \subseteq {s[i] : i \in DOMAIN s}}

-----------------------------------------------------------------------------
(* Producers: Submit, Cancel and the billing recovery call Enqueue.         *)

Enqueue(j) ==
    /\ Len(ready) < MaxReady
    /\ EnqueueScript(j)
    /\ UNCHANGED <<worker, outages, faults>>

\* The inflight key expires (InflightTTL; nothing refreshes it).
ExpireInflight(j) ==
    /\ j \in inflight
    /\ inflight' = inflight \ {j}
    /\ UNCHANGED <<ready, active, aged, delayed, lock, worker, outages, faults>>

-----------------------------------------------------------------------------
(* RunOnce.                                                                 *)

GoIdle(w) ==
    /\ wpc' = [wpc EXCEPT ![w] = "idle"]
    /\ wjob' = [wjob EXCEPT ![w] = NoJob]
    /\ late' = late \ {w}

Goto(w, p) == wpc' = [wpc EXCEPT ![w] = p] /\ UNCHANGED <<wjob, late>>

\* batchImageReserveScript: RPOP ready and ZADD active with the current time.
Reserve(w) ==
    /\ wpc[w] = "idle"
    /\ ready # <<>>
    /\ LET j == ready[Len(ready)]
       IN  /\ ready' = SubSeq(ready, 1, Len(ready) - 1)
           /\ active' = active \cup {j}
           /\ aged' = aged \ {j}
           /\ wjob' = [wjob EXCEPT ![w] = j]
    /\ wpc' = [wpc EXCEPT ![w] = "reserved"]
    /\ UNCHANGED <<delayed, inflight, lock, late, outages, faults>>

\* Mutant of TryAcquireJobLock: SET instead of SETNX.
AcquireWithoutNX(w) ==
    /\ wpc[w] = "reserved"
    /\ lock' = [lock EXCEPT ![wjob[w]] = w]
    /\ Goto(w, "processing")
    /\ UNCHANGED <<ready, active, aged, delayed, inflight, outages, faults>>

\* TryAcquireJobLock: SETNX with a fresh token.
TryAcquireJobLock(w) ==
    /\ wpc[w] = "reserved"
    /\ IF lock[wjob[w]] = NoWorker
       THEN /\ lock' = [lock EXCEPT ![wjob[w]] = w]
            /\ Goto(w, "processing")
       ELSE UNCHANGED lock /\ Goto(w, "conflict")
    /\ UNCHANGED <<ready, active, aged, delayed, inflight, outages, faults>>

\* SETNX fails; when the answer and not the call is lost, the key is set with
\* a token nobody remembers.  RunOnce requeues as for a conflict.
TryAcquireJobLockFails(w) ==
    /\ wpc[w] = "reserved"
    /\ faults < MaxFaults
    /\ faults' = faults + 1
    /\ \/ UNCHANGED lock
       \/ lock[wjob[w]] = NoWorker /\ lock' = [lock EXCEPT ![wjob[w]] = w]
    /\ Goto(w, "conflict")
    /\ UNCHANGED <<ready, active, aged, delayed, inflight, outages>>

\* The lock is someone else's: requeue with LockConflictDelay, keep no lock.
RequeueConflict(w) ==
    /\ wpc[w] = "conflict"
    /\ RequeueAfter(wjob[w])
    /\ GoIdle(w)
    /\ UNCHANGED <<outages, faults>>

\* processor.Process returns: a terminal result is acknowledged, an error or
\* any other result is requeued.
FinishProcess(w, next) ==
    /\ wpc[w] = "processing"
    /\ next \in {"requeue", "ack"}
    /\ Goto(w, next)
    /\ UNCHANGED <<redis, outages, faults>>

Requeue(w) ==
    /\ wpc[w] = "requeue"
    /\ RequeueAfter(wjob[w])
    /\ Goto(w, "unlock")
    /\ UNCHANGED <<outages, faults>>

Ack(w) ==
    /\ wpc[w] = "ack"
    /\ AckPipeline(wjob[w])
    /\ Goto(w, "unlock")
    /\ UNCHANGED <<outages, faults>>

\* RequeueAfter or Ack returns a Redis error; RunOnce gives up on the job.
QueueCallFails(w) ==
    /\ wpc[w] \in {"conflict", "requeue", "ack"}
    /\ faults < MaxFaults
    /\ faults' = faults + 1
    /\ IF wpc[w] = "conflict" THEN GoIdle(w) ELSE Goto(w, "unlock")
    /\ UNCHANGED <<redis, outages>>

\* Mutant of ReleaseLock: DEL without comparing the token.
ReleaseAnyLock(w) ==
    /\ wpc[w] = "unlock"
    /\ lock' = [lock EXCEPT ![wjob[w]] = NoWorker]
    /\ GoIdle(w)
    /\ UNCHANGED <<ready, active, aged, delayed, inflight, outages, faults>>

\* The deferred lock.Release deletes the key only if it still holds its token.
ReleaseLock(w) ==
    /\ wpc[w] = "unlock"
    /\ lock' = IF lock[wjob[w]] = w THEN [lock EXCEPT ![wjob[w]] = NoWorker] ELSE lock
    /\ GoIdle(w)
    /\ UNCHANGED <<ready, active, aged, delayed, inflight, outages, faults>>

\* A heartbeat reaches Redis: ZADD XX refreshes the score of an active member
\* (never adds one), and Refresh extends the lock if the token still matches.
Heartbeat(w) ==
    /\ wpc[w] = "processing"
    /\ w \in late \/ wjob[w] \in aged
    /\ aged' = aged \ {wjob[w]}
    /\ late' = late \ {w}
    /\ UNCHANGED <<ready, active, delayed, inflight, lock, wpc, wjob, outages, faults>>

-----------------------------------------------------------------------------
(* The delayed mover and the stale-active recovery.                         *)

MoveDueDelayed(S) ==
    /\ S \subseteq delayed /\ S # {}
    /\ delayed' = delayed \ S
    /\ \E s \in Orders(S) : ready' = s \o ready
    /\ UNCHANGED <<active, aged, inflight, lock, worker, outages, faults>>

\* Mutant of RecoverStaleActive: the score is refreshed, the job never pushed.
RecoverRefreshes(S) ==
    /\ S \subseteq aged /\ S # {}
    /\ aged' = aged \ S
    /\ UNCHANGED <<ready, active, delayed, inflight, lock, worker, outages, faults>>

RecoverStaleActive(S) ==
    /\ S \subseteq aged /\ S # {}
    /\ active' = active \ S
    /\ aged' = aged \ S
    /\ \E s \in Orders(S) : ready' = s \o ready
    /\ UNCHANGED <<delayed, inflight, lock, worker, outages, faults>>

-----------------------------------------------------------------------------
(* The environment: outages, expiry, crashes.                               *)

\* Heartbeats of w stop reaching Redis for longer than the TTLs (a Redis
\* outage, a paused process).
Stall(w) ==
    /\ wpc[w] # "idle" /\ w \notin late
    /\ outages < MaxOutages
    /\ outages' = outages + 1
    /\ late' = late \cup {w}
    /\ UNCHANGED <<redis, wpc, wjob, faults>>

\* JobLockTTL elapses: only when no heartbeat of the owner extends the key.
ExpireLock(j) ==
    /\ lock[j] # NoWorker
    /\ Owns(lock[j], j) => lock[j] \in late
    /\ lock' = [lock EXCEPT ![j] = NoWorker]
    /\ UNCHANGED <<ready, active, aged, delayed, inflight, worker, outages, faults>>

\* The score of an active member passes StaleActiveAfter: only when no worker
\* on that job refreshed it.
AgeActive(j) ==
    /\ j \in active \ aged
    /\ \A w \in Workers : wjob[w] = j => w \in late
    /\ aged' = aged \cup {j}
    /\ UNCHANGED <<ready, active, delayed, inflight, lock, worker, outages, faults>>

\* The process of w dies and restarts.  Its lock and its active member stay.
Crash(w) ==
    /\ wpc[w] # "idle"
    /\ faults < MaxFaults
    /\ faults' = faults + 1
    /\ GoIdle(w)
    /\ UNCHANGED <<redis, outages>>

-----------------------------------------------------------------------------
WorkerStep(w) ==
    \/ Reserve(w)
    \/ TryAcquireJobLock(w)
    \/ RequeueConflict(w)
    \/ \E next \in {"requeue", "ack"} : FinishProcess(w, next)
    \/ Requeue(w)
    \/ Ack(w)
    \/ ReleaseLock(w)

QNext ==
    \/ \E j \in Jobs : Enqueue(j) \/ ExpireInflight(j) \/ ExpireLock(j) \/ AgeActive(j)
    \/ \E w \in Workers : \/ WorkerStep(w)
                          \/ TryAcquireJobLockFails(w)
                          \/ QueueCallFails(w)
                          \/ Heartbeat(w)
                          \/ Stall(w)
                          \/ Crash(w)
    \/ \E S \in SUBSET Jobs : MoveDueDelayed(S) \/ RecoverStaleActive(S)

\* Worker goroutines, the two ticker loops and Redis' own expiry keep running;
\* nothing forces producers, outages or faults to happen.
QFairness ==
    /\ \A w \in Workers : WF_qvars(WorkerStep(w))
    /\ \A j \in Jobs :
         /\ WF_qvars(\E S \in SUBSET Jobs : j \in S /\ MoveDueDelayed(S))
         /\ WF_qvars(\E S \in SUBSET Jobs : j \in S /\ RecoverStaleActive(S))
         /\ WF_qvars(ExpireLock(j))
         /\ WF_qvars(AgeActive(j))

QSpec == QInit /\ [][QNext]_qvars
QFairSpec == QSpec /\ QFairness

-----------------------------------------------------------------------------
(* Properties.                                                              *)

\* Membership of the ready list.
InReady(j) == \E i \in 1..Len(ready) : ready[i] = j

\* A job whose inflight key blocks every new Enqueue is always somewhere in the
\* queue: no crash, failed call or race can wedge it (the reason given for the
\* atomic scripts in batch_image_queue.go:61-75).
InflightTracked ==
    \A j \in inflight : InReady(j) \/ j \in active \/ j \in delayed

\* Unless a heartbeat outage happened, no two workers work on one job, from
\* SETNX through the final requeue or ack.
ExclusiveProcessing ==
    outages = 0 =>
      \A v, w \in Workers, j \in Jobs : Owns(v, j) /\ Owns(w, j) => v = w

\* A worker that lost its lock never frees the lock of the worker that
\* took over: a held, refreshed lock changes only when its owner lets go.
OwnerKeepsLock ==
    [][\A w \in Workers, j \in Jobs :
         lock[j] = w /\ Owns(w, j) /\ w \notin late /\ lock'[j] # w
           => ~ Owns(w, j)']_qvars

\* A queued job keeps being handed to a worker until it is acknowledged (or
\* its key expires), whatever crashes or outages happen.
InflightServed ==
    \A j \in Jobs : j \in inflight ~> (j \notin inflight \/ \E w \in Workers : Owns(w, j))
=============================================================================
