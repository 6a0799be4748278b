------------------------- MODULE BatchImagePipeline -------------------------
(***************************************************************************)
(* The life of a batch image job: the public Submit and Cancel handlers, the *)
(* stale-submission recovery and the queue workers, all acting on the job    *)
(* row, the user's ledger, the Redis queue and the provider's batch job.     *)
(*                                                                         *)
(* One step is one call that leaves the process (a database transaction, a   *)
(* Redis script, a provider request): everything a handler read before that  *)
(* call may be out of date when the call is made.                           *)
(***************************************************************************)
EXTENDS BatchImageLedger, BatchImageQueue

CONSTANTS MaxRetries,   \* batchImageSettlementMaxRetries
          Outputs,      \* costs the provider's output can amount to, or BadOutput
          MaxCalls,     \* bound: Cancel, re-Submit and output deletion calls per job
          EarlyCancel,  \* may the client cancel while its Submit still runs?
          ApiFaults,    \* may API and recovery processes crash or lose calls?
          CommitLoss    \* may a committed transaction be reported as failed?

BadOutput == -1

ASSUME PipelineAssumption ==
    /\ MaxRetries \in Nat \ {0}
    /\ Outputs \subseteq Nat \cup {BadOutput}
    /\ MaxCalls \in Nat
    /\ EarlyCancel \in BOOLEAN
    /\ ApiFaults \in BOOLEAN
    /\ CommitLoss \in BOOLEAN

VARIABLES status,    \* batch_image_jobs.status
          named,     \* jobs whose provider_job_name is recorded
          cost,      \* success_count * unit price, written by ReplaceItems
          retry,     \* retry_count, counted up to MaxRetries
          settleErr, \* jobs whose last_error_code starts with SETTLEMENT_
          stale,     \* jobs whose updated_at is before the recovery cutoff
          prov,      \* external: state of the provider's batch job
          output,    \* external: what the provider's output amounts to
          spc,       \* where Submit is
          cpc,       \* where Cancel is
          rpc,       \* where the recovery is
          calls,     \* calls made after the submission
          stage      \* where each worker's Process is

jobVars == <<status, named, cost, retry, settleErr, stale>>
provVars == <<prov, output>>
apiVars == <<spc, cpc, rpc, calls>>
pvars == <<jobVars, provVars, apiVars, stage, lvars, qvars>>

ProvStates == {"none", "queued", "running", "succeeded", "failed", "cancelled"}
SubmitPcs == {"start", "reserve", "items", "upload", "provider", "persist", "enqueue",
              "release", "releaseOnly", "record", "recordRetry", "recordQueue", "retry",
              "abort", "done", "dead"}
CancelPcs == {"idle", "provider", "transition", "release", "retry", "enqueue"}
RecoveryPcs == {"idle", "release", "retry"}
Stages == {"none", "read", "lookup", "get", "running", "indexing", "index", "failed",
           "cancelled", "release", "settling", "settle", "capture", "recordFailure",
           "exhaust", "exhaustRecord", "exhaustFail", "mark"}

PTypeOK ==
    /\ status \in [Jobs -> Statuses]
    /\ named \subseteq Jobs /\ settleErr \subseteq Jobs /\ stale \subseteq Jobs
    /\ cost \in [Jobs -> Nat]
    /\ retry \in [Jobs -> 0..MaxRetries]
    /\ prov \in [Jobs -> ProvStates]
    /\ output \in [Jobs -> Nat \cup {BadOutput}]
    /\ spc \in [Jobs -> SubmitPcs]
    /\ cpc \in [Jobs -> CancelPcs]
    /\ rpc \in [Jobs -> RecoveryPcs]
    /\ calls \in [Jobs -> 0..MaxCalls]
    /\ stage \in [Workers -> Stages]
    /\ \A w \in Workers : stage[w] # "none" <=> wpc[w] = "processing"
    /\ LTypeOK /\ QTypeOK

PInit ==
    /\ LInit /\ QInit
    /\ status = [j \in Jobs |-> "none"]
    /\ named = {} /\ settleErr = {} /\ stale = {}
    /\ cost = [j \in Jobs |-> 0]
    /\ retry = [j \in Jobs |-> 0]
    /\ prov = [j \in Jobs |-> "none"]
    /\ output = [j \in Jobs |-> 0]
    /\ spc = [j \in Jobs |-> "start"]
    /\ cpc = [j \in Jobs |-> "idle"]
    /\ rpc = [j \in Jobs |-> "idle"]
    /\ calls = [j \in Jobs |-> 0]
    /\ stage = [w \in Workers |-> "none"]

-----------------------------------------------------------------------------
(* Repository calls on the job row.                                         *)

\* Any UPDATE refreshes updated_at.
SetStatus(j, s) ==
    /\ status' = [status EXCEPT ![j] = s]
    /\ stale' = stale \ {j}

\* TransitionBatchImageJobStatus: SELECT FOR UPDATE, check the table, UPDATE.
Transition(j, to) ==
    /\ CanTransition(status[j], to)
    /\ SetStatus(j, to)
    /\ settleErr' = IF to = "failed" THEN settleErr \ {j} ELSE settleErr
    /\ UNCHANGED <<named, cost, retry>>

\* RecordBatchImageJobSubmitFailure(markFailed = true): no status check.
RecordSubmitFailure(j) ==
    /\ SetStatus(j, "failed")
    /\ settleErr' = settleErr \ {j}
    /\ UNCHANGED <<named, cost, retry>>

\* SetBatchImageJobSettlementFailed: no status check either.
SetSettlementFailed(j) ==
    /\ retry' = [retry EXCEPT ![j] = IF @ < MaxRetries THEN @ + 1 ELSE @]
    /\ settleErr' = settleErr \cup {j}
    /\ stale' = stale \ {j}
    /\ UNCHANGED <<status, named, cost>>

\* A call fails, charged to the fault budget of the model.
Fault == faults < MaxFaults /\ faults' = faults + 1

-----------------------------------------------------------------------------
(* Submit.                                                                  *)

SubmitGoto(j, p) == spc' = [spc EXCEPT ![j] = p] /\ UNCHANGED <<cpc, rpc, calls>>

\* Frame of an API step that touches neither the worker pool nor Redis.
ApiFrame == UNCHANGED <<stage, redis, worker, outages>>

\* CreateBatchImageJob.
SubmitCreate(j) ==
    /\ spc[j] = "start"
    /\ SetStatus(j, "created")
    /\ SubmitGoto(j, "reserve")
    /\ UNCHANGED <<named, cost, retry, settleErr, provVars, lvars, faults>> /\ ApiFrame

\* reserveBatchImageBalanceHold; every failure only marks the job failed.
SubmitReserve(j) ==
    /\ spc[j] = "reserve"
    /\ ReserveTx(j)
    /\ SubmitGoto(j, IF ReserveResult(j) \in {"ok", "duplicate", "skipped"}
                     THEN "items" ELSE "record")
    /\ UNCHANGED <<jobVars, provVars, faults>> /\ ApiFrame

\* createPendingItems.
SubmitItems(j) ==
    /\ spc[j] = "items"
    /\ SubmitGoto(j, "upload")
    /\ UNCHANGED <<jobVars, provVars, lvars, faults>> /\ ApiFrame

\* The transition to uploading; an invalid one releases the hold and leaves the
\* status to whoever set it.
SubmitUpload(j) ==
    /\ spc[j] = "upload"
    /\ \/ Transition(j, "uploading") /\ SubmitGoto(j, "provider")
       \/ /\ ~ CanTransition(status[j], "uploading")
          /\ SubmitGoto(j, "releaseOnly")
          /\ UNCHANGED jobVars
    /\ UNCHANGED <<provVars, lvars, faults>> /\ ApiFrame

\* provider.Submit creates the batch job upstream, or refuses it.
SubmitProvider(j) ==
    /\ spc[j] = "provider"
    /\ \/ /\ prov' = [prov EXCEPT ![j] = "queued"]
          /\ SubmitGoto(j, "persist")
       \/ UNCHANGED prov /\ SubmitGoto(j, "release")
    /\ UNCHANGED <<jobVars, output, lvars, faults>> /\ ApiFrame

\* runSubmitHeartbeat: TouchBatchImageJobSubmitting refreshes updated_at.
SubmitHeartbeat(j) ==
    /\ spc[j] = "provider"
    /\ status[j] \in {"created", "uploading"} /\ j \in stale
    /\ stale' = stale \ {j}
    /\ UNCHANGED <<status, named, cost, retry, settleErr, provVars, apiVars, lvars, faults>>
    /\ ApiFrame

\* Mutant of SubmitPersist: the update does not look at the status.
PersistUnguarded(j) ==
    /\ spc[j] = "persist"
    /\ SetStatus(j, "submitted")
    /\ named' = named \cup {j}
    /\ SubmitGoto(j, "enqueue")
    /\ UNCHANGED <<cost, retry, settleErr, provVars, lvars, faults>> /\ ApiFrame

\* Mutant of SubmitPersist: a refused update does not abort the upstream job.
PersistWithoutAbort(j) ==
    /\ spc[j] = "persist"
    /\ IF CanTransition(status[j], "submitted")
       THEN /\ SetStatus(j, "submitted")
            /\ named' = named \cup {j}
            /\ SubmitGoto(j, "enqueue")
            /\ UNCHANGED <<cost, retry, settleErr>>
       ELSE SubmitGoto(j, "done") /\ UNCHANGED jobVars
    /\ UNCHANGED <<provVars, lvars, faults>> /\ ApiFrame

\* UpdateBatchImageJobProviderSubmit, or abortOrphanProviderJob if it fails.
SubmitPersist(j) ==
    /\ spc[j] = "persist"
    /\ IF CanTransition(status[j], "submitted")
       THEN /\ SetStatus(j, "submitted")
            /\ named' = named \cup {j}
            /\ SubmitGoto(j, "enqueue")
            /\ UNCHANGED <<cost, retry, settleErr>>
       ELSE SubmitGoto(j, "abort") /\ UNCHANGED jobVars
    /\ UNCHANGED <<provVars, lvars, faults>> /\ ApiFrame

\* External: the provider cancels a batch job that has not finished.
ProviderCancel(j) ==
    prov' = IF prov[j] \in {"queued", "running"} THEN [prov EXCEPT ![j] = "cancelled"] ELSE prov

SubmitAbort(j) ==
    /\ spc[j] = "abort"
    /\ ProviderCancel(j)
    /\ SubmitGoto(j, "done")
    /\ UNCHANGED <<jobVars, output, lvars, faults>> /\ ApiFrame

SubmitEnqueue(j) ==
    /\ spc[j] \in {"enqueue", "retry"}
    /\ EnqueueScript(j)
    /\ SubmitGoto(j, "done")
    /\ UNCHANGED <<jobVars, provVars, lvars, stage, worker, outages, faults>>

\* releaseFailedSubmitHold.
SubmitRelease(j) ==
    /\ spc[j] \in {"release", "releaseOnly"}
    /\ ReleaseTx(j)
    /\ SubmitGoto(j, IF ~ Released(j) THEN "recordRetry"
                     ELSE IF spc[j] = "release" THEN "record" ELSE "done")
    /\ UNCHANGED <<jobVars, provVars, faults>> /\ ApiFrame

\* RecordBatchImageJobSubmitFailure after the release.
SubmitRecord(j) ==
    /\ spc[j] \in {"record", "recordRetry"}
    /\ RecordSubmitFailure(j)
    /\ SubmitGoto(j, IF spc[j] = "record" THEN "done" ELSE "retry")
    /\ UNCHANGED <<provVars, lvars, faults>> /\ ApiFrame

\* QUEUE_FAILED: last_error_code is replaced, the status is kept.
SubmitRecordQueue(j) ==
    /\ spc[j] = "recordQueue"
    /\ settleErr' = settleErr \ {j} /\ stale' = stale \ {j}
    /\ SubmitGoto(j, "done")
    /\ UNCHANGED <<status, named, cost, retry, provVars, lvars, faults>> /\ ApiFrame

\* Where Submit goes when its current call fails without effect.
SubmitOnError(p) ==
    CASE p = "reserve"                     -> "record"
      [] p \in {"items", "upload"}         -> "release"
      [] p \in {"release", "releaseOnly"}  -> "recordRetry"
      [] p = "persist"                     -> "abort"
      [] p = "enqueue"                     -> "recordQueue"
      [] p = "recordRetry"                 -> "retry"
      [] OTHER                             -> "done"

SubmitErr(j) ==
    /\ ApiFaults /\ Fault
    /\ spc[j] \notin {"start", "provider", "done", "dead"}
    /\ SubmitGoto(j, SubmitOnError(spc[j]))
    /\ \/ UNCHANGED lvars
       \/ CommitLoss /\ spc[j] = "reserve" /\ ReserveTx(j)
       \/ CommitLoss /\ spc[j] \in {"release", "releaseOnly"} /\ ReleaseTx(j)
    /\ UNCHANGED <<jobVars, provVars>> /\ ApiFrame

\* The update that records the provider job commits but is reported as failed:
\* Submit aborts an upstream job the row now names.
SubmitPersistLost(j) ==
    /\ ApiFaults /\ CommitLoss /\ Fault
    /\ spc[j] = "persist"
    /\ CanTransition(status[j], "submitted")
    /\ SetStatus(j, "submitted")
    /\ named' = named \cup {j}
    /\ SubmitGoto(j, "abort")
    /\ UNCHANGED <<cost, retry, settleErr, provVars, lvars>> /\ ApiFrame

\* The API process dies.
SubmitCrash(j) ==
    /\ ApiFaults /\ Fault
    /\ spc[j] \notin {"start", "done", "dead"}
    /\ SubmitGoto(j, "dead")
    /\ UNCHANGED <<jobVars, provVars, lvars>> /\ ApiFrame

\* A second Submit with the same idempotency key and payload: a job still in
\* submitted is enqueued again.  (When that fails, only its error text changes.)
SubmitReplay(j) ==
    /\ status[j] = "submitted"
    /\ calls[j] < MaxCalls
    /\ calls' = [calls EXCEPT ![j] = @ + 1]
    /\ EnqueueScript(j)
    /\ UNCHANGED <<jobVars, provVars, spc, cpc, rpc, lvars, stage, worker, outages, faults>>

SubmitStep(j) ==
    \/ SubmitCreate(j) \/ SubmitReserve(j) \/ SubmitItems(j) \/ SubmitUpload(j)
    \/ SubmitProvider(j) \/ SubmitPersist(j) \/ SubmitAbort(j) \/ SubmitEnqueue(j)
    \/ SubmitRelease(j) \/ SubmitRecord(j) \/ SubmitRecordQueue(j)

-----------------------------------------------------------------------------
(* Cancel.                                                                  *)

CancelGoto(j, p) == cpc' = [cpc EXCEPT ![j] = p] /\ UNCHANGED <<spc, rpc, calls>>

\* isBatchImageProcessorDoneStatus: settling counts as done.
DoneStatus(s) == s = "settling" \/ IsTerminal(s)

\* The read that decides what Cancel does.
CancelRead(j) ==
    /\ cpc[j] = "idle"
    /\ status[j] # "none"
    /\ EarlyCancel \/ spc[j] \in {"done", "dead"}
    /\ calls[j] < MaxCalls
    /\ calls' = [calls EXCEPT ![j] = @ + 1]
    /\ cpc' = [cpc EXCEPT ![j] =
                 IF status[j] \in {"failed", "cancelled"} THEN "release"
                 ELSE IF DoneStatus(status[j]) THEN "idle"
                 ELSE IF j \in named THEN "provider"
                 ELSE "transition"]
    /\ UNCHANGED <<spc, rpc, jobVars, provVars, lvars, faults>> /\ ApiFrame

CancelProvider(j) ==
    /\ cpc[j] = "provider"
    /\ ProviderCancel(j)
    /\ CancelGoto(j, "enqueue")
    /\ UNCHANGED <<jobVars, output, lvars, faults>> /\ ApiFrame

CancelTransition(j) ==
    /\ cpc[j] = "transition"
    /\ \/ Transition(j, "cancelled") /\ CancelGoto(j, "release")
       \/ /\ ~ CanTransition(status[j], "cancelled")
          /\ CancelGoto(j, "idle")
          /\ UNCHANGED jobVars
    /\ UNCHANGED <<provVars, lvars, faults>> /\ ApiFrame

CancelRelease(j) ==
    /\ cpc[j] = "release"
    /\ ReleaseTx(j)
    /\ CancelGoto(j, IF Released(j) THEN "idle" ELSE "retry")
    /\ UNCHANGED <<jobVars, provVars, faults>> /\ ApiFrame

\* The enqueue of a provider-side cancel, or enqueueBillingRetry.
CancelEnqueue(j) ==
    /\ cpc[j] \in {"enqueue", "retry"}
    /\ EnqueueScript(j)
    /\ CancelGoto(j, "idle")
    /\ UNCHANGED <<jobVars, provVars, lvars, stage, worker, outages, faults>>

CancelErr(j) ==
    /\ ApiFaults /\ Fault
    /\ cpc[j] # "idle"
    /\ CancelGoto(j, IF cpc[j] = "release" THEN "retry" ELSE "idle")
    /\ \/ UNCHANGED <<jobVars, lvars>>
       \/ CommitLoss /\ cpc[j] = "release" /\ ReleaseTx(j) /\ UNCHANGED jobVars
       \/ CommitLoss /\ cpc[j] = "transition" /\ Transition(j, "cancelled") /\ UNCHANGED lvars
    /\ UNCHANGED provVars /\ ApiFrame

CancelCrash(j) ==
    /\ ApiFaults /\ Fault
    /\ cpc[j] # "idle"
    /\ CancelGoto(j, "idle")
    /\ UNCHANGED <<jobVars, provVars, lvars>> /\ ApiFrame

CancelStep(j) ==
    \/ CancelProvider(j) \/ CancelTransition(j) \/ CancelRelease(j) \/ CancelEnqueue(j)

-----------------------------------------------------------------------------
(* ReleaseStaleUnsubmittedOnce.                                             *)

RecoveryGoto(j, p) == rpc' = [rpc EXCEPT ![j] = p] /\ UNCHANGED <<spc, cpc, calls>>

\* updated_at passes the cutoff: the submitter is dead, or its heartbeats fail.
AgeJob(j) ==
    /\ status[j] \in {"created", "uploading"} /\ j \notin stale
    /\ \/ spc[j] \in {"done", "dead"} /\ UNCHANGED outages
       \/ outages < MaxOutages /\ outages' = outages + 1
    /\ stale' = stale \cup {j}
    /\ UNCHANGED <<status, named, cost, retry, settleErr, provVars, apiVars, lvars,
                   stage, redis, worker, faults>>

\* FailStaleUnsubmittedBatchImageJob re-checks everything in one UPDATE.
RecoverFail(j) ==
    /\ rpc[j] = "idle"
    /\ j \in stale
    /\ status[j] \in {"created", "uploading"}
    /\ j \notin named
    /\ SetStatus(j, "failed")
    /\ settleErr' = settleErr \ {j}
    /\ RecoveryGoto(j, "release")
    /\ UNCHANGED <<named, cost, retry, provVars, lvars, faults>> /\ ApiFrame

RecoverRelease(j) ==
    /\ rpc[j] = "release"
    /\ ReleaseTx(j)
    /\ RecoveryGoto(j, IF Released(j) THEN "idle" ELSE "retry")
    /\ UNCHANGED <<jobVars, provVars, faults>> /\ ApiFrame

RecoverEnqueue(j) ==
    /\ rpc[j] = "retry"
    /\ EnqueueScript(j)
    /\ RecoveryGoto(j, "idle")
    /\ UNCHANGED <<jobVars, provVars, lvars, stage, worker, outages, faults>>

RecoverErr(j) ==
    /\ ApiFaults /\ Fault
    /\ rpc[j] # "idle"
    /\ RecoveryGoto(j, IF rpc[j] = "release" THEN "retry" ELSE "idle")
    /\ \/ UNCHANGED lvars
       \/ CommitLoss /\ rpc[j] = "release" /\ ReleaseTx(j)
    /\ UNCHANGED <<jobVars, provVars>> /\ ApiFrame

RecoverCrash(j) ==
    /\ ApiFaults /\ Fault
    /\ rpc[j] # "idle"
    /\ RecoveryGoto(j, "idle")
    /\ UNCHANGED <<jobVars, provVars, lvars>> /\ ApiFrame

RecoveryStep(j) == RecoverFail(j) \/ RecoverRelease(j) \/ RecoverEnqueue(j)

-----------------------------------------------------------------------------
(* The provider's batch job (external) and the deletion of outputs.         *)

ProviderStep(j) ==
    /\ \/ prov[j] = "queued" /\ prov' = [prov EXCEPT ![j] = "running"] /\ UNCHANGED output
       \/ /\ prov[j] = "running"
          /\ prov' = [prov EXCEPT ![j] = "succeeded"]
          /\ \E o \in Outputs : output' = [output EXCEPT ![j] = o]
       \/ /\ prov[j] \in {"queued", "running"}
          /\ prov' = [prov EXCEPT ![j] = "failed"]
          /\ UNCHANGED output
    /\ UNCHANGED <<jobVars, apiVars, lvars, faults>> /\ ApiFrame

\* Mutant of DeleteOutput: the status is overwritten whatever it was.
DeleteAnyOutput(j) ==
    /\ status[j] # "none"
    /\ calls[j] < MaxCalls
    /\ calls' = [calls EXCEPT ![j] = @ + 1]
    /\ SetStatus(j, "output_deleted")
    /\ UNCHANGED <<named, cost, retry, settleErr, provVars, spc, cpc, rpc, lvars, faults>>
    /\ ApiFrame

\* MarkBatchImageOutputDeleted after a manual or a TTL cleanup; only a completed
\* job changes status.
DeleteOutput(j) ==
    /\ status[j] = "completed"
    /\ calls[j] < MaxCalls
    /\ calls' = [calls EXCEPT ![j] = @ + 1]
    /\ SetStatus(j, "output_deleted")
    /\ UNCHANGED <<named, cost, retry, settleErr, provVars, spc, cpc, rpc, lvars, faults>>
    /\ ApiFrame

-----------------------------------------------------------------------------
(* Worker: BatchImagePipelineProcessor.Process.                             *)

At(w, s) == wpc[w] = "processing" /\ stage[w] = s

\* Process goes on to stage p, or returns: "ack" stands for a terminal result,
\* "requeue" for an error or any other result.
Proceed(w, p) ==
    IF p \in {"ack", "requeue"}
    THEN stage' = [stage EXCEPT ![w] = "none"] /\ Goto(w, p)
    ELSE stage' = [stage EXCEPT ![w] = p] /\ UNCHANGED worker

ProcFrame == UNCHANGED <<provVars, apiVars, redis, outages>>

\* Process reads the job to choose settlement or the provider processor ...
ProcessRead(w) ==
    /\ At(w, "read")
    /\ Proceed(w, IF status[wjob[w]] = "settling" THEN "settle" ELSE "lookup")
    /\ UNCHANGED <<jobVars, lvars, faults>> /\ ProcFrame

\* Mutant of ProviderLookup: a failed or cancelled job is done, hold or no hold.
LookupWithoutRelease(w) ==
    /\ At(w, "lookup")
    /\ LET s == status[wjob[w]]
       IN  Proceed(w, IF DoneStatus(s) THEN "ack"
                      ELSE IF wjob[w] \notin named THEN "requeue"
                      ELSE IF s = "indexing" THEN "index"
                      ELSE "get")
    /\ UNCHANGED <<jobVars, lvars, faults>> /\ ProcFrame

\* ... and BatchImageProviderProcessor.Process reads it again.
ProviderLookup(w) ==
    /\ At(w, "lookup")
    /\ LET s == status[wjob[w]]
       IN  Proceed(w, IF s \in {"failed", "cancelled"} THEN "release"
                      ELSE IF DoneStatus(s) THEN "ack"
                      ELSE IF wjob[w] \notin named THEN "requeue"
                      ELSE IF s = "indexing" THEN "index"
                      ELSE "get")
    /\ UNCHANGED <<jobVars, lvars, faults>> /\ ProcFrame

ProviderGet(w) ==
    /\ At(w, "get")
    /\ LET p == prov[wjob[w]]
       IN  Proceed(w, CASE p = "succeeded" -> "indexing"
                        [] p \in {"running", "failed", "cancelled"} -> p
                        [] OTHER -> "requeue")
    /\ UNCHANGED <<jobVars, lvars, faults>> /\ ProcFrame

\* Mutant of ProviderTransition: the job that starts settling is acknowledged.
TransitionAcksSettling(w) ==
    /\ \E to \in {"running", "indexing", "failed", "cancelled", "settling"} :
         /\ At(w, to)
         /\ IF CanTransition(status[wjob[w]], to)
            THEN /\ Transition(wjob[w], to)
                 /\ Proceed(w, CASE to = "running"  -> "requeue"
                                 [] to = "settling" -> "ack"
                                 [] to = "indexing" -> "index"
                                 [] OTHER           -> "release")
            ELSE UNCHANGED jobVars /\ Proceed(w, "requeue")
    /\ UNCHANGED <<lvars, faults>> /\ ProcFrame

\* The transition the provider's state calls for; an invalid one is an error.
ProviderTransition(w) ==
    /\ \E to \in {"running", "indexing", "failed", "cancelled", "settling"} :
         /\ At(w, to)
         /\ IF CanTransition(status[wjob[w]], to)
            THEN /\ Transition(wjob[w], to)
                 /\ Proceed(w, CASE to \in {"running", "settling"} -> "requeue"
                                 [] to = "indexing"                -> "index"
                                 [] OTHER                          -> "release")
            ELSE UNCHANGED jobVars /\ Proceed(w, "requeue")
    /\ UNCHANGED <<lvars, faults>> /\ ProcFrame

\* releaseTerminalHold.
ProcessRelease(w) ==
    /\ At(w, "release")
    /\ ReleaseTx(wjob[w])
    /\ Proceed(w, IF Released(wjob[w]) THEN "ack" ELSE "requeue")
    /\ UNCHANGED <<jobVars, faults>> /\ ProcFrame

\* BatchImageResultIndexer.Index: an unusable output fails the job, and
\* ReplaceItems writes the counts only while the job is indexing.
Index(w) ==
    /\ At(w, "index")
    /\ LET j == wjob[w]
       IN  \/ /\ output[j] = BadOutput
              /\ Proceed(w, "failed")
              /\ UNCHANGED jobVars
           \/ /\ output[j] # BadOutput /\ status[j] # "indexing"
              /\ Proceed(w, "requeue")
              /\ UNCHANGED jobVars
           \/ /\ output[j] # BadOutput /\ status[j] = "indexing"
              /\ cost' = [cost EXCEPT ![j] = output[j]]
              /\ Proceed(w, "settling")
              /\ UNCHANGED <<status, named, retry, settleErr, stale>>
    /\ UNCHANGED <<lvars, faults>> /\ ProcFrame

-----------------------------------------------------------------------------
(* Worker: BatchImageSettlementService.Settle.                              *)

RetryExhausted(j) ==
    status[j] = "settling" /\ retry[j] >= MaxRetries /\ j \in settleErr

Settle(w) ==
    /\ At(w, "settle")
    /\ LET j == wjob[w]
       IN  Proceed(w, IF status[j] = "completed" THEN "ack"
                      ELSE IF status[j] # "settling" THEN "requeue"
                      ELSE IF RetryExhausted(j) THEN "exhaust"
                      ELSE IF cost[j] > Hold[j] THEN "recordFailure"
                      ELSE "capture")
    /\ UNCHANGED <<jobVars, lvars, faults>> /\ ProcFrame

\* Mutant of Capture: a job that cost less than its hold is failed after its capture.
CaptureFailsPartial(w) ==
    /\ At(w, "capture")
    /\ CaptureTx(wjob[w], cost[wjob[w]])
    /\ Proceed(w, IF CaptureResult(wjob[w], cost[wjob[w]]) \notin {"ok", "duplicate"} THEN "recordFailure"
                  ELSE IF cost[wjob[w]] < Hold[wjob[w]] THEN "exhaustFail" ELSE "mark")
    /\ UNCHANGED <<jobVars, faults>> /\ ProcFrame

Capture(w) ==
    /\ At(w, "capture")
    /\ CaptureTx(wjob[w], cost[wjob[w]])
    /\ Proceed(w, IF CaptureResult(wjob[w], cost[wjob[w]]) \in {"ok", "duplicate"}
                   THEN "mark" ELSE "recordFailure")
    /\ UNCHANGED <<jobVars, faults>> /\ ProcFrame

\* Mutant of CaptureErr: the error is ignored.
CaptureErrIgnored(w) ==
    /\ Fault
    /\ At(w, "capture")
    /\ UNCHANGED lvars \/ (CommitLoss /\ CaptureTx(wjob[w], cost[wjob[w]]))
    /\ Proceed(w, "mark")
    /\ UNCHANGED jobVars /\ ProcFrame

\* The capture call fails; with a lost answer it may have committed.
CaptureErr(w) ==
    /\ Fault
    /\ At(w, "capture")
    /\ UNCHANGED lvars \/ (CommitLoss /\ CaptureTx(wjob[w], cost[wjob[w]]))
    /\ Proceed(w, "recordFailure")
    /\ UNCHANGED jobVars /\ ProcFrame

\* What Process makes of ErrBatchImageSettlementBillingFailed: it re-reads the
\* job and stops only when the job is terminal.
AfterBillingFailed(j) == IF IsTerminal(status[j]) THEN "ack" ELSE "requeue"

\* A cost above the hold is a different error, which is always retried.
AfterFailure(j) == IF cost[j] > Hold[j] THEN "requeue" ELSE AfterBillingFailed(j)

\* recordSettlementFailure: the last allowed failure goes straight to the exit.
RecordSettlementFailure(w) ==
    /\ At(w, "recordFailure")
    /\ SetSettlementFailed(wjob[w])
    /\ Proceed(w, IF retry[wjob[w]] + 1 >= MaxRetries
                  THEN "exhaust" ELSE AfterFailure(wjob[w]))
    /\ UNCHANGED <<lvars, faults>> /\ ProcFrame

\* The failure is counted but its event is not: the exit waits for the next round.
RecordSettlementFailureErr(w) ==
    /\ Fault
    /\ At(w, "recordFailure")
    /\ SetSettlementFailed(wjob[w])
    /\ Proceed(w, AfterFailure(wjob[w]))
    /\ UNCHANGED lvars /\ ProcFrame

\* failExhaustedSettlement releases the hold ...
ExhaustRelease(w) ==
    /\ At(w, "exhaust")
    /\ ReleaseTx(wjob[w])
    /\ Proceed(w, IF Released(wjob[w]) THEN "exhaustFail" ELSE "exhaustRecord")
    /\ UNCHANGED <<jobVars, faults>> /\ ProcFrame

ExhaustReleaseErr(w) ==
    /\ Fault
    /\ At(w, "exhaust")
    /\ UNCHANGED lvars \/ (CommitLoss /\ ReleaseTx(wjob[w]))
    /\ Proceed(w, "exhaustRecord")
    /\ UNCHANGED jobVars /\ ProcFrame

ExhaustRecord(w) ==
    /\ At(w, "exhaustRecord")
    /\ SetSettlementFailed(wjob[w])
    /\ Proceed(w, AfterBillingFailed(wjob[w]))
    /\ UNCHANGED <<lvars, faults>> /\ ProcFrame

\* ... and then fails the job.
ExhaustFail(w) ==
    /\ At(w, "exhaustFail")
    /\ \/ Transition(wjob[w], "failed") /\ Proceed(w, "ack")
       \/ /\ ~ CanTransition(status[wjob[w]], "failed")
          /\ UNCHANGED jobVars
          /\ Proceed(w, "requeue")
    /\ UNCHANGED <<lvars, faults>> /\ ProcFrame

\* MarkBatchImageJobSettled updates a settling job only.
MarkSettled(w) ==
    /\ At(w, "mark")
    /\ IF status[wjob[w]] = "settling"
       THEN /\ SetStatus(wjob[w], "completed")
            /\ UNCHANGED <<named, cost, retry, settleErr>>
            /\ Proceed(w, "ack")
       ELSE UNCHANGED jobVars /\ Proceed(w, "requeue")
    /\ UNCHANGED <<lvars, faults>> /\ ProcFrame

\* Any other database or provider call fails: Process returns an error.  (The
\* failed release of a terminal job is one of them.)
ProcessErr(w) ==
    /\ Fault
    /\ wpc[w] = "processing"
    /\ stage[w] \notin {"capture", "exhaust"}
    /\ UNCHANGED lvars \/ (CommitLoss /\ stage[w] = "release" /\ ReleaseTx(wjob[w]))
    /\ Proceed(w, "requeue")
    /\ UNCHANGED jobVars /\ ProcFrame

\* A status change commits but is reported as failed: Process returns an error.
TransitionLost(w) ==
    /\ CommitLoss /\ Fault
    /\ \/ \E to \in {"running", "indexing", "failed", "cancelled", "settling"} :
            At(w, to) /\ Transition(wjob[w], to)
       \/ At(w, "exhaustFail") /\ Transition(wjob[w], "failed")
       \/ At(w, "mark") /\ Transition(wjob[w], "completed")
    /\ Proceed(w, "requeue")
    /\ UNCHANGED lvars /\ ProcFrame

ProcessStep(w) ==
    \/ ProcessRead(w) \/ ProviderLookup(w) \/ ProviderGet(w) \/ ProviderTransition(w)
    \/ ProcessRelease(w) \/ Index(w) \/ Settle(w) \/ Capture(w)
    \/ RecordSettlementFailure(w) \/ ExhaustRelease(w) \/ ExhaustRecord(w)
    \/ ExhaustFail(w) \/ MarkSettled(w)

ProcessFault(w) ==
    \/ CaptureErr(w) \/ RecordSettlementFailureErr(w) \/ ExhaustReleaseErr(w) \/ ProcessErr(w)
    \/ TransitionLost(w)

-----------------------------------------------------------------------------
(* The queue around it.                                                     *)

QueueFrame == UNCHANGED <<jobVars, provVars, apiVars, lvars>>

\* RunOnce up to and after Process.
RunOnceStep(w) ==
    /\ \/ /\ Reserve(w) \/ RequeueConflict(w) \/ Requeue(w) \/ Ack(w) \/ ReleaseLock(w)
          /\ UNCHANGED stage
       \/ /\ TryAcquireJobLock(w)
          /\ stage' = [stage EXCEPT ![w] = IF lock[wjob[w]] = NoWorker THEN "read" ELSE "none"]
    /\ QueueFrame

RunOnceFault(w) ==
    /\ \/ (TryAcquireJobLockFails(w) \/ QueueCallFails(w)) /\ UNCHANGED stage
       \/ (Heartbeat(w) \/ Stall(w)) /\ UNCHANGED stage
       \/ Crash(w) /\ stage' = [stage EXCEPT ![w] = "none"]
    /\ QueueFrame

\* The delayed mover, the stale-active recovery, and Redis' clock.
MoverTick(j) ==
    /\ \E S \in SUBSET Jobs : j \in S /\ MoveDueDelayed(S)
    /\ QueueFrame /\ UNCHANGED stage

StaleTick(j) ==
    /\ \E S \in SUBSET Jobs : j \in S /\ RecoverStaleActive(S)
    /\ QueueFrame /\ UNCHANGED stage

LockTTL(j) == ExpireLock(j) /\ QueueFrame /\ UNCHANGED stage

ActiveAge(j) == AgeActive(j) /\ QueueFrame /\ UNCHANGED stage

-----------------------------------------------------------------------------
PNext ==
    \/ \E j \in Jobs :
         \/ SubmitStep(j) \/ SubmitHeartbeat(j) \/ SubmitErr(j) \/ SubmitPersistLost(j)
         \/ SubmitCrash(j) \/ SubmitReplay(j)
         \/ CancelRead(j) \/ CancelStep(j) \/ CancelErr(j) \/ CancelCrash(j)
         \/ AgeJob(j) \/ RecoveryStep(j) \/ RecoverErr(j) \/ RecoverCrash(j)
         \/ ProviderStep(j) \/ DeleteOutput(j)
         \/ MoverTick(j) \/ StaleTick(j) \/ LockTTL(j) \/ ActiveAge(j)
    \/ \E w \in Workers :
         ProcessStep(w) \/ ProcessFault(w) \/ RunOnceStep(w) \/ RunOnceFault(w)

PSpec == PInit /\ [][PNext]_pvars

\* Handlers, workers, tickers and the provider keep going; clients and faults
\* owe nothing.
PFairness ==
    /\ \A j \in Jobs :
         /\ WF_pvars(SubmitStep(j) /\ spc[j] # "start")
         /\ WF_pvars(CancelStep(j))
         /\ WF_pvars(RecoveryStep(j))
         /\ WF_pvars(AgeJob(j) /\ UNCHANGED outages)
         /\ WF_pvars(ProviderStep(j))
         /\ WF_pvars(MoverTick(j)) /\ WF_pvars(StaleTick(j))
         /\ WF_pvars(LockTTL(j)) /\ WF_pvars(ActiveAge(j))
    /\ \A w \in Workers : WF_pvars(ProcessStep(w) \/ RunOnceStep(w))

PFairSpec == PSpec /\ PFairness

-----------------------------------------------------------------------------
(* Properties.                                                              *)

\* The funds of j are frozen and nothing has been done with them yet.
HoldOpen(j) == Moved("hold", j) /\ ~ Moved("capture", j) /\ ~ Moved("release", j)

\* Nobody is working on j and nothing will wake it up.
AtRest(j) ==
    /\ spc[j] \in {"done", "dead"} /\ cpc[j] = "idle" /\ rpc[j] = "idle"
    /\ ~ InReady(j) /\ j \notin active \cup delayed
    /\ \A w \in Workers : wjob[w] # j

\* A job the provider works on is always backed by frozen funds: no refund by
\* Submit, Cancel, the recovery or a worker overtakes the submission, whatever
\* fails or is delayed (billing_recovery.go:53-55).
LiveJobsFunded ==
    \A j \in Jobs :
      status[j] \in {"submitted", "running", "indexing"} /\ Hold[j] > 0 => HoldOpen(j)

\* A job is only completed once its capture has committed, and stays so.
CompletedCharged ==
    \A j \in Jobs : status[j] \in {"completed", "output_deleted"} => Moved("capture", j)

\* A user is charged for a job only while it settles or once it is completed,
\* never for one that ends failed or cancelled.
ChargedOnlyIfCompleted ==
    \A j \in Jobs :
      Moved("capture", j) => status[j] \in {"settling", "completed", "output_deleted"}

\* The funds of a job are charged or given back, never both: a release that finds
\* the hold already captured would pay with money frozen for other jobs.  The
\* release itself only looks for the hold's claim (batchImageHoldClaimExists).
ChargedOrReturned == \A j \in Jobs : ~ (Moved("capture", j) /\ Moved("release", j))

\* The funds of a job that ended are never left frozen with nobody to free them.
NoStrandedHold ==
    \A j \in Jobs : IsTerminal(status[j]) /\ AtRest(j) => ~ HoldOpen(j)

\* A batch job that runs upstream belongs to a job the workers follow: as long as
\* no call failed and the client did not call again, none is left running for a
\* job that the recovery failed and refunded under a slow Submit
\* (abortOrphanProviderJob).
NoOrphanUpstream ==
    \A j \in Jobs :
      /\ faults = 0 /\ calls[j] = 0
      /\ spc[j] = "done" /\ prov[j] \in {"queued", "running"}
      => status[j] \in {"submitted", "running"}

\* The status of a job only moves along the transition table.
LegalTransitions ==
    [][\A j \in Jobs :
         status'[j] # status[j] =>
           status[j] = "none" \/ CanTransition(status[j], status'[j])]_pvars

\* The funds as the user sees them.
Fund(j) ==
    IF Moved("capture", j) /\ Moved("release", j) THEN "charged and returned"
    ELSE IF Moved("capture", j) THEN "charged"
    ELSE IF Moved("release", j) THEN "returned"
    ELSE IF Moved("hold", j) THEN "frozen"
    ELSE "free"

\* External: what the provider delivered.
Worth(j) == IF output[j] = BadOutput THEN 0 ELSE output[j]

Contract == INSTANCE BatchImageHold
    WITH Initial <- InitialBalance, money <- balance,
         fund <- [j \in Jobs |-> Fund(j)], worth <- [j \in Jobs |-> Worth(j)]

\* The pipeline implements the billing contract: every job's funds are frozen
\* at most once and then charged or given back, never both, and the charge is
\* what the provider delivered ("only successful images are charged").
HoldContract == Contract!HSpec

\* A job handed to the queue eventually ends, and frozen funds are eventually
\* charged or given back.
QueuedJobEnds ==
    \A j \in Jobs :
      /\ j \in inflight ~> IsTerminal(status[j])
      /\ HoldOpen(j) ~> ~ HoldOpen(j)
=============================================================================
