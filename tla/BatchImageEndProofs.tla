------------------------ MODULE BatchImageEndProofs ------------------------
(***************************************************************************)
(* What a batch image job leaves behind when it ends: nothing running        *)
(* upstream (NoOrphanUpstream) and nothing frozen (NoStrandedHold).          *)
(***************************************************************************)
EXTENDS BatchImageContractProofs

-----------------------------------------------------------------------------
(***************************************************************************)
(* The upstream job.  Until the first fault the only steps are those of      *)
(* BatchImageContractProofs (CalmStep, ProcessStep) and of the queue, so its *)
(* frames are used here.                                                     *)
(***************************************************************************)

Running == {"queued", "running"}
Ended == {"succeeded", "failed", "cancelled"}

\* Stages a worker reaches only with an answer of the provider that is final.
Answered == {"indexing", "index", "settling", "failed", "cancelled"}

\* The upstream job exists once provider.Submit returned; while it runs, Submit
\* is about to record or to abort it, or the row says that it runs.
UpstreamJob(j) ==
    /\ prov[j] # "none" => spc[j] \in {"persist"} \cup Submitted
    /\ status[j] = "indexing" => prov[j] \in Ended
    /\ calls[j] = 0 => cpc[j] = "idle"
    /\ calls[j] = 0 /\ prov[j] \in Running /\ spc[j] \notin {"persist", "abort"}
         => status[j] \in {"submitted", "running"}

UpstreamStage(w) == stage[w] \in Answered => prov[wjob[w]] \in Ended

UpstreamInv ==
    faults = 0 => (\A j \in Jobs : UpstreamJob(j)) /\ (\A w \in Workers : UpstreamStage(w))

\* The steps that count no fault.
LEMMA FaultFree ==
    ASSUME PTypeOK, [PNext]_pvars, faults' = 0
    PROVE  /\ faults = 0
           /\ \/ \E j \in Jobs : CalmStep(j)
              \/ \E w \in Workers : ProcessStep(w)
              \/ \E w \in Workers : RunOnceStep(w) \/ RunOnceFault(w)
              \/ \E j \in Jobs : MoverTick(j) \/ StaleTick(j) \/ LockTTL(j) \/ ActiveAge(j)
              \/ UNCHANGED pvars
<1>1. faults \in Nat
  BY PTypeParts, QueueAssumption DEF QTypeOK
<1>2. ~ Fault
  BY <1>1 DEF Fault
<1>3. ASSUME NEW j \in Jobs, ApiStep(j) PROVE CalmStep(j)
  BY <1>2, <1>3 DEF ApiStep, CalmStep, SubmitErr, SubmitPersistLost, SubmitCrash, CancelErr,
                    CancelCrash, RecoverErr, RecoverCrash
<1>4. ASSUME NEW w \in Workers PROVE ~ ProcessFault(w)
  BY <1>2 DEF ProcessFault, CaptureErr, RecordSettlementFailureErr, ExhaustReleaseErr,
              ProcessErr, TransitionLost
<1>5. ASSUME NEW j \in Jobs, CalmStep(j) PROVE UNCHANGED faults
  BY <1>5
     DEF CalmStep, SubmitStep, SubmitCreate, SubmitReserve, SubmitItems, SubmitUpload,
         SubmitProvider, SubmitPersist, SubmitAbort, SubmitEnqueue, SubmitRelease, SubmitRecord,
         SubmitRecordQueue, SubmitHeartbeat, SubmitReplay, CancelRead, CancelStep,
         CancelProvider, CancelTransition, CancelRelease, CancelEnqueue, AgeJob, RecoveryStep,
         RecoverFail, RecoverRelease, RecoverEnqueue, ProviderStep, DeleteOutput
<1>6. ASSUME NEW w \in Workers, ProcessStep(w) PROVE UNCHANGED faults
  BY <1>6
     DEF ProcessStep, ProcessRead, ProviderLookup, ProviderGet, ProviderTransition,
         ProcessRelease, Index, Settle, Capture, RecordSettlementFailure, ExhaustRelease,
         ExhaustRecord, ExhaustFail, MarkSettled
<1>7. ASSUME NEW w \in Workers, RunOnceStep(w) \/ RunOnceFault(w) PROVE faults = 0
  BY <1>1, <1>7
     DEF RunOnceStep, RunOnceFault, Reserve, RequeueConflict, Requeue, Ack, ReleaseLock,
         TryAcquireJobLock, TryAcquireJobLockFails, QueueCallFails, Heartbeat, Stall, Crash
<1>8. ASSUME NEW j \in Jobs, MoverTick(j) \/ StaleTick(j) \/ LockTTL(j) \/ ActiveAge(j)
      PROVE UNCHANGED faults
  BY <1>8 DEF MoverTick, StaleTick, LockTTL, ActiveAge, MoveDueDelayed, RecoverStaleActive,
              ExpireLock, AgeActive
<1>9. ASSUME UNCHANGED pvars PROVE UNCHANGED faults
  BY <1>9 DEF pvars, qvars
<1> QED
  BY <1>3, <1>4, <1>5, <1>6, <1>7, <1>8, <1>9 DEF PNext, ApiStep

\* A call is never taken back, and Cancel is one.
LEMMA CallsCounted ==
    ASSUME ApiTyped, NEW j \in Jobs, CalmStep(j), NEW k \in Jobs
    PROVE  /\ calls'[k] = 0 => calls[k] = 0
           /\ k # j => calls'[k] = calls[k]
           /\ calls'[j] = 0 /\ cpc[j] = "idle" => cpc'[j] = "idle"
<1>1. ASSUME UNCHANGED <<calls, cpc>>
      PROVE  /\ calls'[k] = 0 => calls[k] = 0
             /\ k # j => calls'[k] = calls[k]
             /\ calls'[j] = 0 /\ cpc[j] = "idle" => cpc'[j] = "idle"
  BY <1>1
<1>2. ASSUME calls' = [calls EXCEPT ![j] = @ + 1]
      PROVE  calls'[j] # 0 /\ (k # j => calls'[k] = calls[k])
  BY <1>2 DEF ApiTyped
<1>3. ASSUME cpc[j] # "idle", UNCHANGED calls
      PROVE  /\ calls'[k] = 0 => calls[k] = 0
             /\ k # j => calls'[k] = calls[k]
             /\ calls'[j] = 0 /\ cpc[j] = "idle" => cpc'[j] = "idle"
  BY <1>3
<1>4. CASE SubmitStep(j)
  BY <1>1, <1>4
     DEF SubmitStep, SubmitCreate, SubmitReserve, SubmitItems, SubmitUpload, SubmitProvider,
         SubmitPersist, SubmitAbort, SubmitEnqueue, SubmitRelease, SubmitRecord,
         SubmitRecordQueue, SubmitGoto
<1>5. CASE SubmitHeartbeat(j) \/ AgeJob(j) \/ RecoveryStep(j) \/ ProviderStep(j)
  BY <1>1, <1>5
     DEF SubmitHeartbeat, AgeJob, RecoveryStep, RecoverFail, RecoverRelease, RecoverEnqueue,
         RecoveryGoto, ProviderStep, apiVars
<1>6. CASE CancelRead(j) \/ SubmitReplay(j) \/ DeleteOutput(j)
  BY <1>2, <1>6 DEF CancelRead, SubmitReplay, DeleteOutput
<1>7. CASE CancelStep(j)
  BY <1>3, <1>7
     DEF CancelStep, CancelProvider, CancelTransition, CancelRelease, CancelEnqueue, CancelGoto
<1> QED BY <1>4, <1>5, <1>6, <1>7 DEF CalmStep

-----------------------------------------------------------------------------
(* What a step does to the upstream job of j.                               *)

\* An upstream job that exists only runs on, and a final answer stays.
ProvForward(j) ==
    \/ prov'[j] = prov[j]
    \/ prov[j] \in Running /\ prov'[j] \in {"running"} \cup Ended

\* While Submit stays where it is, nobody closes the row of a job that runs.
LEMMA UpstreamRow ==
    ASSUME WorkersClose, \A w \in Workers : UpstreamStage(w),
           NEW j \in Jobs, UpstreamJob(j), RowMove(j), ProvForward(j), spc'[j] = spc[j],
           calls'[j] = 0 => calls[j] = 0 /\ cpc'[j] = "idle"
    PROVE  UpstreamJob(j)'
<1> USE DEF Running, Ended
<1>1. prov'[j] # "none" => spc'[j] \in {"persist"} \cup Submitted
  BY DEF UpstreamJob, ProvForward
<1>2. CASE status'[j] = status[j]
  BY <1>1, <1>2 DEF UpstreamJob, ProvForward
<1>3. CASE prov[j] = "none" /\ status'[j] # "indexing"
  BY <1>1, <1>3 DEF UpstreamJob, ProvForward
<1>4. CASE prov[j] \in Ended
  BY <1>1, <1>4 DEF UpstreamJob, ProvForward
<1>5. CASE calls[j] # 0 /\ status'[j] # "indexing"
  BY <1>1, <1>5 DEF UpstreamJob, ProvForward
<1>6. CASE status'[j] = "running"
  BY <1>1, <1>6 DEF UpstreamJob, ProvForward
<1>7. CASE status[j] \in {"created", "uploading", "completed"} \cup Past /\ status'[j] # "indexing"
  BY <1>1, <1>7 DEF UpstreamJob, ProvForward, Past
<1>8. ASSUME NEW w \in Workers, wjob[w] = j,
             stage[w] = status'[j],
             stage[w] \in {"indexing", "failed", "cancelled", "settling"}
      PROVE  prov[j] \in Ended
  BY <1>8 DEF UpstreamStage, Answered
<1>9. ASSUME NEW w \in Workers, wjob[w] = j, stage[w] \in {"exhaustFail", "mark"}
      PROVE  status[j] \in Past
  BY <1>9 DEF WorkersClose, Closing
<1>10. CASE spc[j] \in {"start", "upload", "record", "recordRetry"} /\ status'[j] # "indexing"
  <2>1. prov[j] = "none"
    BY <1>10 DEF UpstreamJob, Submitted
  <2> QED BY <1>3, <1>10, <2>1
<1>11. CASE cpc[j] = "transition" /\ status'[j] = "cancelled"
  <2>1. calls[j] # 0
    BY <1>11 DEF UpstreamJob
  <2> QED BY <1>5, <1>11, <2>1
<1> QED
  BY <1>2, <1>4, <1>6, <1>7, <1>8, <1>9, <1>10, <1>11 DEF RowMove

\* Submit: nothing runs upstream before provider.Submit returned, and a job whose
\* record is refused is aborted.
LEMMA SubmitUpstream ==
    ASSUME PTypeOK, LiveFunded, NEW j \in Jobs, UpstreamJob(j), SubmitStep(j)
    PROVE  UpstreamJob(j)' /\ (prov[j] \in Ended => prov'[j] \in Ended)
<1> USE DEF Running, Ended
<1>1. RowTyped /\ ProvTyped /\ ApiTyped
  BY PTypeParts
<1>2. ASSUME NEW p, SubmitGoto(j, p)
      PROVE  spc'[j] = p /\ cpc'[j] = cpc[j] /\ calls'[j] = calls[j]
  BY <1>1, <1>2 DEF SubmitGoto, ApiTyped
<1>3. ASSUME spc[j] \notin {"persist"} \cup Submitted
      PROVE  prov[j] = "none" /\ status[j] \notin Live
  BY <1>3 DEF UpstreamJob, LiveFunded
<1>4. ASSUME NEW p, SubmitGoto(j, p), spc[j] \notin {"persist"} \cup Submitted,
             UNCHANGED prov, status'[j] # "indexing" \/ UNCHANGED status
      PROVE  UpstreamJob(j)'
  BY <1>2, <1>3, <1>4 DEF UpstreamJob, Live
<1>5. ASSUME NEW s \in Statuses, SetStatus(j, s) PROVE status'[j] = s
  BY <1>1, <1>5 DEF SetStatus, RowTyped
<1>6. CASE SubmitCreate(j)
  <2>1. status'[j] = "created"
    BY <1>5, <1>6 DEF SubmitCreate, Statuses
  <2> QED BY <1>4, <1>6, <2>1 DEF SubmitCreate, Submitted, provVars
<1>7. CASE SubmitReserve(j) \/ SubmitItems(j) \/ SubmitRelease(j)
  BY <1>4, <1>7
     DEF SubmitReserve, SubmitItems, SubmitRelease, Submitted, jobVars, provVars
<1>8. CASE SubmitUpload(j)
  <2>1. status'[j] # "indexing" \/ UNCHANGED status
    BY <1>5, <1>8 DEF SubmitUpload, Transition, Statuses, jobVars
  <2> QED BY <1>4, <1>8, <2>1 DEF SubmitUpload, Submitted, provVars
<1>9. CASE SubmitProvider(j)
  <2>1. spc[j] = "provider" /\ UNCHANGED status
    BY <1>9 DEF SubmitProvider, jobVars
  <2>2. prov[j] = "none" /\ status[j] \notin Live
    BY <1>3, <2>1 DEF Submitted
  <2>3. CASE prov' = [prov EXCEPT ![j] = "queued"] /\ SubmitGoto(j, "persist")
    BY <1>1, <1>2, <2>1, <2>2, <2>3 DEF UpstreamJob, ProvTyped, Live
  <2>4. CASE UNCHANGED prov /\ SubmitGoto(j, "release")
    BY <1>4, <2>1, <2>2, <2>4 DEF Submitted
  <2> QED BY <1>9, <2>3, <2>4, <2>2 DEF SubmitProvider
<1>10. CASE SubmitPersist(j)
  <2>1. spc[j] = "persist" /\ UNCHANGED prov
    BY <1>10 DEF SubmitPersist, provVars
  <2>2. CASE SubmitGoto(j, "enqueue") /\ SetStatus(j, "submitted")
    <3>1. status'[j] = "submitted"
      BY <1>5, <2>2 DEF Statuses
    <3> QED BY <1>2, <2>1, <2>2, <3>1 DEF UpstreamJob, Submitted
  <2>3. CASE SubmitGoto(j, "abort") /\ UNCHANGED jobVars
    BY <1>2, <2>1, <2>3 DEF UpstreamJob, Submitted, jobVars
  <2> QED BY <1>10, <2>2, <2>3 DEF SubmitPersist
<1>11. CASE SubmitAbort(j)
  <2>1. /\ UNCHANGED status /\ spc'[j] = "done" /\ cpc'[j] = cpc[j] /\ calls'[j] = calls[j]
    BY <1>2, <1>11 DEF SubmitAbort, jobVars
  <2>2. prov'[j] = IF prov[j] \in Running THEN "cancelled" ELSE prov[j]
    BY <1>1, <1>11 DEF SubmitAbort, ProviderCancel, ProvTyped
  <2> QED BY <2>1, <2>2 DEF UpstreamJob, Submitted
<1>12. CASE SubmitEnqueue(j) \/ SubmitRecordQueue(j)
  <2>1. /\ UNCHANGED <<status, prov>> /\ spc[j] \in {"enqueue", "retry", "recordQueue"}
        /\ spc'[j] = "done" /\ cpc'[j] = cpc[j] /\ calls'[j] = calls[j]
    BY <1>2, <1>12 DEF SubmitEnqueue, SubmitRecordQueue, jobVars, provVars
  <2> QED BY <2>1 DEF UpstreamJob, Submitted
<1>13. CASE SubmitRecord(j)
  <2>1. status'[j] = "failed"
    BY <1>5, <1>13 DEF SubmitRecord, RecordSubmitFailure, Statuses
  <2> QED BY <1>4, <1>13, <2>1 DEF SubmitRecord, Submitted, provVars
<1>14. prov[j] \in Ended => prov'[j] \in Ended
  <2>1. CASE SubmitProvider(j)
    BY <1>3, <2>1 DEF SubmitProvider, Submitted
  <2>2. CASE SubmitAbort(j)
    BY <2>2 DEF SubmitAbort, ProviderCancel
  <2>3. CASE ~ SubmitProvider(j) /\ ~ SubmitAbort(j)
    BY <2>3
       DEF SubmitStep, SubmitCreate, SubmitReserve, SubmitItems, SubmitUpload, SubmitPersist,
           SubmitEnqueue, SubmitRelease, SubmitRecord, SubmitRecordQueue, provVars
  <2> QED BY <2>1, <2>2, <2>3
<1> QED
  BY <1>6, <1>7, <1>8, <1>9, <1>10, <1>11, <1>12, <1>13, <1>14 DEF SubmitStep

\* The other steps of the API leave Submit where it is.
LEMMA ApiUpstream ==
    ASSUME PipelineInv, \A w \in Workers : UpstreamStage(w), [PNext]_pvars,
           NEW j \in Jobs, UpstreamJob(j), CalmStep(j)
    PROVE  UpstreamJob(j)' /\ (prov[j] \in Ended => prov'[j] \in Ended)
<1>1. PTypeOK /\ ProvTyped /\ ApiTyped /\ WorkersClose /\ LiveFunded
  BY PTypeParts DEF PipelineInv
<1>2. CASE SubmitStep(j)
  BY <1>1, <1>2, SubmitUpstream
<1>3. CASE ~ SubmitStep(j)
  <2>1. spc'[j] = spc[j]
    BY <1>3
       DEF CalmStep, SubmitHeartbeat, SubmitReplay, CancelRead, CancelStep, CancelProvider,
           CancelTransition, CancelRelease, CancelEnqueue, CancelGoto, AgeJob, RecoveryStep,
           RecoverFail, RecoverRelease, RecoverEnqueue, RecoveryGoto, ProviderStep,
           DeleteOutput, apiVars
  <2>2. ProvForward(j)
    <3> USE DEF ProvForward, Running, Ended
    <3>1. CASE ProviderStep(j)
      BY <1>1, <3>1 DEF ProviderStep, ProvTyped
    <3>2. CASE CancelProvider(j)
      BY <1>1, <3>2 DEF CancelProvider, ProviderCancel, ProvTyped
    <3>3. CASE ~ ProviderStep(j) /\ ~ CancelProvider(j)
      BY <1>3, <3>3
         DEF CalmStep, SubmitHeartbeat, SubmitReplay, CancelRead, CancelStep,
             CancelTransition, CancelRelease, CancelEnqueue, AgeJob, RecoveryStep,
             RecoverFail, RecoverRelease, RecoverEnqueue, DeleteOutput, provVars
    <3> QED BY <3>1, <3>2, <3>3
  <2>3. calls'[j] = 0 => calls[j] = 0 /\ cpc'[j] = "idle"
    BY <1>1, CallsCounted DEF UpstreamJob
  <2>4. RowMove(j)
    BY <1>1, PipelineRows
  <2>5. UpstreamJob(j)'
    BY <1>1, <2>1, <2>2, <2>3, <2>4, UpstreamRow
  <2> QED BY <2>2, <2>5 DEF ProvForward, Running, Ended
<1> QED BY <1>2, <1>3

\* A worker reaches an answered stage only from a final answer, and stays.
LEMMA ProcessAnswered ==
    ASSUME PTypeOK, NEW w \in Workers, ProcessStep(w), NEW j \in Jobs, j = wjob[w],
           UpstreamJob(j), UpstreamStage(w), stage'[w] \in Answered
    PROVE  prov[j] \in Ended
<1> USE DEF Answered, Ended
<1>1. ASSUME NEW p, Proceed(w, p)
      PROVE  stage'[w] = IF p \in {"ack", "requeue"} THEN "none" ELSE p
  BY <1>1, Proceeds
<1>2. stage[w] \in Answered => prov[j] \in Ended
  BY DEF UpstreamStage
<1>3. CASE ProviderLookup(w)
  <2>1. stage'[w] \in {"release", "none", "index", "get"}
        /\ (stage'[w] = "index" => status[j] = "indexing")
    BY <1>1, <1>3 DEF ProviderLookup
  <2> QED BY <2>1 DEF UpstreamJob
<1>4. CASE ProviderGet(w)
  BY <1>1, <1>4 DEF ProviderGet
<1>5. CASE ProviderTransition(w)
  <2>1. PICK to \in {"running", "indexing", "failed", "cancelled", "settling"} :
          /\ stage[w] = to
          /\ \/ Proceed(w, "requeue")
             \/ Proceed(w, CASE to \in {"running", "settling"} -> "requeue"
                             [] to = "indexing"                -> "index"
                             [] OTHER                          -> "release")
    BY <1>5 DEF ProviderTransition, At
  <2> QED BY <1>1, <1>2, <2>1
<1>6. CASE Index(w)
  BY <1>2, <1>6 DEF Index, At
<1>7. CASE ProcessRead(w) \/ ProcessRelease(w)
  BY <1>1, <1>7 DEF ProcessRead, ProcessRelease
<1>8. CASE Settle(w)
  BY <1>1, <1>8 DEF Settle
<1>9. CASE Capture(w)
  BY <1>1, <1>9 DEF Capture
<1>10. CASE RecordSettlementFailure(w) \/ ExhaustRelease(w) \/ ExhaustRecord(w)
  BY <1>1, <1>10
     DEF RecordSettlementFailure, ExhaustRelease, ExhaustRecord, AfterFailure,
         AfterBillingFailed
<1>11. CASE ExhaustFail(w) \/ MarkSettled(w)
  BY <1>1, <1>11 DEF ExhaustFail, MarkSettled
<1> QED
  BY <1>3, <1>4, <1>5, <1>6, <1>7, <1>8, <1>9, <1>10, <1>11 DEF ProcessStep

-----------------------------------------------------------------------------
(* The whole step.                                                          *)

\* Every step keeps the upstream jobs accounted for.
LEMMA UpstreamStep ==
    ASSUME PipelineInv, UpstreamInv, [PNext]_pvars
    PROVE  UpstreamInv'
<1> SUFFICES ASSUME faults' = 0
             PROVE  (\A k \in Jobs : UpstreamJob(k)') /\ (\A v \in Workers : UpstreamStage(v)')
  BY DEF UpstreamInv
<1>1. PTypeOK /\ LedgerInv /\ WorkersClose
  BY DEF PipelineInv
<1>2. /\ faults = 0
      /\ \/ \E j \in Jobs : CalmStep(j)
         \/ \E w \in Workers : ProcessStep(w)
         \/ \E w \in Workers : RunOnceStep(w) \/ RunOnceFault(w)
         \/ \E j \in Jobs : MoverTick(j) \/ StaleTick(j) \/ LockTTL(j) \/ ActiveAge(j)
         \/ UNCHANGED pvars
  BY <1>1, FaultFree
<1>3. (\A k \in Jobs : UpstreamJob(k)) /\ (\A v \in Workers : UpstreamStage(v))
  BY <1>2 DEF UpstreamInv
<1>4. ASSUME NEW v \in Workers, stage[v] # "none" PROVE wjob[v] \in Jobs
  BY <1>1, <1>4, PTypeParts DEF StageTyped, QTypeOK
<1>5. ASSUME NEW k \in Jobs, Same(k), calls'[k] = calls[k] PROVE UpstreamJob(k)'
  BY <1>3, <1>5 DEF Same, RowSame, ProvSame, ApiSame, UpstreamJob
<1>6. ASSUME NEW v \in Workers, stage'[v] = stage[v],
             stage[v] # "none" =>
               wjob'[v] = wjob[v] /\ (prov[wjob[v]] \in Ended => prov'[wjob[v]] \in Ended)
      PROVE  UpstreamStage(v)'
  BY <1>3, <1>6 DEF UpstreamStage, Answered
<1>7. ASSUME NEW j \in Jobs, CalmStep(j)
      PROVE  (\A k \in Jobs : UpstreamJob(k)') /\ (\A v \in Workers : UpstreamStage(v)')
  <2>1. ApiTyped /\ UNCHANGED <<stage, wjob>>
    BY <1>1, <1>7, PTypeParts, ApiFrames DEF CalmStep, ApiStep
  <2>2. UpstreamJob(j)' /\ (prov[j] \in Ended => prov'[j] \in Ended)
    BY <1>3, <1>7, ApiUpstream
  <2>3. ASSUME NEW k \in Jobs, k # j PROVE Same(k) /\ calls'[k] = calls[k]
    BY <1>1, <1>7, <2>1, <2>3, CalmOthers, CallsCounted
  <2>4. ASSUME NEW k \in Jobs PROVE prov[k] \in Ended => prov'[k] \in Ended
    BY <2>2, <2>3 DEF Same, ProvSame
  <2> QED BY <1>4, <1>5, <1>6, <2>1, <2>2, <2>3, <2>4
<1>8. ASSUME NEW w \in Workers, ProcessStep(w)
      PROVE  (\A k \in Jobs : UpstreamJob(k)') /\ (\A v \in Workers : UpstreamStage(v)')
  <2>1. CalmProcess(w)
    BY <1>8 DEF CalmProcess
  <2>2. /\ wjob[w] \in Jobs /\ UNCHANGED <<provVars, apiVars>> /\ UNCHANGED wjob
        /\ \A v \in Workers : v # w => stage'[v] = stage[v]
    BY <1>1, <2>1, ProcessMoves, Proceeds
  <2>3. ASSUME NEW k \in Jobs PROVE UpstreamJob(k)'
    <3>1. RowMove(k)
      BY <1>1, PipelineRows
    <3>2. /\ ProvForward(k) /\ spc'[k] = spc[k]
          /\ calls'[k] = 0 => calls[k] = 0 /\ cpc'[k] = "idle"
      BY <1>3, <2>2 DEF ProvForward, provVars, apiVars, UpstreamJob
    <3> QED BY <1>1, <1>3, <3>1, <3>2, UpstreamRow
  <2>4. UpstreamStage(w)'
    <3> DEFINE j == wjob[w]
    <3>1. stage'[w] \in Answered => prov[j] \in Ended
      BY <1>1, <1>3, <1>8, <2>2, ProcessAnswered
    <3> QED BY <2>2, <3>1 DEF UpstreamStage, provVars
  <2>5. ASSUME NEW v \in Workers, v # w PROVE UpstreamStage(v)'
    BY <1>6, <2>2, <2>5 DEF provVars
  <2> QED BY <2>3, <2>4, <2>5
<1>9. ASSUME \/ \E w \in Workers : RunOnceStep(w) \/ RunOnceFault(w)
             \/ \E j \in Jobs : MoverTick(j) \/ StaleTick(j) \/ LockTTL(j) \/ ActiveAge(j)
             \/ UNCHANGED pvars
      PROVE  (\A k \in Jobs : UpstreamJob(k)') /\ (\A v \in Workers : UpstreamStage(v)')
  <2>1. /\ \A k \in Jobs : Same(k)
        /\ \A v \in Workers :
             \/ stage'[v] \in Vague
             \/ stage'[v] = stage[v] /\ wjob'[v] = wjob[v] /\ wjob[v] \in Jobs
    BY <1>1, <1>9, QueueKeeps
  <2>2. UNCHANGED calls
    BY <1>9 DEF RunOnceStep, RunOnceFault, MoverTick, StaleTick, LockTTL, ActiveAge,
                QueueFrame, apiVars, pvars
  <2>3. ASSUME NEW v \in Workers PROVE UpstreamStage(v)'
    <3>1. CASE stage'[v] \in Vague
      BY <3>1 DEF UpstreamStage, Answered, Vague
    <3>2. CASE stage'[v] = stage[v] /\ wjob'[v] = wjob[v] /\ wjob[v] \in Jobs
      BY <1>6, <2>1, <3>2 DEF Same, ProvSame
    <3> QED BY <2>1, <3>1, <3>2
  <2> QED BY <1>5, <2>1, <2>2, <2>3
<1> QED BY <1>2, <1>7, <1>8, <1>9

LEMMA UpstreamInit == PInit => UpstreamInv
BY DEF PInit, UpstreamInv, UpstreamJob, UpstreamStage, Answered, Running

\* As long as no call has failed, no batch job is left running upstream for a job
\* that the recovery closed and refunded under a slow Submit: Submit aborts it
\* when its record is refused (abortOrphanProviderJob), and no worker closes the
\* job before the provider's final answer.  For any number of jobs, workers
\* and outages; a job the client called again about is excepted.
THEOREM NoOrphanUpstreamHolds == PSpec => []NoOrphanUpstream
<1>1. PipelineInv /\ UpstreamInv /\ [PNext]_pvars => UpstreamInv'
  BY UpstreamStep
<1>2. UpstreamInv => NoOrphanUpstream
  BY DEF UpstreamInv, UpstreamJob, NoOrphanUpstream, Running
<1>3. PSpec => []UpstreamInv
  BY <1>1, UpstreamInit, PipelineInvariant, PTL DEF PSpec
<1> QED BY <1>2, <1>3, PTL

-----------------------------------------------------------------------------
(***************************************************************************)
(* The frozen funds.  Here workers crash and their calls fail; the rest of   *)
(* the environment is calm.                                                  *)
(***************************************************************************)

\* Submit has not yet handed the job to the provider.
Opening == {"start", "reserve"} \cup Funding

\* Somebody holds the batch id, or will be given it.
Queued(j) == InReady(j) \/ j \in active \cup delayed \/ \E w \in Workers : wjob[w] = j

\* Somebody still has to give the funds of j back.
Owed(j) ==
    \/ spc[j] \in {"release", "releaseOnly", "recordRetry", "retry"}
    \/ cpc[j] \in {"release", "retry"} \/ rpc[j] \in {"release", "retry"}
    \/ j \in inflight

\* Claims come before money, and a release that was claimed gave the hold back:
\* it was not claimed before there was a hold.
ClaimsInv(j) ==
    /\ \A d \in Kinds : Moved(d, j) => Claimed(d, j)
    /\ Claimed("release", j) /\ Moved("hold", j) => Moved("release", j)
    /\ spc[j] \in {"start", "reserve"} => ~ Claimed("release", j)

\* The recovery leaves a Submit that runs alone, and the funds of a closed job
\* are owed to somebody; a job the queue knows is in flight until it ended.
OwedInv(j) ==
    /\ j \in stale => spc[j] \in {"done", "dead"}
    /\ spc[j] \in Opening => status[j] \in {"none", "created", "uploading"}
    /\ spc[j] = "record" => ~ HoldOpen(j)
    /\ HoldOpen(j) /\ status[j] \in Closed => Owed(j)
    /\ Queued(j) /\ ~ IsTerminal(status[j]) => j \in inflight

Exiting == {"capture", "recordFailure", "exhaust", "exhaustRecord", "exhaustFail"}

\* A worker acknowledges a job only when nothing is frozen for it any more.
AckInv(w) ==
    LET j == wjob[w]
    IN  /\ wpc[w] = "ack" => IsTerminal(status[j]) /\ ~ HoldOpen(j)
        /\ stage[w] = "lookup" => status[j] # "settling"
        /\ stage[w] \in Exiting => status[j] = "settling"
        /\ stage[w] = "release" => status[j] \in Closed
        /\ stage[w] = "exhaustFail" => ~ HoldOpen(j)

StrandedInv ==
    /\ Ground
    /\ \A j \in Jobs : ClaimsInv(j) /\ OwedInv(j)
    /\ \A w \in Workers : AckInv(w)

\* A release that reports success leaves nothing frozen.
LEMMA ReleaseFrees ==
    ASSUME Calm, LTypeOK, NEW j \in Jobs, ClaimsInv(j), ReleaseTx(j), Released(j)
    PROVE  ~ HoldOpen(j)'
<1>1. Hold[j] > 0 /\ Hold[j] \in Nat
  BY LedgerAssumption DEF Calm
<1>2. CASE ReleaseResult(j) = "ok"
  BY <1>2 DEF ReleaseTx, HoldOpen, Moved
<1>3. CASE ReleaseResult(j) # "ok"
  <2>1. UNCHANGED moved
    BY <1>3 DEF ReleaseTx, lvars
  <2>2. ~ Claimed("hold", j) \/ Claimed("release", j)
    BY <1>1, <1>3 DEF Released, ReleaseResult, ClaimResult
  <2> QED BY <2>1, <2>2 DEF ClaimsInv, HoldOpen, Moved, Kinds
<1> QED BY <1>2, <1>3

\* What the transactions do to the funds and claims of k.
LEMMA FundsMove ==
    ASSUME Ground, LedgerMove, NEW k \in Jobs
    PROVE  /\ HoldOpen(k)' => HoldOpen(k) \/ spc[k] = "reserve"
           /\ Moved("hold", k)' => Moved("hold", k) \/ spc[k] = "reserve"
           /\ \A d \in Kinds : Moved(d, k) => Moved(d, k)'
           /\ Claimed("release", k) => Claimed("release", k)'
           /\ Claimed("release", k)' =>
                \/ Claimed("release", k)
                \/ Releasing(k) /\ (Claimed("hold", k) => Moved("release", k)')
           /\ (\A d \in Kinds : Moved(d, k) => Claimed(d, k))
                => \A d \in Kinds : Moved(d, k)' => Claimed(d, k)'
<1>0. PTypeOK /\ LTypeOK /\ LedgerInv /\ moved \subseteq moved'
  BY PTypeParts, LedgerMoveKeeps DEF Ground, PipelineInv
<1>1. \A d \in Kinds : Moved(d, k) => Moved(d, k)'
  BY <1>0 DEF Moved
<1> USE DEF Kinds
<1>2. CASE UNCHANGED lvars
  BY <1>2 DEF lvars, Moved, Claimed, HoldOpen
<1>3. ASSUME NEW j \in Jobs, ReserveTx(j), spc[j] = "reserve" PROVE
           /\ Moved("hold", k)' => Moved("hold", k) \/ spc[k] = "reserve"
           /\ Claimed("release", k)' <=> Claimed("release", k)
           /\ (\A d \in Kinds : Moved(d, k) => Claimed(d, k))
                => \A d \in Kinds : Moved(d, k)' => Claimed(d, k)'
  <2>1. moved' \subseteq moved \cup {<<"hold", j>>}
    BY <1>3 DEF ReserveTx, lvars
  <2>2. claim'[<<"release", k>>] = claim[<<"release", k>>]
    BY <1>0, <1>3 DEF ReserveTx, lvars, SetClaim, LTypeOK, RequestIDs
  <2>3. (\A d \in Kinds : Moved(d, k) => Claimed(d, k))
                => \A d \in Kinds : Moved(d, k)' => Claimed(d, k)'
    BY <1>0, <1>3, TxFacts
  <2> QED BY <1>3, <2>1, <2>2, <2>3 DEF Moved, Claimed
<1>4. ASSUME NEW j \in Jobs, ReleaseTx(j), Releasing(j) PROVE
           /\ Moved("hold", k)' => Moved("hold", k)
           /\ Claimed("release", k) => Claimed("release", k)'
           /\ Claimed("release", k)' =>
                \/ Claimed("release", k)
                \/ Releasing(k) /\ (Claimed("hold", k) => Moved("release", k)')
           /\ (\A d \in Kinds : Moved(d, k) => Claimed(d, k))
                => \A d \in Kinds : Moved(d, k)' => Claimed(d, k)'
  <2>1. moved' \subseteq moved \cup {<<"release", j>>}
    BY <1>4 DEF ReleaseTx, lvars
  <2>2. (\A d \in Kinds : Moved(d, k) => Claimed(d, k))
                => \A d \in Kinds : Moved(d, k)' => Claimed(d, k)'
    BY <1>0, <1>4, TxFacts
  <2>3. CASE k # j
    <3>1. LedgerSame(k)
      BY <1>0, <1>4, <2>3, TxFacts
    <3> QED BY <2>1, <2>2, <3>1 DEF LedgerSame, Claimed, Moved
  <2>4. CASE k = j
    <3>1. CASE ReleaseResult(j) = "ok"
      <4>1. claim'[<<"release", j>>] = RequestFp /\ Moved("release", j)'
        BY <1>0, <1>4, <3>1 DEF ReleaseTx, SetClaim, LTypeOK, RequestIDs, Moved
      <4> QED BY <1>4, <2>1, <2>2, <2>4, <4>1 DEF Claimed, NoClaim, RequestFp, Moved
    <3>2. CASE ReleaseResult(j) = "phantom"
      <4>1. claim'[<<"release", j>>] = RequestFp
        BY <1>0, <1>4, <3>2 DEF ReleaseTx, SetClaim, LTypeOK, RequestIDs, Moved
      <4>2. ~ Claimed("hold", j)
        BY <3>2 DEF ReleaseResult, ClaimResult
      <4> QED BY <1>4, <2>1, <2>2, <2>4, <4>1, <4>2 DEF Claimed, NoClaim, RequestFp, Moved
    <3>3. CASE UNCHANGED lvars
      BY <2>2, <3>3 DEF lvars, Claimed, Moved
    <3> QED BY <1>4, <3>1, <3>2, <3>3 DEF ReleaseTx
  <2> QED BY <2>3, <2>4
<1>5. ASSUME NEW w \in Workers, CaptureTx(wjob[w], cost[wjob[w]]), wpc[w] = "processing" PROVE
           /\ Moved("hold", k)' => Moved("hold", k)
           /\ Claimed("release", k)' <=> Claimed("release", k)
           /\ (\A d \in Kinds : Moved(d, k) => Claimed(d, k))
                => \A d \in Kinds : Moved(d, k)' => Claimed(d, k)'
  <2>1. wjob[w] \in Jobs /\ cost[wjob[w]] \in Nat
    BY <1>0, <1>5, PTypeParts DEF QTypeOK, RowTyped
  <2>2. moved' \subseteq moved \cup {<<"capture", wjob[w]>>}
    BY <1>5 DEF CaptureTx, lvars
  <2>3. claim'[<<"release", k>>] = claim[<<"release", k>>]
    BY <1>0, <1>5, <2>1 DEF CaptureTx, lvars, SetClaim, LTypeOK, RequestIDs
  <2>4. (\A d \in Kinds : Moved(d, k) => Claimed(d, k))
                => \A d \in Kinds : Moved(d, k)' => Claimed(d, k)'
    BY <1>0, <1>5, <2>1, TxFacts
  <2> QED BY <2>2, <2>3, <2>4 DEF Moved, Claimed
<1>6. HoldOpen(k)' => HoldOpen(k) \/ (Moved("hold", k)' /\ ~ Moved("hold", k))
  BY <1>1 DEF HoldOpen
<1> QED BY <1>1, <1>2, <1>3, <1>4, <1>5, <1>6 DEF LedgerMove

-----------------------------------------------------------------------------
(* The queue.                                                               *)

\* What a push adds to the ready list.
LEMMA PushOnly ==
    ASSUME NEW s \in Seq(Jobs), ready \in Seq(Jobs), ready' = s \o ready, NEW k, InReady(k)'
    PROVE  InReady(k) \/ \E i \in 1..Len(s) : s[i] = k
<1>1. PICK i \in 1..Len(s \o ready) : (s \o ready)[i] = k
  BY DEF InReady
<1>2. CASE i \in 1..Len(s)
  BY <1>1, <1>2
<1>3. CASE i \notin 1..Len(s)
  <2>1. i - Len(s) \in 1..Len(ready) /\ (s \o ready)[i] = ready[i - Len(s)]
    BY <1>3
  <2> QED BY <1>1, <2>1 DEF InReady
<1> QED BY <1>2, <1>3

\* A job comes to the queue with its inflight key, and only Ack takes that away.
EntryMove(k) ==
    /\ Queued(k)' => Queued(k) \/ k \in inflight'
    /\ k \in inflight => k \in inflight' \/ \E w \in Workers : wpc[w] = "ack" /\ wjob[w] = k

LEMMA ApiEntry ==
    ASSUME QTypeOK, NEW j \in Jobs, ApiStep(j), NEW k \in Jobs
    PROVE  EntryMove(k)
<1>1. ASSUME UNCHANGED <<redis, wjob>> PROVE EntryMove(k)
  BY <1>1 DEF EntryMove, Queued, InReady, redis
<1>2. ASSUME EnqueueScript(j), UNCHANGED wjob PROVE EntryMove(k)
  <2>1. CASE j \in inflight
    BY <1>2, <2>1 DEF EnqueueScript, EntryMove, Queued, InReady
  <2>2. CASE j \notin inflight
    <3>1. <<j>> \in Seq(Jobs) /\ ready \in Seq(Jobs) /\ ready' = <<j>> \o ready
      BY <1>2, <2>2 DEF EnqueueScript, QTypeOK
    <3>2. InReady(k)' => InReady(k) \/ \E i \in 1..Len(<<j>>) : <<j>>[i] = k
      BY <3>1, PushOnly
    <3>3. InReady(k)' => InReady(k) \/ k = j
      BY <3>2
    <3> QED BY <1>2, <2>2, <3>3 DEF EnqueueScript, EntryMove, Queued
  <2> QED BY <2>1, <2>2
<1>3. ASSUME ApiFrame PROVE EntryMove(k)
  BY <1>1, <1>3 DEF ApiFrame, worker
<1>4. ASSUME SubmitStep(j) PROVE EntryMove(k)
  BY <1>2, <1>3, <1>4
     DEF SubmitStep, SubmitCreate, SubmitReserve, SubmitItems, SubmitUpload, SubmitProvider,
         SubmitPersist, SubmitAbort, SubmitEnqueue, SubmitRelease, SubmitRecord,
         SubmitRecordQueue, worker
<1>5. ASSUME SubmitHeartbeat(j) \/ SubmitErr(j) \/ SubmitPersistLost(j) \/ SubmitCrash(j)
             \/ SubmitReplay(j)
      PROVE EntryMove(k)
  BY <1>2, <1>3, <1>5
     DEF SubmitHeartbeat, SubmitErr, SubmitPersistLost, SubmitCrash, SubmitReplay, worker
<1>6. ASSUME CancelRead(j) \/ CancelStep(j) \/ CancelErr(j) \/ CancelCrash(j) PROVE EntryMove(k)
  BY <1>2, <1>3, <1>6
     DEF CancelRead, CancelStep, CancelProvider, CancelTransition, CancelRelease,
         CancelEnqueue, CancelErr, CancelCrash, worker
<1>7. ASSUME RecoveryStep(j) \/ RecoverErr(j) \/ RecoverCrash(j) PROVE EntryMove(k)
  BY <1>2, <1>3, <1>7
     DEF RecoveryStep, RecoverFail, RecoverRelease, RecoverEnqueue, RecoverErr, RecoverCrash,
         worker
<1>8. ASSUME ProviderStep(j) \/ DeleteOutput(j) PROVE EntryMove(k)
  BY <1>3, <1>8 DEF ProviderStep, DeleteOutput
<1>9. ASSUME AgeJob(j) PROVE EntryMove(k)
  BY <1>1, <1>9 DEF AgeJob, worker
<1> QED BY <1>4, <1>5, <1>6, <1>7, <1>8, <1>9 DEF ApiStep

LEMMA RunOnceEntry ==
    ASSUME QTypeOK, NEW w \in Workers, RunOnceStep(w) \/ RunOnceFault(w), NEW k \in Jobs
    PROVE  EntryMove(k)
<1>1. ASSUME UNCHANGED <<ready, inflight>>,
             k \in active' \cup delayed' => Queued(k),
             \A v \in Workers : wjob'[v] \in {wjob[v], NoJob}
      PROVE  EntryMove(k)
  BY <1>1, QueueAssumption DEF EntryMove, Queued, InReady
<1>2. ASSUME GoIdle(w) \/ UNCHANGED wjob, NEW v \in Workers PROVE wjob'[v] \in {wjob[v], NoJob}
  BY <1>2 DEF GoIdle, QTypeOK
<1>3. CASE Reserve(w)
  <2> DEFINE j == ready[Len(ready)]
             rest == SubSeq(ready, 1, Len(ready) - 1)
  <2>1. /\ Len(ready) \in Nat /\ Len(ready) > 0 /\ ready' = rest /\ active' = active \cup {j}
        /\ wjob' = [wjob EXCEPT ![w] = j] /\ UNCHANGED <<delayed, inflight>>
    BY <1>3 DEF Reserve, QTypeOK
  <2>2. InReady(k)' => InReady(k)
    <3>1. ready \in Seq(Jobs) /\ ready # <<>>
      BY <1>3 DEF Reserve, QTypeOK
    <3>2. Len(rest) = Len(ready) - 1 /\ \A i \in 1..Len(rest) : rest[i] = ready[i]
      BY <3>1, PopShape
    <3> HIDE DEF rest
    <3>3. \A i \in 1..Len(rest) : i \in 1..Len(ready)
      BY <2>1, <3>2
    <3> QED BY <2>1, <3>2, <3>3 DEF InReady
  <2>3. InReady(j)
    BY <2>1 DEF InReady
  <2>4. \A v \in Workers : wjob'[v] \in {wjob[v], j}
    BY <2>1 DEF QTypeOK
  <2> QED BY <2>1, <2>2, <2>3, <2>4 DEF EntryMove, Queued
<1>4. CASE RequeueConflict(w) \/ Requeue(w)
  BY <1>1, <1>2, <1>4 DEF RequeueConflict, Requeue, RequeueAfter, Goto, Queued
<1>5. CASE Ack(w)
  <2>1. /\ UNCHANGED <<ready, wjob>> /\ wpc[w] = "ack"
        /\ active' \subseteq active /\ delayed' \subseteq delayed
        /\ inflight' = inflight \ {wjob[w]}
    BY <1>5 DEF Ack, AckPipeline, Goto
  <2> QED BY <2>1 DEF EntryMove, Queued, InReady
<1>6. CASE ReleaseLock(w) \/ TryAcquireJobLock(w) \/ TryAcquireJobLockFails(w)
           \/ Heartbeat(w) \/ Stall(w)
  BY <1>1, <1>2, <1>6
     DEF ReleaseLock, TryAcquireJobLock, TryAcquireJobLockFails, Heartbeat, Stall, Goto, redis,
         Queued
<1>7. CASE QueueCallFails(w) \/ Crash(w)
  BY <1>1, <1>2, <1>7 DEF QueueCallFails, Crash, Goto, redis, Queued
<1> QED BY <1>3, <1>4, <1>5, <1>6, <1>7 DEF RunOnceStep, RunOnceFault

LEMMA PipelineEntry ==
    ASSUME PTypeOK, [PNext]_pvars, NEW k \in Jobs PROVE EntryMove(k)
<1>0. QTypeOK
  BY PTypeParts
<1>1. ASSUME UNCHANGED <<redis, wjob>> PROVE EntryMove(k)
  BY <1>1 DEF EntryMove, Queued, InReady, redis
<1>2. ASSUME NEW S \in SUBSET Jobs, NEW s \in Orders(S), ready' = s \o ready,
             S \subseteq active \cup delayed, active' \subseteq active,
             delayed' \subseteq delayed, UNCHANGED <<inflight, wjob>>
      PROVE  EntryMove(k)
  <2>1. s \in Seq(Jobs) /\ \A i \in 1..Len(s) : s[i] \in S
    <3>1. s \in Seq(Jobs)
      BY <1>2, OrdersCover
    <3>2. s \in [1..Cardinality(S) -> S]
      BY <1>2 DEF Orders
    <3>3. \A i \in DOMAIN s : s[i] \in S
      BY <3>2
    <3> QED BY <3>1, <3>3
  <2>2. InReady(k)' => InReady(k) \/ k \in S
    BY <1>0, <1>2, <2>1, PushOnly DEF QTypeOK
  <2> QED BY <1>2, <2>2 DEF EntryMove, Queued
<1>3. ASSUME NEW j \in Jobs, MoverTick(j) \/ StaleTick(j) PROVE EntryMove(k)
  BY <1>0, <1>2, <1>3
     DEF MoverTick, StaleTick, MoveDueDelayed, RecoverStaleActive, worker, QTypeOK
<1>4. ASSUME NEW j \in Jobs, LockTTL(j) \/ ActiveAge(j) PROVE EntryMove(k)
  BY <1>4 DEF LockTTL, ActiveAge, ExpireLock, AgeActive, worker, EntryMove, Queued, InReady
<1>5. ASSUME UNCHANGED pvars PROVE EntryMove(k)
  BY <1>1, <1>5 DEF pvars, qvars, redis
<1>6. ASSUME NEW w \in Workers, ProcessStep(w) \/ ProcessFault(w) PROVE EntryMove(k)
  <2>1. UNCHANGED redis
    BY <1>6
       DEF ProcessStep, ProcessFault, ProcessRead, ProviderLookup, ProviderGet,
           ProviderTransition, ProcessRelease, Index, Settle, Capture,
           RecordSettlementFailure, ExhaustRelease, ExhaustRecord, ExhaustFail, MarkSettled,
           CaptureErr, RecordSettlementFailureErr, ExhaustReleaseErr, ProcessErr,
           TransitionLost, ProcFrame
  <2>2. \E p : Proceed(w, p)
    BY <1>6
       DEF ProcessStep, ProcessFault, ProcessRead, ProviderLookup, ProviderGet,
           ProviderTransition, ProcessRelease, Index, Settle, Capture,
           RecordSettlementFailure, ExhaustRelease, ExhaustRecord, ExhaustFail, MarkSettled,
           CaptureErr, RecordSettlementFailureErr, ExhaustReleaseErr, ProcessErr,
           TransitionLost
  <2>3. UNCHANGED wjob
    BY <2>2, Proceeds
  <2> QED BY <1>1, <2>1, <2>3
<1> QED
  BY <1>0, <1>3, <1>4, <1>5, <1>6, ApiEntry, RunOnceEntry DEF PNext, ApiStep

-----------------------------------------------------------------------------
(* Who owes the funds of a closed job.                                      *)

\* The hold of j is given back, or there is nothing to give back.
Freed(j) == ReleaseTx(j) /\ Released(j)

\* How the handlers of j take the duty to give its funds back, and leave it.
OwedMove(j) ==
    /\ j \in stale' => j \in stale \/ spc'[j] \in {"done", "dead"}
    /\ spc[j] \in {"done", "dead"} => spc'[j] \in {"done", "dead"}
    /\ spc'[j] = "record" =>
         spc[j] = "record" \/ (spc[j] = "reserve" /\ UNCHANGED lvars) \/ Freed(j)
    /\ Owed(j) =>
         Owed(j)' \/ Freed(j) \/ \E w \in Workers : wpc[w] = "ack" /\ wjob[w] = j
    /\ status[j] \notin Closed /\ status'[j] \in Closed =>
         \/ cpc[j] = "transition" /\ cpc'[j] = "release"
         \/ j \in stale /\ rpc'[j] = "release"
         \/ spc[j] = "record" \/ (spc[j] = "recordRetry" /\ spc'[j] = "retry")
         \/ \E w \in Workers : wjob[w] = j /\ stage[w] \in {"failed", "cancelled", "exhaustFail"}

\* Statuses that last.
LEMMA EndsLast ==
    ASSUME Ground, NEW k \in Jobs, RowMove(k)
    PROVE  /\ IsTerminal(status[k]) => IsTerminal(status'[k])
           /\ status[k] \in Closed => status'[k] \in Closed
           /\ IsTerminal(status[k]) /\ status'[k] \in Closed => status[k] \in Closed
<1>1. spc[k] = "start" => status[k] = "none"
  BY DEF Ground, PipelineInv, SubmitFunds
<1>2. IsTerminal(status[k]) /\ CanTransition(status[k], status'[k])
        => status'[k] = "output_deleted"
  BY DEF CanTransition
<1>3. spc[k] \in {"record", "recordRetry"} => status[k] \notin {"completed", "output_deleted"}
  BY DEF Ground, Unsubmitted, Submitted
<1> QED BY <1>1, <1>2, <1>3 DEF RowMove, IsTerminal, Closed

\* A Submit that has not handed its job over is left alone.
LEMMA OpeningAlone ==
    ASSUME Ground, NEW k \in Jobs, OwedInv(k), spc[k] \in Opening
    PROVE  /\ status[k] \in {"none", "created", "uploading"}
           /\ cpc[k] = "idle" /\ k \notin stale /\ ~ Releasing(k)
           /\ \A w \in Workers : wjob[w] = k => stage[w] \notin Following \cup Closing
<1>1. status[k] \in {"none", "created", "uploading"} /\ k \notin stale
  BY DEF OwedInv, Opening, Funding
<1>2. spc[k] \notin Submitted /\ spc[k] \notin {"release", "releaseOnly"}
  BY DEF Opening, Funding, Submitted
<1>3. cpc[k] = "idle" /\ k \notin named
  BY <1>2 DEF Ground, Unsubmitted
<1>4. status[k] \notin Past
  BY <1>1 DEF Past
<1>5. ~ Releasing(k)
  BY <1>2, <1>4, ReleasingClosed DEF Ground
<1>6. \A w \in Workers : wjob[w] = k => stage[w] \notin Following \cup Closing
  BY <1>3, <1>4 DEF Ground, PipelineInv, WorkersFollow, WorkersClose
<1> QED BY <1>1, <1>3, <1>5, <1>6

\* A worker that acknowledges has nothing left to free.
LEMMA AckFacts ==
    ASSUME StrandedInv, NEW w \in Workers, NEW k \in Jobs, wpc[w] = "ack", wjob[w] = k
    PROVE  IsTerminal(status[k]) /\ ~ HoldOpen(k)
BY DEF StrandedInv, AckInv

\* A step keeps the claims of k and what is owed for it.
LEMMA OwedStep ==
    ASSUME Calm, StrandedInv, LedgerMove, NEW k \in Jobs,
           RowMove(k), PlaceMove(k), EntryMove(k), OwedMove(k)
    PROVE  ClaimsInv(k)' /\ OwedInv(k)'
<1>1. Ground /\ PipelineInv /\ LTypeOK /\ ClaimsInv(k) /\ OwedInv(k)
  BY PTypeParts DEF StrandedInv, Ground, PipelineInv
<1>2. /\ HoldOpen(k)' => HoldOpen(k) \/ spc[k] = "reserve"
      /\ Moved("hold", k)' => Moved("hold", k) \/ spc[k] = "reserve"
      /\ \A d \in Kinds : Moved(d, k) => Moved(d, k)'
      /\ Claimed("release", k)' =>
           \/ Claimed("release", k)
           \/ Releasing(k) /\ (Claimed("hold", k) => Moved("release", k)')
      /\ (\A d \in Kinds : Moved(d, k) => Claimed(d, k))
           => \A d \in Kinds : Moved(d, k)' => Claimed(d, k)'
  BY <1>1, FundsMove
<1>3. /\ spc[k] \in Opening => status[k] \in {"none", "created", "uploading"}
      /\ spc[k] \in Opening => cpc[k] = "idle" /\ k \notin stale /\ ~ Releasing(k)
      /\ spc[k] \in Opening =>
           \A w \in Workers : wjob[w] = k => stage[w] \notin Following \cup Closing
  BY <1>1, OpeningAlone
<1>4. /\ IsTerminal(status[k]) => IsTerminal(status'[k])
      /\ status[k] \in Closed => status'[k] \in Closed
      /\ IsTerminal(status[k]) /\ status'[k] \in Closed => status[k] \in Closed
  BY <1>1, EndsLast
<1>5. ASSUME NEW w \in Workers, wpc[w] = "ack", wjob[w] = k
      PROVE  IsTerminal(status[k]) /\ ~ HoldOpen(k)
  BY <1>5, AckFacts
<1>6. Freed(k) => ~ HoldOpen(k)'
  BY <1>1, ReleaseFrees DEF Freed
<1>7. {"start", "reserve"} \subseteq Opening
  BY DEF Opening
<1>8. ClaimsInv(k)'
  <2>1. \A d \in Kinds : Moved(d, k)' => Claimed(d, k)'
    BY <1>1, <1>2 DEF ClaimsInv
  <2>2. Claimed("release", k)' /\ Moved("hold", k)' => Moved("release", k)'
    BY <1>1, <1>2, <1>3, <1>7 DEF ClaimsInv, Kinds
  <2>3. spc'[k] \in {"start", "reserve"} => ~ Claimed("release", k)'
    BY <1>1, <1>2, <1>3, <1>7 DEF ClaimsInv, PlaceMove
  <2> QED BY <2>1, <2>2, <2>3 DEF ClaimsInv, Claimed, Moved
<1>9. k \in stale' => spc'[k] \in {"done", "dead"}
  BY <1>1 DEF OwedInv, OwedMove
<1>10. spc'[k] \in Opening => status'[k] \in {"none", "created", "uploading"}
  <2> SUFFICES ASSUME spc'[k] \in Opening PROVE status'[k] \in {"none", "created", "uploading"}
    OBVIOUS
  <2>1. spc[k] \in Opening
    BY DEF PlaceMove, Opening, Funding
  <2>2. status'[k] \notin Closed
    BY <1>3, <2>1 DEF OwedMove, Opening, Funding, Following, Closing, Closed
  <2> QED BY <1>3, <2>1, <2>2 DEF RowMove, Opening, Funding, Following, Closing, Closed
<1>11. spc'[k] = "record" => ~ HoldOpen(k)'
  <2>1. CASE spc[k] = "record"
    BY <1>1, <1>2, <2>1 DEF OwedInv
  <2>2. CASE spc[k] = "reserve" /\ UNCHANGED lvars
    <3>1. status[k] \notin Past
      BY <1>3, <1>7, <2>2 DEF Past
    <3>2. ~ Moved("hold", k)
      BY <1>1, <2>2, <3>1 DEF PipelineInv, SubmitFunds, Kinds
    <3> QED BY <2>2, <3>2 DEF HoldOpen, Moved, lvars
  <2> QED BY <1>6, <2>1, <2>2 DEF OwedMove
<1>12. HoldOpen(k)' /\ status'[k] \in Closed => Owed(k)'
  <2> SUFFICES ASSUME HoldOpen(k)', status'[k] \in Closed, ~ Owed(k)' PROVE FALSE
    OBVIOUS
  <2>1. CASE status[k] \in Closed
    <3>1. HoldOpen(k)
      BY <1>2, <1>3, <1>7, <2>1 DEF Closed
    <3>2. Owed(k)
      BY <1>1, <2>1, <3>1 DEF OwedInv
    <3> QED BY <1>5, <1>6, <3>1, <3>2 DEF OwedMove
  <2>2. CASE status[k] \notin Closed
    <3>1. cpc'[k] # "release" /\ rpc'[k] # "release" /\ spc'[k] # "retry" /\ k \notin inflight'
      BY DEF Owed
    <3>2. spc[k] = "record" => FALSE
      BY <1>1, <1>2 DEF OwedInv
    <3>3. ASSUME NEW w \in Workers, wjob[w] = k PROVE FALSE
      <4>1. ~ IsTerminal(status[k])
        BY <1>4, <2>2
      <4>2. k \in inflight
        BY <1>1, <3>3, <4>1 DEF OwedInv, Queued
      <4> QED BY <1>5, <3>1, <4>1, <4>2 DEF EntryMove
    <3> QED BY <2>2, <3>1, <3>2, <3>3 DEF OwedMove
  <2> QED BY <2>1, <2>2
<1>13. Queued(k)' /\ ~ IsTerminal(status'[k]) => k \in inflight'
  BY <1>1, <1>4, <1>5 DEF OwedInv, EntryMove
<1> QED
  BY <1>8, <1>9, <1>10, <1>11, <1>12, <1>13 DEF OwedInv, Owed, Queued, HoldOpen, Moved, InReady

\* A step that leaves k and its place alone.
LEMMA SameOwed ==
    ASSUME NEW k \in Jobs, ApiSame(k), EntryMove(k), k \in stale' => k \in stale,
           status'[k] = status[k]
    PROVE  OwedMove(k)
BY DEF ApiSame, EntryMove, OwedMove, Owed

\* Submit gives the funds back, or leaves it to the queue.
LEMMA SubmitOwes ==
    ASSUME PTypeOK, NEW j \in Jobs, SubmitStep(j), EntryMove(j) PROVE OwedMove(j)
<1>0. RowTyped /\ ApiTyped
  BY PTypeParts
<1> DEFINE Kept == j \in inflight =>
                     j \in inflight' \/ \E w \in Workers : wpc[w] = "ack" /\ wjob[w] = j
<1>1. Kept
  BY DEF EntryMove
<1> HIDE DEF Kept
<1>2. ASSUME NEW p, SubmitGoto(j, p)
      PROVE  spc'[j] = p /\ cpc'[j] = cpc[j] /\ rpc'[j] = rpc[j]
  BY <1>0, <1>2 DEF SubmitGoto, ApiTyped
<1>3. \A s : SetStatus(j, s) => status'[j] = s /\ j \notin stale'
  BY <1>0 DEF SetStatus, RowTyped
<1>4. UNCHANGED jobVars => status'[j] = status[j] /\ (j \in stale' => j \in stale)
  BY DEF jobVars
<1>5. CASE SubmitCreate(j)
  BY <1>1, <1>2, <1>3, <1>5 DEF SubmitCreate, OwedMove, Owed, Kept, Closed
<1>6. CASE SubmitReserve(j)
  <2>1. spc'[j] = "record" => UNCHANGED lvars
    BY <1>2, <1>6 DEF SubmitReserve, ReserveTx
  <2>2. spc'[j] \in {"items", "record"} /\ spc[j] = "reserve"
    BY <1>2, <1>6 DEF SubmitReserve
  <2>3. cpc'[j] = cpc[j] /\ rpc'[j] = rpc[j]
    BY <1>2, <1>6 DEF SubmitReserve
  <2> QED BY <1>1, <1>4, <1>6, <2>1, <2>2, <2>3 DEF SubmitReserve, OwedMove, Owed, Kept
<1>7. CASE SubmitItems(j) \/ SubmitAbort(j) \/ SubmitProvider(j)
  BY <1>1, <1>2, <1>4, <1>7 DEF SubmitItems, SubmitAbort, SubmitProvider, OwedMove, Owed, Kept
<1>8. CASE SubmitUpload(j) \/ SubmitPersist(j)
  BY <1>1, <1>2, <1>3, <1>4, <1>8
     DEF SubmitUpload, SubmitPersist, Transition, OwedMove, Owed, Kept, Closed
<1>9. CASE SubmitEnqueue(j)
  <2>1. j \in inflight'
    BY <1>9 DEF SubmitEnqueue, EnqueueScript
  <2> QED BY <1>2, <1>4, <1>9, <2>1 DEF SubmitEnqueue, OwedMove, Owed
<1>10. CASE SubmitRelease(j)
  <2>1. /\ spc[j] \in {"release", "releaseOnly"}
        /\ spc'[j] \in {"recordRetry", "record", "done"} /\ (spc'[j] # "recordRetry" => Freed(j))
    BY <1>2, <1>10 DEF SubmitRelease, Freed
  <2> QED BY <1>4, <1>10, <2>1 DEF SubmitRelease, OwedMove, Owed
<1>11. CASE SubmitRecord(j)
  <2>1. /\ spc[j] \in {"record", "recordRetry"} /\ j \notin stale'
        /\ spc'[j] = IF spc[j] = "record" THEN "done" ELSE "retry"
        /\ cpc'[j] = cpc[j] /\ rpc'[j] = rpc[j]
    BY <1>2, <1>3, <1>11 DEF SubmitRecord, RecordSubmitFailure
  <2> QED BY <1>1, <2>1 DEF OwedMove, Owed, Kept
<1>12. CASE SubmitRecordQueue(j)
  BY <1>1, <1>2, <1>12 DEF SubmitRecordQueue, OwedMove, Owed, Kept
<1> QED
  BY <1>5, <1>6, <1>7, <1>8, <1>9, <1>10, <1>11, <1>12 DEF SubmitStep

\* So do Cancel and the recovery; the other calls owe nothing.
LEMMA CalmOwes ==
    ASSUME Calm, PTypeOK, NEW j \in Jobs, CalmStep(j), EntryMove(j) PROVE OwedMove(j)
<1>0. RowTyped /\ ApiTyped /\ QTypeOK
  BY PTypeParts
<1> DEFINE Kept == j \in inflight =>
                     j \in inflight' \/ \E w \in Workers : wpc[w] = "ack" /\ wjob[w] = j
<1>1. Kept
  BY DEF EntryMove
<1> HIDE DEF Kept
<1>2. ASSUME NEW p, CancelGoto(j, p)
      PROVE  cpc'[j] = p /\ spc'[j] = spc[j] /\ rpc'[j] = rpc[j]
  BY <1>0, <1>2 DEF CancelGoto, ApiTyped
<1>3. ASSUME NEW p, RecoveryGoto(j, p)
      PROVE  rpc'[j] = p /\ spc'[j] = spc[j] /\ cpc'[j] = cpc[j]
  BY <1>0, <1>3 DEF RecoveryGoto, ApiTyped
<1>4. \A s : SetStatus(j, s) => status'[j] = s /\ j \notin stale'
  BY <1>0 DEF SetStatus, RowTyped
<1>5. UNCHANGED jobVars => status'[j] = status[j] /\ (j \in stale' => j \in stale)
  BY DEF jobVars
<1>6. CASE SubmitHeartbeat(j) \/ SubmitReplay(j) \/ ProviderStep(j)
  BY <1>5, <1>6, SameOwed
     DEF SubmitHeartbeat, SubmitReplay, ProviderStep, apiVars, ApiSame
<1>7. CASE DeleteOutput(j)
  BY <1>1, <1>4, <1>7 DEF DeleteOutput, OwedMove, Owed, Kept, Closed
<1>8. CASE AgeJob(j)
  <2>1. outages \in Nat /\ outages <= 0
    BY <1>0 DEF QTypeOK, Calm
  <2>2. spc[j] \in {"done", "dead"}
    BY <1>8, <2>1 DEF AgeJob, Calm
  <2> QED BY <1>1, <1>8, <2>2 DEF AgeJob, apiVars, OwedMove, Owed, Kept
<1>9. CASE CancelRead(j)
  <2>1. cpc[j] = "idle" /\ spc'[j] = spc[j] /\ rpc'[j] = rpc[j]
    BY <1>9 DEF CancelRead
  <2>2. status'[j] = status[j] /\ (j \in stale' => j \in stale)
    BY <1>5, <1>9 DEF CancelRead
  <2> QED BY <1>1, <2>1, <2>2 DEF OwedMove, Owed, Kept
<1>10. CASE CancelProvider(j)
  BY <1>1, <1>2, <1>5, <1>10 DEF CancelProvider, OwedMove, Owed, Kept
<1>11. CASE CancelTransition(j)
  BY <1>1, <1>2, <1>4, <1>5, <1>11 DEF CancelTransition, Transition, OwedMove, Owed, Kept
<1>12. CASE CancelRelease(j)
  <2>1. cpc[j] = "release" /\ (cpc'[j] = "retry" \/ Freed(j)) /\ spc'[j] = spc[j]
    BY <1>2, <1>12 DEF CancelRelease, Freed
  <2> QED BY <1>5, <1>12, <2>1 DEF CancelRelease, OwedMove, Owed
<1>13. CASE CancelEnqueue(j) \/ RecoverEnqueue(j)
  <2>1. j \in inflight' /\ spc'[j] = spc[j] /\ UNCHANGED jobVars
    BY <1>2, <1>3, <1>13 DEF CancelEnqueue, RecoverEnqueue, EnqueueScript
  <2> QED BY <1>5, <2>1 DEF OwedMove, Owed
<1>14. CASE RecoverFail(j)
  BY <1>1, <1>3, <1>4, <1>14 DEF RecoverFail, OwedMove, Owed, Kept
<1>15. CASE RecoverRelease(j)
  <2>1. rpc[j] = "release" /\ (rpc'[j] = "retry" \/ Freed(j)) /\ spc'[j] = spc[j]
    BY <1>3, <1>15 DEF RecoverRelease, Freed
  <2> QED BY <1>5, <1>15, <2>1 DEF RecoverRelease, OwedMove, Owed
<1> QED
  BY <1>6, <1>7, <1>8, <1>9, <1>10, <1>11, <1>12, <1>13, <1>14, <1>15, SubmitOwes
     DEF CalmStep, CancelStep, RecoveryStep

\* A worker closes a job at its last stages, and takes nobody's duty.
LEMMA ProcessOwes ==
    ASSUME PTypeOK, NEW w \in Workers, ProcessStep(w) \/ ProcessFault(w), NEW k \in Jobs,
           EntryMove(k)
    PROVE  OwedMove(k)
<1>0. RowTyped
  BY PTypeParts
<1>1. UNCHANGED apiVars
  BY ProcessFrames
<1>2. stale' \subseteq stale
  BY DEF ProcessStep, ProcessFault, ProcessRead, ProviderLookup, ProviderGet,
         ProviderTransition, ProcessRelease, Index, Settle, Capture, RecordSettlementFailure,
         ExhaustRelease, ExhaustRecord, ExhaustFail, MarkSettled, CaptureErr,
         RecordSettlementFailureErr, ExhaustReleaseErr, ProcessErr, TransitionLost,
         Transition, SetStatus, SetSettlementFailed, jobVars
<1>3. ASSUME UNCHANGED status, status'[k] # status[k] PROVE FALSE
  BY <1>3
<1>4. ASSUME NEW s, Transition(wjob[w], s) \/ SetStatus(wjob[w], s), status'[k] # status[k]
      PROVE  wjob[w] = k /\ status'[k] = s
  BY <1>0, <1>4 DEF Transition, SetStatus, RowTyped
<1>5. ASSUME ProviderTransition(w), status'[k] \in Closed, status'[k] # status[k]
      PROVE  wjob[w] = k /\ stage[w] \in {"failed", "cancelled", "exhaustFail"}
  <2>1. PICK to \in {"running", "indexing", "failed", "cancelled", "settling"} :
          stage[w] = to /\ (Transition(wjob[w], to) \/ UNCHANGED jobVars)
    BY <1>5 DEF ProviderTransition, At
  <2>2. Transition(wjob[w], to)
    BY <1>3, <1>5, <2>1 DEF jobVars
  <2> QED BY <1>4, <1>5, <2>1, <2>2 DEF Closed
<1>6. ASSUME ExhaustFail(w) \/ MarkSettled(w), status'[k] \in Closed, status'[k] # status[k]
      PROVE  wjob[w] = k /\ stage[w] \in {"failed", "cancelled", "exhaustFail"}
  <2>1. \/ stage[w] = "exhaustFail" /\ Transition(wjob[w], "failed")
        \/ SetStatus(wjob[w], "completed") \/ UNCHANGED jobVars
    BY <1>6 DEF ExhaustFail, MarkSettled, At
  <2> QED BY <1>3, <1>4, <1>6, <2>1 DEF Closed, jobVars
<1>7. ASSUME TransitionLost(w), status'[k] \in Closed, status'[k] # status[k]
      PROVE  wjob[w] = k /\ stage[w] \in {"failed", "cancelled", "exhaustFail"}
  <2>1. PICK to : /\ Transition(wjob[w], to)
                  /\ to \notin Closed \/ stage[w] \in {"failed", "cancelled", "exhaustFail"}
    BY <1>7 DEF TransitionLost, At, Closed
  <2> QED BY <1>4, <1>7, <2>1
<1>8. ASSUME ProcessRead(w) \/ ProviderLookup(w) \/ ProviderGet(w) \/ ProcessRelease(w)
             \/ Index(w) \/ Settle(w) \/ Capture(w) \/ RecordSettlementFailure(w)
             \/ ExhaustRelease(w) \/ ExhaustRecord(w) \/ CaptureErr(w)
             \/ RecordSettlementFailureErr(w) \/ ExhaustReleaseErr(w) \/ ProcessErr(w)
      PROVE  UNCHANGED status
  BY <1>8
     DEF ProcessRead, ProviderLookup, ProviderGet, ProcessRelease, Index, Settle, Capture,
         RecordSettlementFailure, ExhaustRelease, ExhaustRecord, CaptureErr,
         RecordSettlementFailureErr, ExhaustReleaseErr, ProcessErr, SetSettlementFailed, jobVars
<1>9. ASSUME status'[k] \in Closed, status'[k] # status[k]
      PROVE  wjob[w] = k /\ stage[w] \in {"failed", "cancelled", "exhaustFail"}
  BY <1>3, <1>5, <1>6, <1>7, <1>8, <1>9 DEF ProcessStep, ProcessFault
<1>10. /\ spc'[k] = spc[k] /\ cpc'[k] = cpc[k] /\ rpc'[k] = rpc[k]
       /\ k \in stale' => k \in stale
  BY <1>1, <1>2 DEF apiVars
<1> QED BY <1>9, <1>10 DEF OwedMove, Owed, EntryMove

\* The whole step.
LEMMA PipelineOwes ==
    ASSUME Calm, PTypeOK, [PNext]_pvars, NEW k \in Jobs PROVE OwedMove(k)
<1>0. EntryMove(k) /\ RowTyped /\ ApiTyped
  BY PipelineEntry, PTypeParts
<1>1. ASSUME UNCHANGED <<jobVars, apiVars>> PROVE OwedMove(k)
  BY <1>0, <1>1, SameOwed DEF jobVars, apiVars, ApiSame
<1>2. ASSUME NEW j \in Jobs, ApiStep(j) PROVE OwedMove(k)
  <2>1. CalmStep(j)
    BY <1>2, CalmApi
  <2>2. CASE k = j
    BY <1>0, <2>1, <2>2, CalmOwes
  <2>3. CASE k # j
    <3>1. RowSame(k) /\ ApiSame(k)
      BY <2>1, <2>3, CalmOthers DEF Same
    <3>2. stale' \subseteq stale \cup {j}
      BY <2>1
         DEF CalmStep, SubmitStep, SubmitCreate, SubmitReserve, SubmitItems, SubmitUpload,
             SubmitProvider, SubmitPersist, SubmitAbort, SubmitEnqueue, SubmitRelease,
             SubmitRecord, SubmitRecordQueue, SubmitHeartbeat, SubmitReplay, CancelRead,
             CancelStep, CancelProvider, CancelTransition, CancelRelease, CancelEnqueue,
             AgeJob, RecoveryStep, RecoverFail, RecoverRelease, RecoverEnqueue, ProviderStep,
             DeleteOutput, RecordSubmitFailure, Transition, SetStatus, jobVars
    <3> QED BY <1>0, <2>3, <3>1, <3>2, SameOwed DEF RowSame
  <2> QED BY <2>2, <2>3
<1>3. ASSUME NEW w \in Workers, RunOnceStep(w) \/ RunOnceFault(w) PROVE OwedMove(k)
  BY <1>1, <1>3 DEF RunOnceStep, RunOnceFault, QueueFrame
<1>4. ASSUME NEW j \in Jobs, MoverTick(j) \/ StaleTick(j) \/ LockTTL(j) \/ ActiveAge(j)
      PROVE OwedMove(k)
  BY <1>1, <1>4 DEF MoverTick, StaleTick, LockTTL, ActiveAge, QueueFrame
<1>5. ASSUME UNCHANGED pvars PROVE OwedMove(k)
  BY <1>1, <1>5 DEF pvars
<1> QED
  BY <1>0, <1>2, <1>3, <1>4, <1>5, ProcessOwes DEF PNext, ApiStep

-----------------------------------------------------------------------------
(* When a worker acknowledges.                                              *)

\* No API call settles a job or takes one out of settlement.
LEMMA CalmSettling ==
    ASSUME Ground, NEW j \in Jobs, CalmStep(j), NEW k \in Jobs
    PROVE  status'[k] = "settling" <=> status[k] = "settling"
<1>0. RowTyped /\ PTypeOK
  BY PTypeParts DEF Ground, PipelineInv
<1>1. ASSUME UNCHANGED status PROVE status'[k] = "settling" <=> status[k] = "settling"
  BY <1>1
<1>2. ASSUME NEW s, SetStatus(j, s) \/ Transition(j, s), s # "settling", status[j] # "settling"
      PROVE  status'[k] = "settling" <=> status[k] = "settling"
  BY <1>0, <1>2 DEF SetStatus, Transition, RowTyped
<1>3. \A s \in {"uploading", "submitted", "cancelled"} :
        CanTransition(status[j], s) => status[j] # "settling"
  BY DEF CanTransition, Allowed, IsTerminal
<1>4. ASSUME SubmitUpload(j) \/ SubmitPersist(j) \/ CancelTransition(j)
      PROVE  status'[k] = "settling" <=> status[k] = "settling"
  BY <1>1, <1>2, <1>3, <1>4
     DEF SubmitUpload, SubmitPersist, CancelTransition, Transition, jobVars
<1>5. ASSUME SubmitCreate(j) \/ SubmitRecord(j)
      PROVE  status'[k] = "settling" <=> status[k] = "settling"
  <2>1. spc[j] \notin Submitted
    BY <1>5 DEF SubmitCreate, SubmitRecord, Submitted
  <2>2. status[j] # "settling"
    BY <2>1, UnsubmittedFacts DEF Settled
  <2> QED BY <1>2, <1>5, <2>2 DEF SubmitCreate, SubmitRecord, RecordSubmitFailure
<1>6. ASSUME RecoverFail(j) \/ DeleteOutput(j)
      PROVE  status'[k] = "settling" <=> status[k] = "settling"
  BY <1>2, <1>6 DEF RecoverFail, DeleteOutput
<1>7. ASSUME SubmitReserve(j) \/ SubmitItems(j) \/ SubmitProvider(j) \/ SubmitAbort(j)
             \/ SubmitEnqueue(j) \/ SubmitRelease(j) \/ SubmitRecordQueue(j)
             \/ SubmitHeartbeat(j) \/ SubmitReplay(j) \/ CancelRead(j) \/ CancelProvider(j)
             \/ CancelRelease(j) \/ CancelEnqueue(j) \/ AgeJob(j) \/ RecoverRelease(j)
             \/ RecoverEnqueue(j) \/ ProviderStep(j)
      PROVE  UNCHANGED status
  BY <1>7
     DEF SubmitReserve, SubmitItems, SubmitProvider, SubmitAbort, SubmitEnqueue, SubmitRelease,
         SubmitRecordQueue, SubmitHeartbeat, SubmitReplay, CancelRead, CancelProvider,
         CancelRelease, CancelEnqueue, AgeJob, RecoverRelease, RecoverEnqueue, ProviderStep,
         jobVars
<1> QED
  BY <1>1, <1>4, <1>5, <1>6, <1>7 DEF CalmStep, SubmitStep, CancelStep, RecoveryStep

\* A job that is past Submit keeps its end and has no new hold.
LEMMA HoldsEnd ==
    ASSUME StrandedInv, LedgerMove, NEW k \in Jobs, RowMove(k)
    PROVE  /\ IsTerminal(status[k]) => IsTerminal(status'[k])
           /\ status[k] \in Closed => status'[k] \in Closed
           /\ IsTerminal(status[k]) \/ status[k] = "settling" =>
                (HoldOpen(k)' => HoldOpen(k))
<1>1. Ground /\ OwedInv(k)
  BY DEF StrandedInv
<1>2. spc[k] = "reserve" => status[k] \in {"none", "created", "uploading"}
  BY <1>1 DEF OwedInv, Opening
<1>3. HoldOpen(k)' => HoldOpen(k) \/ spc[k] = "reserve"
  BY <1>1, FundsMove
<1>4. /\ IsTerminal(status[k]) => IsTerminal(status'[k])
      /\ status[k] \in Closed => status'[k] \in Closed
  BY <1>1, EndsLast
<1> QED BY <1>2, <1>3, <1>4 DEF IsTerminal

\* What AckInv says after a step of a worker that keeps its job.
LEMMA AckPrimed ==
    ASSUME NEW w \in Workers, NEW k \in Jobs, wjob'[w] = k
    PROVE  AckInv(w)' <=>
        /\ wpc'[w] = "ack" => IsTerminal(status'[k]) /\ ~ HoldOpen(k)'
        /\ stage'[w] = "lookup" => status'[k] # "settling"
        /\ stage'[w] \in Exiting => status'[k] = "settling"
        /\ stage'[w] = "release" => status'[k] \in Closed
        /\ stage'[w] = "exhaustFail" => ~ HoldOpen(k)'
BY DEF AckInv, HoldOpen, Moved

\* A worker that is not moved.
LEMMA AckKept ==
    ASSUME StrandedInv, LedgerMove, NEW w \in Workers, NEW k \in Jobs, wjob[w] = k, RowMove(k),
           wjob'[w] = k, stage'[w] = stage[w], wpc'[w] = wpc[w],
           stage[w] # "none" => (status'[k] = "settling" <=> status[k] = "settling")
    PROVE  AckInv(w)'
<1>1. /\ IsTerminal(status[k]) => IsTerminal(status'[k])
      /\ status[k] \in Closed => status'[k] \in Closed
      /\ IsTerminal(status[k]) \/ status[k] = "settling" => (HoldOpen(k)' => HoldOpen(k))
  BY HoldsEnd
<1>2. /\ wpc[w] = "ack" => IsTerminal(status[k]) /\ ~ HoldOpen(k)
      /\ stage[w] = "lookup" => status[k] # "settling"
      /\ stage[w] \in Exiting => status[k] = "settling"
      /\ stage[w] = "release" => status[k] \in Closed
      /\ stage[w] = "exhaustFail" => ~ HoldOpen(k)
  BY DEF StrandedInv, AckInv
<1>3. "exhaustFail" \in Exiting /\ "none" \notin Exiting
  BY DEF Exiting
<1> QED BY <1>1, <1>2, <1>3, AckPrimed

\* A worker with nothing to acknowledge and nothing known of its job.
LEMMA AckFree ==
    ASSUME NEW w \in Workers, wpc'[w] # "ack",
           stage'[w] \notin Exiting \cup {"lookup", "release"}
    PROVE  AckInv(w)'
BY DEF AckInv, Exiting

\* The queue around Process acknowledges nothing and leaves the jobs alone.
LEMMA QueueAcks ==
    ASSUME PTypeOK,
           \/ \E w \in Workers : RunOnceStep(w) \/ RunOnceFault(w)
           \/ \E j \in Jobs : MoverTick(j) \/ StaleTick(j) \/ LockTTL(j) \/ ActiveAge(j)
           \/ UNCHANGED pvars,
           NEW v \in Workers
    PROVE  \/ wpc'[v] # "ack" /\ stage'[v] \in {"none", "read"}
           \/ stage'[v] = stage[v] /\ wjob'[v] = wjob[v] /\ wpc'[v] = wpc[v]
<1>0. StageTyped /\ QTypeOK
  BY PTypeParts
<1> DEFINE Left == \/ wpc'[v] # "ack" /\ stage'[v] \in {"none", "read"}
                   \/ stage'[v] = stage[v] /\ wjob'[v] = wjob[v] /\ wpc'[v] = wpc[v]
<1>1. ASSUME UNCHANGED <<stage, wpc, wjob>> PROVE Left
  BY <1>1
<1>2. ASSUME NEW w \in Workers, NEW p, wpc' = [wpc EXCEPT ![w] = p], p # "ack",
             UNCHANGED stage, v # w => wjob'[v] = wjob[v], wpc[w] # "processing"
      PROVE  Left
  BY <1>0, <1>2 DEF StageTyped, QTypeOK
<1>3. ASSUME NEW w \in Workers, Goto(w, "conflict") \/ Goto(w, "unlock") \/ GoIdle(w),
             UNCHANGED stage, wpc[w] # "processing"
      PROVE  Left
  BY <1>0, <1>2, <1>3 DEF Goto, GoIdle, QTypeOK
<1>4. ASSUME NEW w \in Workers, RunOnceStep(w) PROVE Left
  <2>1. CASE Reserve(w) /\ UNCHANGED stage
    BY <1>0, <1>2, <2>1 DEF Reserve, QTypeOK
  <2>2. CASE (RequeueConflict(w) \/ Requeue(w) \/ Ack(w) \/ ReleaseLock(w)) /\ UNCHANGED stage
    BY <1>3, <2>2 DEF RequeueConflict, Requeue, Ack, ReleaseLock
  <2>3. CASE /\ TryAcquireJobLock(w)
             /\ stage' = [stage EXCEPT ![w] = IF lock[wjob[w]] = NoWorker THEN "read" ELSE "none"]
    <3>1. /\ \E p \in {"processing", "conflict"} : wpc' = [wpc EXCEPT ![w] = p]
          /\ UNCHANGED wjob
      BY <2>3 DEF TryAcquireJobLock, Goto
    <3> QED BY <1>0, <2>3, <3>1 DEF StageTyped, QTypeOK
  <2> QED BY <1>4, <2>1, <2>2, <2>3 DEF RunOnceStep
<1>5. ASSUME NEW w \in Workers, RunOnceFault(w) PROVE Left
  <2>1. CASE (TryAcquireJobLockFails(w) \/ QueueCallFails(w)) /\ UNCHANGED stage
    BY <1>3, <2>1 DEF TryAcquireJobLockFails, QueueCallFails
  <2>2. CASE (Heartbeat(w) \/ Stall(w)) /\ UNCHANGED stage
    BY <1>1, <2>2 DEF Heartbeat, Stall
  <2>3. CASE Crash(w) /\ stage' = [stage EXCEPT ![w] = "none"]
    BY <1>0, <2>3 DEF Crash, GoIdle, StageTyped, QTypeOK
  <2> QED BY <1>5, <2>1, <2>2, <2>3 DEF RunOnceFault
<1>6. ASSUME NEW j \in Jobs, MoverTick(j) \/ StaleTick(j) \/ LockTTL(j) \/ ActiveAge(j)
      PROVE  Left
  BY <1>1, <1>6 DEF MoverTick, StaleTick, LockTTL, ActiveAge, MoveDueDelayed,
                    RecoverStaleActive, ExpireLock, AgeActive, worker
<1>7. ASSUME UNCHANGED pvars PROVE Left
  BY <1>1, <1>7 DEF pvars, qvars
<1> QED BY <1>4, <1>5, <1>6, <1>7

\* Where Process goes on, for its own worker.
LEMMA ProceedAcks ==
    ASSUME PTypeOK, NEW w \in Workers, NEW p, Proceed(w, p), wpc[w] = "processing"
    PROVE  /\ wpc'[w] = "ack" <=> p = "ack"
           /\ stage'[w] = IF p \in {"ack", "requeue"} THEN "none" ELSE p
           /\ UNCHANGED wjob
           /\ \A v \in Workers : v # w => stage'[v] = stage[v] /\ wpc'[v] = wpc[v]
<1>1. StageTyped /\ QTypeOK
  BY PTypeParts
<1> QED BY <1>1 DEF Proceed, Goto, worker, StageTyped, QTypeOK

\* Process reports a terminal result only for a job that ended and whose funds
\* are not frozen.
LEMMA ProcessAcks ==
    ASSUME Calm, StrandedInv, NEW w \in Workers, CalmProcess(w) PROVE AckInv(w)'
<1>0. PTypeOK /\ PipelineInv /\ RowTyped /\ LTypeOK
  BY PTypeParts DEF StrandedInv, Ground, PipelineInv
<1>1. PICK j \in Jobs : j = wjob[w]
  BY <1>0, ProcessMoves
<1>2. wpc[w] = "processing" /\ ClaimsInv(j)
  BY <1>0, ProcessMoves DEF StrandedInv
<1>3. /\ stage[w] = "lookup" => status[j] # "settling"
      /\ stage[w] \in Exiting => status[j] = "settling"
      /\ stage[w] = "release" => status[j] \in Closed
      /\ stage[w] = "exhaustFail" => ~ HoldOpen(j)
  BY <1>1 DEF StrandedInv, AckInv
<1>4. status[j] \in {"completed", "output_deleted"} => ~ HoldOpen(j)
  BY <1>0 DEF PipelineInv, CompletedCharged, HoldOpen
<1>5. UNCHANGED lvars => (HoldOpen(j)' <=> HoldOpen(j))
  BY DEF lvars, HoldOpen, Moved
<1>6. UNCHANGED jobVars => status'[j] = status[j]
  BY DEF jobVars
<1>7. ASSUME NEW p, Proceed(w, p),
             /\ p = "ack" => IsTerminal(status'[j]) /\ ~ HoldOpen(j)'
             /\ p = "lookup" => status'[j] # "settling"
             /\ p \in Exiting => status'[j] = "settling"
             /\ p = "release" => status'[j] \in Closed
             /\ p = "exhaustFail" => ~ HoldOpen(j)'
      PROVE  AckInv(w)'
  <2>1. /\ wpc'[w] = "ack" <=> p = "ack"
        /\ stage'[w] = IF p \in {"ack", "requeue"} THEN "none" ELSE p
        /\ wjob'[w] = j
    BY <1>0, <1>1, <1>2, <1>7, ProceedAcks
  <2>2. "none" \notin Exiting
    BY DEF Exiting
  <2> QED BY <1>7, <2>1, <2>2, AckPrimed
<1>8. ASSUME NEW p, Proceed(w, p), p \notin Exiting \cup {"ack", "lookup", "release"}
      PROVE  AckInv(w)'
  <2>1. "exhaustFail" \in Exiting
    BY DEF Exiting
  <2> QED BY <1>7, <1>8, <2>1
<1>9. "requeue" \notin Exiting \cup {"ack", "lookup", "release"}
  BY DEF Exiting
<1>10. CASE ProcessRead(w)
  <2>1. PICK p \in {"settle", "lookup"} :
          Proceed(w, p) /\ (p = "lookup" => status[j] # "settling")
    BY <1>1, <1>10 DEF ProcessRead
  <2>2. status'[j] = status[j]
    BY <1>6, <1>10 DEF ProcessRead
  <2> QED BY <1>7, <2>1, <2>2 DEF Exiting
<1>11. CASE ProviderLookup(w)
  <2>1. stage[w] = "lookup" /\ status'[j] = status[j] /\ (HoldOpen(j)' <=> HoldOpen(j))
    BY <1>5, <1>6, <1>11 DEF ProviderLookup, At
  <2>2. PICK p \in {"release", "ack", "requeue", "index", "get"} :
          /\ Proceed(w, p)
          /\ p = "release" => status[j] \in Closed
          /\ p = "ack" => status[j] \notin Closed /\ DoneStatus(status[j])
    BY <1>1, <1>11 DEF ProviderLookup, Closed
  <2>3. p = "ack" => status[j] \in {"completed", "output_deleted"}
    BY <1>3, <2>1, <2>2 DEF DoneStatus, IsTerminal, Closed
  <2> QED BY <1>4, <1>7, <2>1, <2>2, <2>3 DEF Exiting, IsTerminal
<1>12. CASE ProviderGet(w)
  <2>1. PICK p \in {"indexing", "running", "failed", "cancelled", "requeue"} : Proceed(w, p)
    BY <1>12, Zenon DEF ProviderGet
  <2> QED BY <1>8, <2>1 DEF Exiting
<1>13. CASE ProviderTransition(w)
  <2>1. PICK to \in {"running", "indexing", "failed", "cancelled", "settling"} :
          \/ /\ Transition(j, to)
             /\ Proceed(w, CASE to \in {"running", "settling"} -> "requeue"
                             [] to = "indexing"                -> "index"
                             [] OTHER                          -> "release")
          \/ Proceed(w, "requeue")
    BY <1>1, <1>13 DEF ProviderTransition
  <2>2. CASE Transition(j, to) /\ to \in {"running", "settling"} /\ Proceed(w, "requeue")
    BY <1>8, <1>9, <2>2
  <2>3. CASE Transition(j, to) /\ to = "indexing" /\ Proceed(w, "index")
    BY <1>8, <2>3 DEF Exiting
  <2>4. CASE Transition(j, to) /\ to \in Closed /\ Proceed(w, "release")
    <3>1. status'[j] \in Closed
      BY <1>0, <2>4 DEF Transition, SetStatus, RowTyped
    <3> QED BY <1>7, <2>4, <3>1 DEF Exiting
  <2>5. CASE Proceed(w, "requeue")
    BY <1>8, <1>9, <2>5
  <2> QED BY <2>1, <2>2, <2>3, <2>4, <2>5 DEF Closed
<1>14. CASE ProcessRelease(w)
  <2>1. /\ ReleaseTx(j) /\ status[j] \in Closed /\ status'[j] = status[j]
        /\ Released(j) => ~ HoldOpen(j)'
    BY <1>0, <1>1, <1>2, <1>3, <1>6, <1>14, ReleaseFrees DEF ProcessRelease, At
  <2>2. PICK p \in {"ack", "requeue"} : Proceed(w, p) /\ (p = "ack" => Released(j))
    BY <1>1, <1>14 DEF ProcessRelease
  <2> QED BY <1>7, <2>1, <2>2 DEF Exiting, Closed, IsTerminal
<1>15. CASE Index(w)
  <2>1. PICK p \in {"failed", "requeue", "settling"} : Proceed(w, p)
    BY <1>15 DEF Index
  <2> QED BY <1>8, <2>1 DEF Exiting
<1>16. CASE Settle(w)
  <2>1. status'[j] = status[j] /\ (HoldOpen(j)' <=> HoldOpen(j))
    BY <1>5, <1>6, <1>16 DEF Settle
  <2>2. PICK p \in {"ack", "requeue", "exhaust", "recordFailure", "capture"} :
          /\ Proceed(w, p)
          /\ p = "ack" => status[j] = "completed"
          /\ p \in Exiting => status[j] = "settling"
    BY <1>1, <1>16 DEF Settle, Exiting
  <2> QED BY <1>4, <1>7, <2>1, <2>2 DEF IsTerminal
<1>17. CASE Capture(w) \/ CaptureErr(w)
  <2>1. stage[w] = "capture" /\ status'[j] = status[j]
    BY <1>6, <1>17 DEF Capture, CaptureErr, At
  <2>2. PICK p \in {"mark", "recordFailure"} : Proceed(w, p)
    BY <1>17 DEF Capture, CaptureErr
  <2> QED BY <1>3, <1>7, <2>1, <2>2 DEF Exiting
<1>18. CASE RecordSettlementFailure(w) \/ RecordSettlementFailureErr(w) \/ ExhaustRecord(w)
  <2>1. stage[w] \in {"recordFailure", "exhaustRecord"} /\ status'[j] = status[j]
    BY <1>18 DEF RecordSettlementFailure, RecordSettlementFailureErr, ExhaustRecord,
                 SetSettlementFailed, At
  <2>2. status[j] = "settling"
    BY <1>3, <2>1 DEF Exiting
  <2>3. AfterFailure(j) = "requeue" /\ AfterBillingFailed(j) = "requeue"
    BY <2>2 DEF AfterFailure, AfterBillingFailed, IsTerminal
  <2>4. PICK p \in {"exhaust", "requeue"} : Proceed(w, p)
    BY <1>1, <1>18, <2>3 DEF RecordSettlementFailure, RecordSettlementFailureErr, ExhaustRecord
  <2> QED BY <1>7, <2>1, <2>2, <2>4 DEF Exiting
<1>19. CASE ExhaustRelease(w) \/ ExhaustReleaseErr(w)
  <2>1. stage[w] = "exhaust" /\ status'[j] = status[j]
    BY <1>6, <1>19 DEF ExhaustRelease, ExhaustReleaseErr, At
  <2>2. PICK p \in {"exhaustFail", "exhaustRecord"} :
          Proceed(w, p) /\ (p = "exhaustFail" => ReleaseTx(j) /\ Released(j))
    BY <1>1, <1>19 DEF ExhaustRelease, ExhaustReleaseErr
  <2>3. p = "exhaustFail" => ~ HoldOpen(j)'
    BY <1>0, <1>2, <2>2, ReleaseFrees
  <2> QED BY <1>3, <1>7, <2>1, <2>2, <2>3 DEF Exiting
<1>20. CASE ExhaustFail(w)
  <2>1. ~ HoldOpen(j)'
    BY <1>3, <1>5, <1>20 DEF ExhaustFail, At
  <2>2. PICK p \in {"ack", "requeue"} : Proceed(w, p) /\ (p = "ack" => Transition(j, "failed"))
    BY <1>1, <1>20 DEF ExhaustFail
  <2>3. p = "ack" => IsTerminal(status'[j])
    BY <1>0, <2>2 DEF Transition, SetStatus, RowTyped, IsTerminal
  <2> QED BY <1>7, <2>1, <2>2, <2>3 DEF Exiting
<1>21. CASE MarkSettled(w)
  <2>1. ~ HoldOpen(j)
    BY <1>0, <1>1, <1>21 DEF MarkSettled, At, PipelineInv, WorkersClose, HoldOpen
  <2>2. ~ HoldOpen(j)'
    BY <1>5, <1>21, <2>1 DEF MarkSettled
  <2>3. PICK p \in {"ack", "requeue"} :
          Proceed(w, p) /\ (p = "ack" => SetStatus(j, "completed"))
    BY <1>1, <1>21 DEF MarkSettled
  <2>4. p = "ack" => IsTerminal(status'[j])
    BY <1>0, <2>3 DEF SetStatus, RowTyped, IsTerminal
  <2> QED BY <1>7, <2>2, <2>3, <2>4 DEF Exiting
<1>22. CASE ProcessErr(w)
  BY <1>8, <1>9, <1>22 DEF ProcessErr
<1> QED
  BY <1>10, <1>11, <1>12, <1>13, <1>14, <1>15, <1>16, <1>17, <1>18, <1>19, <1>20, <1>21, <1>22
     DEF CalmProcess, ProcessStep

-----------------------------------------------------------------------------
(* The whole step.                                                          *)

LEMMA StrandedStep == ASSUME Calm, StrandedInv, [PNext]_pvars PROVE StrandedInv'
<1>1. Ground /\ PipelineInv /\ PTypeOK /\ LedgerInv /\ StageTyped /\ QTypeOK
  BY PTypeParts DEF StrandedInv, Ground, PipelineInv
<1>2. Ground'
  <2>1. PipelineInv'
    BY <1>1, PipelineStep
  <2>2. Unsubmitted' /\ WorkersFollow'
    BY <1>1, UnsubmittedStep DEF Ground, Calm
  <2>3. OwnersHoldLock'
    BY <1>1, PipelineQueue, QueueMoveKeeps DEF Ground
  <2> QED BY <2>1, <2>2, <2>3 DEF Ground
<1>3. LedgerMove /\ \A k \in Jobs : RowMove(k)
  BY <1>1, PipelineLedger, PipelineRows
<1>4. ASSUME NEW k \in Jobs PROVE ClaimsInv(k)' /\ OwedInv(k)'
  BY <1>1, <1>3, PipelinePlaces, PipelineEntry, PipelineOwes, OwedStep
<1>5. ASSUME NEW v \in Workers, wpc[v] = "ack" \/ stage[v] # "none" PROVE wjob[v] \in Jobs
  BY <1>1, <1>5 DEF StageTyped, QTypeOK
<1>6. ASSUME NEW v \in Workers, stage'[v] = stage[v], wjob'[v] = wjob[v], wpc'[v] = wpc[v],
             stage[v] # "none" =>
               (status'[wjob[v]] = "settling" <=> status[wjob[v]] = "settling")
      PROVE  AckInv(v)'
  <2>1. CASE wpc[v] = "ack" \/ stage[v] # "none"
    BY <1>3, <1>5, <1>6, <2>1, AckKept
  <2>2. CASE wpc[v] # "ack" /\ stage[v] = "none"
    BY <1>6, <2>2, AckFree DEF Exiting
  <2> QED BY <2>1, <2>2
<1>7. ASSUME NEW j \in Jobs, ApiStep(j), NEW v \in Workers PROVE AckInv(v)'
  <2>1. CalmStep(j) /\ UNCHANGED <<stage, wpc, wjob>>
    BY <1>7, CalmApi, ApiFrames
  <2>2. \A k \in Jobs : status'[k] = "settling" <=> status[k] = "settling"
    BY <1>1, <2>1, CalmSettling
  <2> QED BY <1>5, <1>6, <2>1, <2>2
<1>8. ASSUME NEW w \in Workers, ProcessStep(w) \/ ProcessFault(w), NEW v \in Workers
      PROVE  AckInv(v)'
  <2>1. CalmProcess(w)
    BY <1>8, CalmProcesses
  <2>2. wpc[w] = "processing" /\ stage[w] # "none" /\ \E p : Proceed(w, p)
    BY <1>1, <2>1, ProcessMoves
  <2>3. CASE v = w
    BY <2>1, <2>3, ProcessAcks
  <2>4. CASE v # w
    <3>1. stage'[v] = stage[v] /\ wjob'[v] = wjob[v] /\ wpc'[v] = wpc[v]
      BY <1>1, <2>2, <2>4, ProceedAcks
    <3>2. stage[v] # "none" => wjob[v] \in Jobs /\ wjob[v] # wjob[w]
      BY <1>1, <1>5, <2>2, <2>4, Sole
    <3>3. stage[v] # "none" => Same(wjob[v])
      BY <1>1, <2>1, <3>2, ProcessOthers
    <3> QED BY <1>6, <3>1, <3>3 DEF Same, RowSame
  <2> QED BY <2>3, <2>4
<1>9. ASSUME \/ \E w \in Workers : RunOnceStep(w) \/ RunOnceFault(w)
             \/ \E j \in Jobs : MoverTick(j) \/ StaleTick(j) \/ LockTTL(j) \/ ActiveAge(j)
             \/ UNCHANGED pvars,
             NEW v \in Workers
      PROVE  AckInv(v)'
  <2>1. UNCHANGED status
    BY <1>9 DEF RunOnceStep, RunOnceFault, MoverTick, StaleTick, LockTTL, ActiveAge,
                QueueFrame, pvars, jobVars
  <2>2. \/ wpc'[v] # "ack" /\ stage'[v] \in {"none", "read"}
        \/ stage'[v] = stage[v] /\ wjob'[v] = wjob[v] /\ wpc'[v] = wpc[v]
    BY <1>1, <1>9, QueueAcks
  <2>3. CASE wpc'[v] # "ack" /\ stage'[v] \in {"none", "read"}
    BY <2>3, AckFree DEF Exiting
  <2>4. CASE stage'[v] = stage[v] /\ wjob'[v] = wjob[v] /\ wpc'[v] = wpc[v]
    BY <1>6, <2>1, <2>4
  <2> QED BY <2>2, <2>3, <2>4
<1>10. \A v \in Workers : AckInv(v)'
  BY <1>7, <1>8, <1>9 DEF PNext, ApiStep
<1> QED BY <1>2, <1>4, <1>10 DEF StrandedInv

LEMMA StrandedInit == PInit => StrandedInv
<1> SUFFICES ASSUME PInit PROVE StrandedInv
  OBVIOUS
<1>1. Ground
  BY ContractInit DEF ContractInv
<1>2. ASSUME NEW j \in Jobs PROVE ClaimsInv(j)
  BY DEF PInit, LInit, ClaimsInv, Moved, Claimed, RequestIDs, Kinds
<1>3. ASSUME NEW j \in Jobs PROVE OwedInv(j)
  BY QueueAssumption
     DEF PInit, QInit, LInit, OwedInv, Queued, InReady, HoldOpen, Moved, Closed
<1>4. ASSUME NEW w \in Workers PROVE AckInv(w)
  BY DEF PInit, QInit, AckInv, Exiting
<1> QED BY <1>1, <1>2, <1>3, <1>4 DEF StrandedInv

\* The funds of a job that ended are never left frozen with nobody to free them:
\* Submit, Cancel, the recovery and the workers close a job before or after its
\* hold is given back, and whoever closes it first hands the release to a handler
\* or to a queue entry that is acknowledged only once the release has succeeded.
THEOREM NoStrandedHoldHolds ==
    ASSUME Calm
    PROVE  PSpec => []NoStrandedHold
<1>1. StrandedInv /\ [PNext]_pvars => StrandedInv'
  BY StrandedStep
<1>2. StrandedInv /\ InflightTracked => NoStrandedHold
  <2> SUFFICES ASSUME StrandedInv, InflightTracked, NEW j \in Jobs,
                      IsTerminal(status[j]), AtRest(j)
               PROVE  ~ HoldOpen(j)
    BY DEF NoStrandedHold
  <2>1. j \notin inflight
    BY DEF AtRest, InflightTracked
  <2>2. ~ Owed(j)
    BY <2>1 DEF AtRest, Owed
  <2>3. status[j] \in Closed => ~ HoldOpen(j)
    BY <2>2 DEF StrandedInv, OwedInv
  <2>4. status[j] \in {"completed", "output_deleted"} => ~ HoldOpen(j)
    BY DEF StrandedInv, Ground, PipelineInv, CompletedCharged, HoldOpen
  <2> QED BY <2>3, <2>4 DEF IsTerminal, Closed
<1> QED BY <1>1, <1>2, StrandedInit, PipelineQueueSafe, PTL DEF PSpec
=============================================================================
