---------------------- MODULE BatchImagePipelineProofs ----------------------
(***************************************************************************)
(* Machine-checked proofs about BatchImagePipeline, and first about its       *)
(* ledger BatchImageLedger on its own, for any jobs, workers,                *)
(* hold amounts, provider outputs and numbers of faults, outages and calls.  *)
(*                                                                         *)
(* What a step of the pipeline does to the queue, to the ledger, to the job  *)
(* row and to the places of the handlers is established once, action by      *)
(* action (QueueMove, LedgerMove, RowMove, PlaceMove); the invariants        *)
(* follow from these four facts.                                            *)
(***************************************************************************)
EXTENDS BatchImagePipeline, BatchImageQueueProofs

-----------------------------------------------------------------------------
(* The ledger alone, for any jobs, hold amounts and balances.                *)

\* What the three transactions leave true of the claims.  A claimed hold or
\* capture request id stands for money that moved; only a release may be
\* claimed without moving anything.
ClaimsMoved ==
    \A j \in Jobs : /\ Claimed("hold", j) => Moved("hold", j)
                    /\ Claimed("capture", j) => Moved("capture", j)

LedgerInv == LTypeOK /\ MoneyConserved /\ ClaimsMoved /\ NoPhantomRelease

-----------------------------------------------------------------------------
(* One lemma per transaction, cited wherever a caller runs it.              *)

\* BatchImage holds are reserved without breaking the books.
LEMMA ReserveKeepsBooks ==
    ASSUME LedgerInv, NEW j \in Jobs, ReserveTx(j)
    PROVE  LedgerInv' /\ moved \subseteq moved'
<1> USE LedgerAssumption DEF LedgerInv, LTypeOK
<1>1. CASE ReserveResult(j) = "ok"
  <2>1. /\ balance' = balance - Hold[j] /\ frozen' = frozen + Hold[j]
        /\ claim' = [claim EXCEPT ![<<"hold", j>>] = RequestFp]
        /\ moved' = moved \cup {<<"hold", j>>} /\ charged' = charged
    BY <1>1 DEF ReserveTx, SetClaim
  <2>2. Hold[j] \in Nat /\ <<"hold", j>> \in RequestIDs
    BY DEF RequestIDs, Kinds
  <2>3. LTypeOK'
    BY <2>1, <2>2 DEF RequestFp
  <2>4. MoneyConserved'
    BY <2>1, <2>2 DEF MoneyConserved
  <2>5. ClaimsMoved'
    BY <2>1, <2>2 DEF ClaimsMoved, Claimed, Moved, RequestIDs, Kinds
  <2>6. NoPhantomRelease'
    BY <2>1 DEF NoPhantomRelease, Moved
  <2> QED BY <2>1, <2>3, <2>4, <2>5, <2>6
<1>2. CASE ReserveResult(j) # "ok"
  BY <1>2 DEF ReserveTx, lvars, MoneyConserved, ClaimsMoved, Claimed, NoPhantomRelease, Moved
<1> QED BY <1>1, <1>2

\* A capture charges its amount and returns the rest of the hold.
LEMMA CaptureKeepsBooks ==
    ASSUME LedgerInv, NEW j \in Jobs, NEW a \in Nat, CaptureTx(j, a)
    PROVE  LedgerInv' /\ moved \subseteq moved'
<1> USE LedgerAssumption DEF LedgerInv, LTypeOK
<1>1. CASE CaptureResult(j, a) = "ok"
  <2>1. /\ balance' = balance + (Hold[j] - a) /\ frozen' = frozen - Hold[j]
        /\ claim' = [claim EXCEPT ![<<"capture", j>>] = a]
        /\ moved' = moved \cup {<<"capture", j>>} /\ charged' = charged + a
    BY <1>1 DEF CaptureTx, SetClaim, CaptureFp
  <2>2. Hold[j] \in Nat /\ <<"capture", j>> \in RequestIDs /\ ~ (frozen < Hold[j])
    BY <1>1 DEF RequestIDs, Kinds, CaptureResult, ClaimResult
  <2>3. LTypeOK'
    BY <2>1, <2>2
  <2>4. MoneyConserved'
    BY <2>1, <2>2 DEF MoneyConserved
  <2>5. ClaimsMoved'
    BY <2>1, <2>2 DEF ClaimsMoved, Claimed, Moved, RequestIDs, Kinds
  <2>6. NoPhantomRelease'
    BY <2>1 DEF NoPhantomRelease, Moved
  <2> QED BY <2>1, <2>3, <2>4, <2>5, <2>6
<1>2. CASE CaptureResult(j, a) # "ok"
  BY <1>2 DEF CaptureTx, lvars, MoneyConserved, ClaimsMoved, Claimed, NoPhantomRelease, Moved
<1> QED BY <1>1, <1>2

\* A release returns a hold that was committed, or nothing.
LEMMA ReleaseKeepsBooks ==
    ASSUME LedgerInv, NEW j \in Jobs, ReleaseTx(j)
    PROVE  LedgerInv' /\ moved \subseteq moved'
<1> USE LedgerAssumption DEF LedgerInv, LTypeOK
<1>1. CASE ReleaseResult(j) = "ok"
  <2>1. /\ balance' = balance + Hold[j] /\ frozen' = frozen - Hold[j]
        /\ claim' = [claim EXCEPT ![<<"release", j>>] = RequestFp]
        /\ moved' = moved \cup {<<"release", j>>} /\ charged' = charged
    BY <1>1 DEF ReleaseTx, SetClaim
  <2>2. /\ Hold[j] \in Nat /\ <<"release", j>> \in RequestIDs
        /\ ~ (frozen < Hold[j]) /\ Claimed("hold", j)
    BY <1>1 DEF RequestIDs, Kinds, ReleaseResult, ClaimResult
  <2>3. LTypeOK'
    BY <2>1, <2>2 DEF RequestFp
  <2>4. MoneyConserved'
    BY <2>1, <2>2 DEF MoneyConserved
  <2>5. ClaimsMoved'
    BY <2>1, <2>2 DEF ClaimsMoved, Claimed, Moved, RequestIDs, Kinds
  <2>6. NoPhantomRelease'
    BY <2>1, <2>2 DEF NoPhantomRelease, ClaimsMoved, Moved
  <2> QED BY <2>1, <2>3, <2>4, <2>5, <2>6
<1>2. CASE ReleaseResult(j) = "phantom"
  <2>1. /\ claim' = [claim EXCEPT ![<<"release", j>>] = RequestFp]
        /\ UNCHANGED <<balance, frozen, moved, charged>>
    BY <1>2 DEF ReleaseTx, SetClaim
  <2>2. <<"release", j>> \in RequestIDs
    BY DEF RequestIDs, Kinds
  <2>3. LTypeOK' /\ MoneyConserved' /\ NoPhantomRelease'
    BY <2>1, <2>2 DEF RequestFp, MoneyConserved, NoPhantomRelease, Moved
  <2>4. ClaimsMoved'
    BY <2>1, <2>2 DEF ClaimsMoved, Claimed, Moved, RequestIDs, Kinds
  <2> QED BY <2>1, <2>3, <2>4
<1>3. CASE ReleaseResult(j) \notin {"ok", "phantom"}
  BY <1>3 DEF ReleaseTx, lvars, MoneyConserved, ClaimsMoved, Claimed, NoPhantomRelease, Moved
<1> QED BY <1>1, <1>2, <1>3

-----------------------------------------------------------------------------
\* The inductive invariant of the ledger under any order and repetition of calls.
LEMMA LedgerInvariant == LSpec => []LedgerInv
<1>1. LInit => LedgerInv
  BY LedgerAssumption
     DEF LInit, LedgerInv, LTypeOK, MoneyConserved, ClaimsMoved, Claimed, NoPhantomRelease,
         Moved, NoClaim, RequestIDs, Kinds
<1>2. LedgerInv /\ [LNext]_lvars => LedgerInv'
  <2> SUFFICES ASSUME LedgerInv, [LNext]_lvars PROVE LedgerInv'
    OBVIOUS
  <2>1. ASSUME NEW j \in Jobs, ReserveTx(j) PROVE LedgerInv'
    BY <2>1, ReserveKeepsBooks
  <2>2. ASSUME NEW j \in Jobs, NEW a \in 0..MaxCost, CaptureTx(j, a) PROVE LedgerInv'
    BY <2>2, LedgerAssumption, CaptureKeepsBooks
  <2>3. ASSUME NEW j \in Jobs, ReleaseTx(j) PROVE LedgerInv'
    BY <2>3, ReleaseKeepsBooks
  <2>4. ASSUME NEW c \in 1..MaxCost, Deduct(c) PROVE LedgerInv'
    BY <2>4, LedgerAssumption
       DEF Deduct, LedgerInv, LTypeOK, MoneyConserved, ClaimsMoved, Claimed,
           NoPhantomRelease, Moved
  <2>5. CASE UNCHANGED lvars
    BY <2>5 DEF lvars, LedgerInv, LTypeOK, MoneyConserved, ClaimsMoved, Claimed,
                NoPhantomRelease, Moved
  <2> QED BY <2>1, <2>2, <2>3, <2>4, <2>5 DEF LNext
<1> QED BY <1>1, <1>2, PTL DEF LSpec

\* The balances, claims and totals keep their types; in particular the frozen
\* balance never becomes negative (the guards of usage_billing_repo.go).
THEOREM LTypeCorrect == LSpec => []LTypeOK
BY LedgerInvariant, PTL DEF LedgerInv

\* Reserve, capture, release and usage charges, in any order and repeated at
\* will, neither create nor destroy money.
THEOREM LedgerConservesMoney == LSpec => []MoneyConserved
BY LedgerInvariant, PTL DEF LedgerInv

\* No release returns money that no hold froze.
THEOREM ReleaseNeedsHold == LSpec => []NoPhantomRelease
BY LedgerInvariant, PTL DEF LedgerInv

-----------------------------------------------------------------------------
(* The pipeline: its inductive invariant.                                   *)

\* Statuses from which no job becomes live again.
Past == {"settling", "completed", "output_deleted", "failed", "cancelled"}

\* The provider works on the job, or its output is being read.
Live == {"submitted", "running", "indexing"}

\* Submit between the reservation and the record of the provider job ...
Funding == {"items", "upload", "provider", "persist"}

\* ... and once that record was attempted.
Submitted == {"enqueue", "abort", "recordQueue", "done", "dead"}

\* Stages of Process that only a job past its provider work reaches.
Closing == {"release", "capture", "recordFailure", "exhaust", "exhaustRecord",
            "exhaustFail", "mark"}

\* The funds of j, if it needs any, are frozen and untouched.
Funded(j) == Hold[j] > 0 => HoldOpen(j)

\* A worker releases or captures only for a job past its provider work, and
\* marks a job settled only after the capture.
WorkersClose ==
    \A w \in Workers :
      /\ stage[w] \in Closing => status[wjob[w]] \in Past
      /\ stage[w] = "mark" => Moved("capture", wjob[w])

\* So do Cancel and the recovery.
ApiCloses == \A j \in Jobs : cpc[j] = "release" \/ rpc[j] = "release" => status[j] \in Past

\* What Submit has done to the funds of a job that nobody closed.
SubmitFunds ==
    \A j \in Jobs :
      /\ spc[j] = "start" => status[j] = "none"
      /\ spc[j] \in {"start", "reserve"} /\ status[j] \notin Past
           => \A k \in Kinds : ~ Moved(k, j)
      /\ spc[j] \in Funding /\ status[j] \notin Past => Funded(j)

\* A live job has left Submit's reach, and its funds are frozen.
LiveFunded ==
    \A j \in Jobs : status[j] \in Live => spc[j] \in Submitted /\ Funded(j)

PipelineInv ==
    PTypeOK /\ LedgerInv /\ WorkersClose /\ ApiCloses /\ SubmitFunds /\ LiveFunded
    /\ CompletedCharged

\* The steps outside the workers and the queue.
ApiStep(j) ==
    \/ SubmitStep(j) \/ SubmitHeartbeat(j) \/ SubmitErr(j) \/ SubmitPersistLost(j)
    \/ SubmitCrash(j) \/ SubmitReplay(j)
    \/ CancelRead(j) \/ CancelStep(j) \/ CancelErr(j) \/ CancelCrash(j)
    \/ AgeJob(j) \/ RecoveryStep(j) \/ RecoverErr(j) \/ RecoverCrash(j)
    \/ ProviderStep(j) \/ DeleteOutput(j)

\* They leave the workers alone ...
LEMMA ApiFrames == ASSUME NEW j \in Jobs, ApiStep(j) PROVE UNCHANGED <<stage, wpc, wjob>>
BY DEF ApiStep, SubmitStep, SubmitCreate, SubmitReserve, SubmitItems, SubmitUpload,
       SubmitProvider, SubmitPersist, SubmitAbort, SubmitEnqueue, SubmitRelease,
       SubmitRecord, SubmitRecordQueue, SubmitHeartbeat, SubmitErr, SubmitPersistLost,
       SubmitCrash, SubmitReplay, CancelRead, CancelStep, CancelProvider, CancelTransition,
       CancelRelease, CancelEnqueue, CancelErr, CancelCrash, AgeJob, RecoveryStep,
       RecoverFail, RecoverRelease, RecoverEnqueue, RecoverErr, RecoverCrash, ProviderStep,
       DeleteOutput, ApiFrame, worker

\* ... and Process leaves the provider and the handlers alone.
LEMMA ProcessFrames ==
    ASSUME NEW w \in Workers, ProcessStep(w) \/ ProcessFault(w)
    PROVE  UNCHANGED <<provVars, apiVars>>
BY DEF ProcessStep, ProcessFault, ProcessRead, ProviderLookup, ProviderGet,
       ProviderTransition, ProcessRelease, Index, Settle, Capture, RecordSettlementFailure,
       ExhaustRelease, ExhaustRecord, ExhaustFail, MarkSettled, CaptureErr,
       RecordSettlementFailureErr, ExhaustReleaseErr, ProcessErr, TransitionLost, ProcFrame

-----------------------------------------------------------------------------
(* The queue under the pipeline.                                            *)

\* What a pipeline step does to the queue: a queue step, an enqueue by Submit,
\* Cancel or the recovery, the end of Process, or nothing but a counted fault
\* or outage.
QueueMove ==
    \/ [QNext]_qvars
    \/ \E j \in Jobs : EnqueueScript(j) /\ UNCHANGED <<worker, outages, faults>>
    \/ \E w \in Workers, n \in {"requeue", "ack"} :
         /\ wpc[w] = "processing" /\ Goto(w, n)
         /\ UNCHANGED <<redis, outages>> /\ faults' \in 0..MaxFaults
    \/ /\ UNCHANGED <<redis, worker>>
       /\ outages' \in {outages, outages + 1} /\ outages' \in 0..MaxOutages
       /\ faults' \in 0..MaxFaults

\* Fault and no fault keep the count within its bound.
LEMMA FaultCounted ==
    ASSUME QTypeOK, Fault \/ UNCHANGED faults
    PROVE  faults' \in 0..MaxFaults
BY QueueAssumption DEF QTypeOK, Fault

\* A step of Process leaves Redis alone and ends Process at most.
LEMMA ProcessQueue ==
    ASSUME QTypeOK, NEW w \in Workers, ProcessStep(w) \/ ProcessFault(w)
    PROVE  QueueMove
<1>1. ASSUME NEW s, At(w, s), NEW p, Proceed(w, p), Fault \/ UNCHANGED faults, ProcFrame
      PROVE  QueueMove
  <2>1. outages' = outages /\ outages \in 0..MaxOutages /\ UNCHANGED redis
    BY <1>1 DEF ProcFrame, QTypeOK
  <2>2. faults' \in 0..MaxFaults
    BY <1>1, FaultCounted
  <2>3. CASE p \in {"ack", "requeue"}
    BY <1>1, <2>1, <2>2, <2>3 DEF Proceed, At, QueueMove
  <2>4. CASE p \notin {"ack", "requeue"}
    BY <1>1, <2>1, <2>2, <2>4 DEF Proceed, QueueMove
  <2> QED BY <2>3, <2>4
<1>2. ASSUME ProcessRead(w) \/ ProviderLookup(w) \/ ProviderGet(w) PROVE QueueMove
  BY <1>1, <1>2 DEF ProcessRead, ProviderLookup, ProviderGet
<1>3. ASSUME ProviderTransition(w) \/ TransitionLost(w) PROVE QueueMove
  BY <1>1, <1>3 DEF ProviderTransition, TransitionLost
<1>4. ASSUME ProcessRelease(w) \/ Index(w) \/ Settle(w) \/ Capture(w) PROVE QueueMove
  BY <1>1, <1>4 DEF ProcessRelease, Index, Settle, Capture
<1>5. ASSUME RecordSettlementFailure(w) \/ ExhaustRelease(w) \/ ExhaustRecord(w)
             \/ ExhaustFail(w) \/ MarkSettled(w)
      PROVE QueueMove
  BY <1>1, <1>5 DEF RecordSettlementFailure, ExhaustRelease, ExhaustRecord, ExhaustFail,
                    MarkSettled
<1>6. ASSUME CaptureErr(w) \/ RecordSettlementFailureErr(w) \/ ExhaustReleaseErr(w)
      PROVE QueueMove
  BY <1>1, <1>6 DEF CaptureErr, RecordSettlementFailureErr, ExhaustReleaseErr
<1>7. ASSUME ProcessErr(w) PROVE QueueMove
  <2>1. At(w, stage[w])
    BY <1>7 DEF ProcessErr, At
  <2> QED BY <1>1, <1>7, <2>1 DEF ProcessErr
<1> QED BY <1>2, <1>3, <1>4, <1>5, <1>6, <1>7 DEF ProcessStep, ProcessFault

\* A step of Submit, Cancel, the recovery or the provider touches Redis only
\* through Enqueue.
LEMMA ApiQueue ==
    ASSUME QTypeOK, NEW j \in Jobs, ApiStep(j)
    PROVE  QueueMove
<1>1. ASSUME ApiFrame, Fault \/ UNCHANGED faults PROVE QueueMove
  <2>1. outages' = outages /\ outages \in 0..MaxOutages /\ UNCHANGED <<redis, worker>>
    BY <1>1 DEF ApiFrame, QTypeOK
  <2> QED BY <1>1, <2>1, FaultCounted DEF QueueMove
<1>2. ASSUME EnqueueScript(j), UNCHANGED <<worker, outages, faults>> PROVE QueueMove
  BY <1>2 DEF QueueMove
<1>3. ASSUME SubmitStep(j) PROVE QueueMove
  BY <1>1, <1>2, <1>3
     DEF SubmitStep, SubmitCreate, SubmitReserve, SubmitItems, SubmitUpload, SubmitProvider,
         SubmitPersist, SubmitAbort, SubmitEnqueue, SubmitRelease, SubmitRecord,
         SubmitRecordQueue
<1>4. ASSUME SubmitHeartbeat(j) \/ SubmitErr(j) \/ SubmitPersistLost(j) \/ SubmitCrash(j)
             \/ SubmitReplay(j)
      PROVE QueueMove
  BY <1>1, <1>2, <1>4
     DEF SubmitHeartbeat, SubmitErr, SubmitPersistLost, SubmitCrash, SubmitReplay
<1>5. ASSUME CancelRead(j) \/ CancelStep(j) \/ CancelErr(j) \/ CancelCrash(j) PROVE QueueMove
  BY <1>1, <1>2, <1>5
     DEF CancelRead, CancelStep, CancelProvider, CancelTransition, CancelRelease,
         CancelEnqueue, CancelErr, CancelCrash
<1>6. ASSUME RecoveryStep(j) \/ RecoverErr(j) \/ RecoverCrash(j) PROVE QueueMove
  BY <1>1, <1>2, <1>6
     DEF RecoveryStep, RecoverFail, RecoverRelease, RecoverEnqueue, RecoverErr, RecoverCrash
<1>7. ASSUME ProviderStep(j) \/ DeleteOutput(j) PROVE QueueMove
  BY <1>1, <1>7 DEF ProviderStep, DeleteOutput
<1>8. ASSUME AgeJob(j) PROVE QueueMove
  <2>1. /\ UNCHANGED <<redis, worker, faults>>
        /\ outages' = outages \/ (outages < MaxOutages /\ outages' = outages + 1)
    BY <1>8 DEF AgeJob
  <2>2. outages' \in 0..MaxOutages /\ faults' \in 0..MaxFaults
    BY <2>1, QueueAssumption DEF QTypeOK
  <2> QED BY <2>1, <2>2 DEF QueueMove
<1> QED BY <1>3, <1>4, <1>5, <1>6, <1>7, <1>8 DEF ApiStep

\* Every step of the pipeline is one the queue knows.
LEMMA PipelineQueue == ASSUME QTypeOK, [PNext]_pvars PROVE QueueMove
<1>1. ASSUME NEW w \in Workers, RunOnceStep(w) \/ RunOnceFault(w) PROVE QNext
  BY <1>1 DEF RunOnceStep, RunOnceFault, QNext, WorkerStep
<1>2. ASSUME NEW j \in Jobs, MoverTick(j) \/ StaleTick(j) \/ LockTTL(j) \/ ActiveAge(j)
      PROVE QNext
  BY <1>2 DEF MoverTick, StaleTick, LockTTL, ActiveAge, QNext
<1>3. ASSUME UNCHANGED pvars PROVE UNCHANGED qvars
  BY <1>3 DEF pvars
<1>4. ASSUME QNext \/ UNCHANGED qvars PROVE QueueMove
  BY <1>4 DEF QueueMove
<1> QED
  BY <1>1, <1>2, <1>3, <1>4, ApiQueue, ProcessQueue DEF PNext, ApiStep

\* The queue's invariants survive what the pipeline does to it.
LEMMA QueueMoveKeeps ==
    ASSUME QTypeOK, QueueMove
    PROVE  /\ QTypeOK'
           /\ InflightTracked => InflightTracked'
           /\ OwnersHoldLock => OwnersHoldLock'
<1> USE QueueAssumption
<1>1. CASE [QNext]_qvars
  BY <1>1, QTypeStep, InflightStep, OwnersStep
<1>2. ASSUME NEW j \in Jobs, EnqueueScript(j), UNCHANGED <<worker, outages, faults>>
      PROVE  /\ QTypeOK'
             /\ InflightTracked => InflightTracked'
             /\ OwnersHoldLock => OwnersHoldLock'
  <2>1. QTypeOK' /\ (InflightTracked => InflightTracked')
    BY <1>2, EnqueueType, EnqueueTracked
  <2>2. OwnersHoldLock => OwnersHoldLock'
    BY <1>2 DEF OwnersHoldLock, EnqueueScript, worker
  <2> QED BY <2>1, <2>2
<1>3. ASSUME NEW w \in Workers, NEW n \in {"requeue", "ack"},
             wpc[w] = "processing", Goto(w, n),
             UNCHANGED <<redis, outages>>, faults' \in 0..MaxFaults
      PROVE  /\ QTypeOK'
             /\ InflightTracked => InflightTracked'
             /\ OwnersHoldLock => OwnersHoldLock'
  <2>1. QTypeOK'
    BY <1>3 DEF QTypeOK, Goto, redis, WorkerPcs, OwningPcs
  <2>2. InflightTracked => InflightTracked'
    BY <1>3 DEF InflightTracked, InReady, redis
  <2>3. OwnersHoldLock => OwnersHoldLock'
    BY <1>3 DEF OwnersHoldLock, OwningPcs, Goto, redis, QTypeOK
  <2> QED BY <2>1, <2>2, <2>3
<1>4. ASSUME UNCHANGED <<redis, worker>>, outages' \in {outages, outages + 1},
             outages' \in 0..MaxOutages, faults' \in 0..MaxFaults
      PROVE  /\ QTypeOK'
             /\ InflightTracked => InflightTracked'
             /\ OwnersHoldLock => OwnersHoldLock'
  <2>1. QTypeOK'
    BY <1>4 DEF QTypeOK, redis, worker
  <2>2. InflightTracked => InflightTracked'
    BY <1>4 DEF InflightTracked, InReady, redis
  <2>3. OwnersHoldLock => OwnersHoldLock'
    BY <1>4 DEF OwnersHoldLock, redis, worker, QTypeOK
  <2> QED BY <2>1, <2>2, <2>3
<1> QED BY <1>1, <1>2, <1>3, <1>4 DEF QueueMove

-----------------------------------------------------------------------------
(* The ledger under the pipeline.                                           *)

\* Somebody is about to give back the hold of j.
Releasing(j) ==
    \/ spc[j] \in {"release", "releaseOnly"} \/ cpc[j] = "release" \/ rpc[j] = "release"
    \/ \E w \in Workers : wjob[w] = j /\ stage[w] \in {"release", "exhaust"}

\* What a pipeline step does to the ledger: at most one transaction, and for
\* whom.
LedgerMove ==
    \/ UNCHANGED lvars
    \/ \E j \in Jobs :
         /\ ReserveTx(j) /\ spc[j] = "reserve"
         /\ spc' = [spc EXCEPT ![j] =
                      IF ReserveResult(j) \in {"ok", "duplicate", "skipped"}
                         /\ UNCHANGED faults
                      THEN "items" ELSE "record"]
    \/ \E j \in Jobs : ReleaseTx(j) /\ Releasing(j)
    \/ \E w \in Workers :
         CaptureTx(wjob[w], cost[wjob[w]]) /\ wpc[w] = "processing" /\ stage[w] = "capture"

\* Only Submit reserves; Submit, Cancel, the recovery and the provider give back.
LEMMA ApiLedger ==
    ASSUME PTypeOK, NEW j \in Jobs, ApiStep(j)
    PROVE  LedgerMove
<1>1. ASSUME UNCHANGED lvars PROVE LedgerMove
  BY <1>1 DEF LedgerMove
<1>2. ASSUME ReleaseTx(j),
             spc[j] \in {"release", "releaseOnly"} \/ cpc[j] = "release" \/ rpc[j] = "release"
      PROVE LedgerMove
  BY <1>2 DEF LedgerMove, Releasing
<1>3. ASSUME SubmitReserve(j) PROVE LedgerMove
  BY <1>3 DEF SubmitReserve, SubmitGoto, LedgerMove
<1>4. ASSUME SubmitErr(j), ReserveTx(j), spc[j] = "reserve" PROVE LedgerMove
  <2>1. faults' # faults
    BY <1>4, QueueAssumption DEF SubmitErr, Fault, PTypeOK, QTypeOK
  <2>2. spc' = [spc EXCEPT ![j] = "record"]
    BY <1>4 DEF SubmitErr, SubmitGoto, SubmitOnError
  <2> QED BY <1>4, <2>1, <2>2 DEF LedgerMove
<1>5. ASSUME SubmitStep(j) PROVE LedgerMove
  BY <1>1, <1>2, <1>3, <1>5
     DEF SubmitStep, SubmitCreate, SubmitItems, SubmitUpload, SubmitProvider,
         SubmitPersist, SubmitAbort, SubmitEnqueue, SubmitRelease, SubmitRecord,
         SubmitRecordQueue
<1>6. ASSUME SubmitErr(j) PROVE LedgerMove
  BY <1>1, <1>2, <1>4, <1>6 DEF SubmitErr
<1>7. ASSUME SubmitHeartbeat(j) \/ SubmitPersistLost(j) \/ SubmitCrash(j) \/ SubmitReplay(j)
      PROVE LedgerMove
  BY <1>1, <1>7 DEF SubmitHeartbeat, SubmitPersistLost, SubmitCrash, SubmitReplay
<1>8. ASSUME CancelRead(j) \/ CancelStep(j) \/ CancelErr(j) \/ CancelCrash(j) PROVE LedgerMove
  BY <1>1, <1>2, <1>8
     DEF CancelRead, CancelStep, CancelProvider, CancelTransition, CancelRelease,
         CancelEnqueue, CancelErr, CancelCrash
<1>9. ASSUME RecoveryStep(j) \/ RecoverErr(j) \/ RecoverCrash(j) PROVE LedgerMove
  BY <1>1, <1>2, <1>9
     DEF RecoveryStep, RecoverFail, RecoverRelease, RecoverEnqueue, RecoverErr, RecoverCrash
<1>10. ASSUME AgeJob(j) \/ ProviderStep(j) \/ DeleteOutput(j) PROVE LedgerMove
  BY <1>1, <1>10 DEF AgeJob, ProviderStep, DeleteOutput
<1> QED BY <1>5, <1>6, <1>7, <1>8, <1>9, <1>10 DEF ApiStep

\* A worker captures, or gives back at the end of a job.
LEMMA ProcessLedger ==
    ASSUME PTypeOK, NEW w \in Workers, ProcessStep(w) \/ ProcessFault(w)
    PROVE  LedgerMove
<1>1. ASSUME UNCHANGED lvars PROVE LedgerMove
  BY <1>1 DEF LedgerMove
<1>2. ASSUME wpc[w] = "processing" PROVE wjob[w] \in Jobs
  BY <1>2 DEF PTypeOK, QTypeOK
<1>3. ASSUME wpc[w] = "processing", ReleaseTx(wjob[w]), stage[w] \in {"release", "exhaust"}
      PROVE LedgerMove
  BY <1>2, <1>3 DEF LedgerMove, Releasing
<1>4. ASSUME At(w, "capture"), CaptureTx(wjob[w], cost[wjob[w]]) PROVE LedgerMove
  BY <1>4 DEF LedgerMove, At
<1>5. ASSUME ProcessRead(w) \/ ProviderLookup(w) \/ ProviderGet(w) \/ ProviderTransition(w)
             \/ Index(w) \/ Settle(w) \/ RecordSettlementFailure(w) \/ ExhaustRecord(w)
             \/ ExhaustFail(w) \/ MarkSettled(w) \/ RecordSettlementFailureErr(w)
             \/ TransitionLost(w)
      PROVE LedgerMove
  BY <1>1, <1>5
     DEF ProcessRead, ProviderLookup, ProviderGet, ProviderTransition, Index, Settle,
         RecordSettlementFailure, ExhaustRecord, ExhaustFail, MarkSettled,
         RecordSettlementFailureErr, TransitionLost
<1>6. ASSUME ProcessRelease(w) \/ ExhaustRelease(w) \/ ExhaustReleaseErr(w) \/ ProcessErr(w)
      PROVE LedgerMove
  BY <1>1, <1>3, <1>6
     DEF ProcessRelease, ExhaustRelease, ExhaustReleaseErr, ProcessErr, At
<1>7. ASSUME Capture(w) \/ CaptureErr(w) PROVE LedgerMove
  BY <1>1, <1>4, <1>7 DEF Capture, CaptureErr
<1> QED BY <1>5, <1>6, <1>7 DEF ProcessStep, ProcessFault

\* Every step of the pipeline runs at most one transaction.
LEMMA PipelineLedger == ASSUME PTypeOK, [PNext]_pvars PROVE LedgerMove
<1>1. ASSUME UNCHANGED lvars PROVE LedgerMove
  BY <1>1 DEF LedgerMove
<1>2. ASSUME NEW w \in Workers, RunOnceStep(w) \/ RunOnceFault(w) PROVE UNCHANGED lvars
  BY <1>2 DEF RunOnceStep, RunOnceFault, QueueFrame
<1>3. ASSUME NEW j \in Jobs, MoverTick(j) \/ StaleTick(j) \/ LockTTL(j) \/ ActiveAge(j)
      PROVE UNCHANGED lvars
  BY <1>3 DEF MoverTick, StaleTick, LockTTL, ActiveAge, QueueFrame
<1>4. ASSUME UNCHANGED pvars PROVE UNCHANGED lvars
  BY <1>4 DEF pvars
<1> QED
  BY <1>1, <1>2, <1>3, <1>4, ApiLedger, ProcessLedger DEF PNext, ApiStep

\* The books stay balanced under whatever the pipeline does.
LEMMA LedgerMoveKeeps ==
    ASSUME PTypeOK, LedgerInv, LedgerMove
    PROVE  LedgerInv' /\ moved \subseteq moved'
<1>1. CASE UNCHANGED lvars
  BY <1>1 DEF lvars, LedgerInv, LTypeOK, MoneyConserved, ClaimsMoved, Claimed,
              NoPhantomRelease, Moved
<1>2. ASSUME NEW j \in Jobs, ReserveTx(j) PROVE LedgerInv' /\ moved \subseteq moved'
  BY <1>2, ReserveKeepsBooks
<1>3. ASSUME NEW j \in Jobs, ReleaseTx(j) PROVE LedgerInv' /\ moved \subseteq moved'
  BY <1>3, ReleaseKeepsBooks
<1>4. ASSUME NEW w \in Workers, CaptureTx(wjob[w], cost[wjob[w]]), wpc[w] = "processing"
      PROVE  LedgerInv' /\ moved \subseteq moved'
  <2>1. wjob[w] \in Jobs /\ cost[wjob[w]] \in Nat
    BY <1>4 DEF PTypeOK, QTypeOK
  <2> QED BY <1>4, <2>1, CaptureKeepsBooks
<1> QED BY <1>1, <1>2, <1>3, <1>4 DEF LedgerMove

-----------------------------------------------------------------------------
(* Type correctness.                                                        *)

RowTyped ==
    /\ status \in [Jobs -> Statuses]
    /\ named \subseteq Jobs /\ settleErr \subseteq Jobs /\ stale \subseteq Jobs
    /\ cost \in [Jobs -> Nat]
    /\ retry \in [Jobs -> 0..MaxRetries]

ProvTyped == prov \in [Jobs -> ProvStates] /\ output \in [Jobs -> Nat \cup {BadOutput}]

ApiTyped ==
    /\ spc \in [Jobs -> SubmitPcs]
    /\ cpc \in [Jobs -> CancelPcs]
    /\ rpc \in [Jobs -> RecoveryPcs]
    /\ calls \in [Jobs -> 0..MaxCalls]

StageTyped ==
    /\ stage \in [Workers -> Stages]
    /\ \A w \in Workers : stage[w] # "none" <=> wpc[w] = "processing"

\* The parts of the type invariant, before and after a step.
LEMMA PTypeParts ==
    /\ PTypeOK <=> RowTyped /\ ProvTyped /\ ApiTyped /\ StageTyped /\ LTypeOK /\ QTypeOK
    /\ PTypeOK' <=> RowTyped' /\ ProvTyped' /\ ApiTyped' /\ StageTyped' /\ LTypeOK' /\ QTypeOK'
BY DEF PTypeOK, RowTyped, ProvTyped, ApiTyped, StageTyped

\* The four ways a job row is written, and the row left alone.
LEMMA RowWrites ==
    ASSUME RowTyped, NEW j \in Jobs
    PROVE  /\ UNCHANGED jobVars => RowTyped'
           /\ \A s \in Statuses :
                SetStatus(j, s) /\ settleErr' \subseteq settleErr
                /\ named' \subseteq named \cup {j} /\ UNCHANGED <<cost, retry>> => RowTyped'
           /\ \A s \in Statuses : Transition(j, s) => RowTyped'
           /\ RecordSubmitFailure(j) => RowTyped'
           /\ SetSettlementFailed(j) => RowTyped'
<1>1. UNCHANGED jobVars => RowTyped'
  BY DEF RowTyped, jobVars
<1>2. ASSUME NEW s \in Statuses, SetStatus(j, s), settleErr' \subseteq settleErr,
             named' \subseteq named \cup {j}, UNCHANGED <<cost, retry>>
      PROVE  RowTyped'
  BY <1>2 DEF RowTyped, SetStatus
<1>3. \A s \in Statuses : Transition(j, s) => RowTyped'
  BY <1>2 DEF Transition
<1>4. RecordSubmitFailure(j) => RowTyped'
  BY <1>2 DEF RecordSubmitFailure, Statuses
<1>5. SetSettlementFailed(j) => RowTyped'
  BY PipelineAssumption DEF SetSettlementFailed, RowTyped
<1> QED BY <1>1, <1>2, <1>3, <1>4, <1>5

\* The job row keeps its types under the API.
LEMMA ApiRow ==
    ASSUME RowTyped, NEW j \in Jobs, ApiStep(j)
    PROVE  RowTyped'
<1> USE RowWrites DEF Statuses
<1>1. ASSUME UNCHANGED jobVars PROVE RowTyped'
  BY <1>1
<1>2. ASSUME SubmitCreate(j) \/ SubmitPersist(j) \/ SubmitPersistLost(j) PROVE RowTyped'
  BY <1>2 DEF SubmitCreate, SubmitPersist, SubmitPersistLost
<1>3. ASSUME SubmitUpload(j) \/ SubmitRecord(j) PROVE RowTyped'
  BY <1>3 DEF SubmitUpload, SubmitRecord
<1>4. ASSUME SubmitRecordQueue(j) \/ SubmitHeartbeat(j) \/ AgeJob(j) PROVE RowTyped'
  BY <1>4 DEF SubmitRecordQueue, SubmitHeartbeat, AgeJob, RowTyped
<1>5. ASSUME SubmitStep(j) PROVE RowTyped'
  BY <1>1, <1>2, <1>3, <1>4, <1>5
     DEF SubmitStep, SubmitReserve, SubmitItems, SubmitProvider, SubmitAbort, SubmitEnqueue,
         SubmitRelease
<1>6. ASSUME SubmitErr(j) \/ SubmitCrash(j) \/ SubmitReplay(j) PROVE RowTyped'
  BY <1>1, <1>6 DEF SubmitErr, SubmitCrash, SubmitReplay
<1>7. ASSUME CancelRead(j) \/ CancelStep(j) \/ CancelErr(j) \/ CancelCrash(j) PROVE RowTyped'
  BY <1>1, <1>7
     DEF CancelRead, CancelStep, CancelProvider, CancelTransition, CancelRelease,
         CancelEnqueue, CancelErr, CancelCrash
<1>8. ASSUME RecoverFail(j) \/ DeleteOutput(j) PROVE RowTyped'
  BY <1>8 DEF RecoverFail, DeleteOutput
<1>9. ASSUME RecoveryStep(j) \/ RecoverErr(j) \/ RecoverCrash(j) \/ ProviderStep(j)
      PROVE RowTyped'
  BY <1>1, <1>8, <1>9
     DEF RecoveryStep, RecoverRelease, RecoverEnqueue, RecoverErr, RecoverCrash, ProviderStep
<1> QED BY <1>2, <1>4, <1>5, <1>6, <1>7, <1>8, <1>9 DEF ApiStep

\* ... and under the workers.
LEMMA ProcessRow ==
    ASSUME PTypeOK, NEW w \in Workers, ProcessStep(w) \/ ProcessFault(w)
    PROVE  RowTyped'
<1> USE DEF Statuses
<1>1. wjob[w] \in Jobs
  BY DEF ProcessStep, ProcessFault, PTypeOK, QTypeOK, ProcessRead, ProviderLookup, ProviderGet,
         ProviderTransition, ProcessRelease, Index, Settle, Capture, RecordSettlementFailure,
         ExhaustRelease, ExhaustRecord, ExhaustFail, MarkSettled, CaptureErr,
         RecordSettlementFailureErr, ExhaustReleaseErr, ProcessErr, TransitionLost, At
<1>2. RowTyped
  BY PTypeParts
<1>3. ASSUME UNCHANGED jobVars PROVE RowTyped'
  BY <1>1, <1>2, <1>3, RowWrites
<1>4. ASSUME ProviderTransition(w) \/ ExhaustFail(w) \/ MarkSettled(w) \/ TransitionLost(w)
      PROVE RowTyped'
  BY <1>1, <1>2, <1>4, RowWrites
     DEF ProviderTransition, ExhaustFail, MarkSettled, TransitionLost
<1>5. ASSUME RecordSettlementFailure(w) \/ RecordSettlementFailureErr(w) \/ ExhaustRecord(w)
      PROVE RowTyped'
  BY <1>1, <1>2, <1>5, RowWrites
     DEF RecordSettlementFailure, RecordSettlementFailureErr, ExhaustRecord
<1>6. ASSUME Index(w) PROVE RowTyped'
  <2>1. ASSUME output[wjob[w]] # BadOutput,
               cost' = [cost EXCEPT ![wjob[w]] = output[wjob[w]]],
               UNCHANGED <<status, named, retry, settleErr, stale>>
        PROVE RowTyped'
    <3>1. output[wjob[w]] \in Nat
      BY <1>1, <2>1, PTypeParts DEF ProvTyped
    <3> QED BY <1>2, <2>1, <3>1 DEF RowTyped
  <2> QED BY <1>3, <1>6, <2>1 DEF Index
<1>7. ASSUME ProcessRead(w) \/ ProviderLookup(w) \/ ProviderGet(w) \/ ProcessRelease(w)
             \/ Settle(w) \/ Capture(w) \/ ExhaustRelease(w) \/ CaptureErr(w)
             \/ ExhaustReleaseErr(w) \/ ProcessErr(w)
      PROVE RowTyped'
  BY <1>3, <1>7
     DEF ProcessRead, ProviderLookup, ProviderGet, ProcessRelease, Settle, Capture,
         ExhaustRelease, CaptureErr, ExhaustReleaseErr, ProcessErr
<1> QED BY <1>4, <1>5, <1>6, <1>7 DEF ProcessStep, ProcessFault

\* Submit, Cancel and the recovery stay within their program counters.
LEMMA ApiPlaces ==
    ASSUME RowTyped, ProvTyped, ApiTyped, NEW j \in Jobs, ApiStep(j)
    PROVE  ApiTyped' /\ ProvTyped'
<1>1. ASSUME NEW p \in SubmitPcs, SubmitGoto(j, p) PROVE ApiTyped'
  BY <1>1 DEF ApiTyped, SubmitGoto
<1>2. ASSUME NEW p \in CancelPcs, CancelGoto(j, p) PROVE ApiTyped'
  BY <1>2 DEF ApiTyped, CancelGoto
<1>3. ASSUME NEW p \in RecoveryPcs, RecoveryGoto(j, p) PROVE ApiTyped'
  BY <1>3 DEF ApiTyped, RecoveryGoto
<1>4. ASSUME UNCHANGED apiVars PROVE ApiTyped'
  BY <1>4 DEF ApiTyped, apiVars
<1>5. ASSUME UNCHANGED provVars PROVE ProvTyped'
  BY <1>5 DEF ProvTyped, provVars
<1>6. ASSUME ProviderCancel(j), UNCHANGED output PROVE ProvTyped'
  BY <1>6 DEF ProvTyped, ProviderCancel, ProvStates
<1>7. ASSUME calls[j] < MaxCalls, calls' = [calls EXCEPT ![j] = @ + 1], UNCHANGED <<spc, cpc, rpc>>
      PROVE  ApiTyped'
  BY <1>7, PipelineAssumption DEF ApiTyped
<1>8. ASSUME SubmitStep(j) PROVE ApiTyped'
  BY <1>1, <1>8
     DEF SubmitStep, SubmitCreate, SubmitReserve, SubmitItems, SubmitUpload, SubmitProvider,
         SubmitPersist, SubmitAbort, SubmitEnqueue, SubmitRelease, SubmitRecord,
         SubmitRecordQueue, SubmitPcs
<1>9. ASSUME SubmitStep(j) PROVE ProvTyped'
  <2>1. ASSUME SubmitProvider(j) PROVE ProvTyped'
    BY <2>1 DEF SubmitProvider, ProvTyped, ProvStates
  <2> QED
    BY <1>5, <1>6, <1>9, <2>1
       DEF SubmitStep, SubmitCreate, SubmitReserve, SubmitItems, SubmitUpload,
           SubmitPersist, SubmitAbort, SubmitEnqueue, SubmitRelease, SubmitRecord,
           SubmitRecordQueue
<1>10. ASSUME SubmitErr(j) PROVE ApiTyped'
  <2>1. SubmitOnError(spc[j]) \in SubmitPcs
    BY DEF SubmitOnError, SubmitPcs
  <2> QED BY <1>1, <1>10, <2>1 DEF SubmitErr
<1>11. ASSUME SubmitHeartbeat(j) \/ SubmitPersistLost(j) \/ SubmitCrash(j) \/ SubmitReplay(j)
       PROVE ApiTyped'
  BY <1>1, <1>4, <1>7, <1>11
     DEF SubmitHeartbeat, SubmitPersistLost, SubmitCrash, SubmitReplay, SubmitPcs
<1>12. ASSUME SubmitErr(j) \/ SubmitHeartbeat(j) \/ SubmitPersistLost(j) \/ SubmitCrash(j)
              \/ SubmitReplay(j)
       PROVE ProvTyped'
  BY <1>5, <1>12 DEF SubmitErr, SubmitHeartbeat, SubmitPersistLost, SubmitCrash, SubmitReplay
<1>13. ASSUME CancelRead(j) PROVE ApiTyped'
  <2>1. /\ calls[j] < MaxCalls /\ calls' = [calls EXCEPT ![j] = @ + 1]
        /\ UNCHANGED <<spc, rpc>>
    BY <1>13 DEF CancelRead
  <2>2. calls' \in [Jobs -> 0..MaxCalls]
    BY <2>1, PipelineAssumption DEF ApiTyped
  <2>3. cpc' \in [Jobs -> CancelPcs]
    BY <1>13 DEF CancelRead, ApiTyped, CancelPcs
  <2> QED BY <2>1, <2>2, <2>3 DEF ApiTyped
<1>14. ASSUME CancelStep(j) \/ CancelErr(j) \/ CancelCrash(j) PROVE ApiTyped'
  BY <1>2, <1>14
     DEF CancelStep, CancelProvider, CancelTransition, CancelRelease, CancelEnqueue,
         CancelErr, CancelCrash, CancelPcs
<1>15. ASSUME CancelRead(j) \/ CancelStep(j) \/ CancelErr(j) \/ CancelCrash(j) PROVE ProvTyped'
  BY <1>5, <1>6, <1>15
     DEF CancelRead, CancelStep, CancelProvider, CancelTransition, CancelRelease,
         CancelEnqueue, CancelErr, CancelCrash
<1>16. ASSUME RecoveryStep(j) \/ RecoverErr(j) \/ RecoverCrash(j) PROVE ApiTyped' /\ ProvTyped'
  BY <1>3, <1>5, <1>16
     DEF RecoveryStep, RecoverFail, RecoverRelease, RecoverEnqueue, RecoverErr, RecoverCrash,
         RecoveryPcs
<1>17. ASSUME AgeJob(j) \/ DeleteOutput(j) PROVE ApiTyped' /\ ProvTyped'
  BY <1>4, <1>5, <1>7, <1>17 DEF AgeJob, DeleteOutput
<1>18. ASSUME ProviderStep(j) PROVE ApiTyped' /\ ProvTyped'
  <2>1. ApiTyped'
    BY <1>4, <1>18 DEF ProviderStep
  <2>2. ProvTyped'
    BY <1>18, PipelineAssumption DEF ProviderStep, ProvTyped, ProvStates
  <2> QED BY <2>1, <2>2
<1> QED
  BY <1>8, <1>9, <1>10, <1>11, <1>12, <1>13, <1>14, <1>15, <1>16, <1>17, <1>18
  DEF ApiStep

\* A worker has a stage exactly while it processes.
LEMMA ProcessStages ==
    ASSUME PTypeOK, NEW w \in Workers, ProcessStep(w) \/ ProcessFault(w)
    PROVE  StageTyped'
<1>1. ASSUME NEW p \in (Stages \ {"none"}) \cup {"ack", "requeue"}, Proceed(w, p),
             wpc[w] = "processing"
      PROVE  StageTyped'
  BY <1>1, PTypeParts DEF Proceed, Goto, StageTyped, QTypeOK, Stages, worker
<1> USE DEF Stages
<1>2. ASSUME ProcessRead(w) \/ ProviderLookup(w) \/ ProviderGet(w) \/ Settle(w)
      PROVE StageTyped'
  BY <1>1, <1>2 DEF ProcessRead, ProviderLookup, ProviderGet, Settle, At
<1>3. ASSUME ProviderTransition(w) \/ TransitionLost(w) \/ ExhaustFail(w) \/ MarkSettled(w)
      PROVE StageTyped'
  BY <1>1, <1>3 DEF ProviderTransition, TransitionLost, ExhaustFail, MarkSettled, At
<1>4. ASSUME ProcessRelease(w) \/ Index(w) \/ Capture(w) \/ CaptureErr(w) PROVE StageTyped'
  BY <1>1, <1>4 DEF ProcessRelease, Index, Capture, CaptureErr, At
<1>5. ASSUME RecordSettlementFailure(w) \/ RecordSettlementFailureErr(w) \/ ExhaustRecord(w)
      PROVE StageTyped'
  BY <1>1, <1>5
     DEF RecordSettlementFailure, RecordSettlementFailureErr, ExhaustRecord, At,
         AfterFailure, AfterBillingFailed
<1>6. ASSUME ExhaustRelease(w) \/ ExhaustReleaseErr(w) \/ ProcessErr(w) PROVE StageTyped'
  BY <1>1, <1>6 DEF ExhaustRelease, ExhaustReleaseErr, ProcessErr, At
<1> QED BY <1>2, <1>3, <1>4, <1>5, <1>6 DEF ProcessStep, ProcessFault

\* RunOnce sets the stage when it takes the lock and clears it in a crash.
LEMMA RunOnceStages ==
    ASSUME PTypeOK, NEW w \in Workers, RunOnceStep(w) \/ RunOnceFault(w)
    PROVE  StageTyped'
<1>0. StageTyped /\ wpc \in [Workers -> WorkerPcs]
  BY PTypeParts DEF QTypeOK
<1>1. ASSUME UNCHANGED stage, NEW p \in WorkerPcs \ {"processing"},
             wpc' = [wpc EXCEPT ![w] = p], wpc[w] # "processing"
      PROVE  StageTyped'
  BY <1>0, <1>1 DEF StageTyped
<1>2. ASSUME UNCHANGED <<stage, wpc>> PROVE StageTyped'
  BY <1>2, <1>0 DEF StageTyped
<1> USE DEF WorkerPcs, OwningPcs
<1>3. ASSUME Reserve(w) \/ RequeueConflict(w) \/ Requeue(w) \/ Ack(w) \/ ReleaseLock(w),
             UNCHANGED stage
      PROVE  StageTyped'
  BY <1>1, <1>3 DEF Reserve, RequeueConflict, Requeue, Ack, ReleaseLock, Goto, GoIdle
<1>4. ASSUME TryAcquireJobLock(w),
             stage' = [stage EXCEPT ![w] = IF lock[wjob[w]] = NoWorker THEN "read" ELSE "none"]
      PROVE  StageTyped'
  BY <1>0, <1>4 DEF TryAcquireJobLock, Goto, StageTyped, Stages
<1>5. ASSUME TryAcquireJobLockFails(w) \/ QueueCallFails(w), UNCHANGED stage PROVE StageTyped'
  BY <1>1, <1>5 DEF TryAcquireJobLockFails, QueueCallFails, Goto, GoIdle
<1>6. ASSUME Heartbeat(w) \/ Stall(w), UNCHANGED stage PROVE StageTyped'
  BY <1>2, <1>6 DEF Heartbeat, Stall
<1>7. ASSUME Crash(w), stage' = [stage EXCEPT ![w] = "none"] PROVE StageTyped'
  BY <1>0, <1>7 DEF Crash, GoIdle, StageTyped, Stages
<1> QED BY <1>3, <1>4, <1>5, <1>6, <1>7 DEF RunOnceStep, RunOnceFault

\* Every step keeps the types.  (The ledger's are those of LedgerInv.)
LEMMA PTypeStep ==
    ASSUME PTypeOK, LedgerInv, [PNext]_pvars
    PROVE  PTypeOK' /\ LedgerInv' /\ moved \subseteq moved'
<1>1. RowTyped /\ ProvTyped /\ ApiTyped /\ StageTyped /\ LTypeOK /\ QTypeOK
  BY PTypeParts
<1>2. LedgerInv' /\ LTypeOK' /\ moved \subseteq moved'
  BY PipelineLedger, LedgerMoveKeeps DEF LedgerInv
<1>3. QTypeOK'
  BY <1>1, PipelineQueue, QueueMoveKeeps
<1>4. ASSUME UNCHANGED <<stage, wpc>> PROVE StageTyped'
  BY <1>1, <1>4 DEF StageTyped
<1>5. ASSUME UNCHANGED <<jobVars, provVars, apiVars>>
      PROVE  RowTyped' /\ ProvTyped' /\ ApiTyped'
  BY <1>1, <1>5 DEF RowTyped, jobVars, ProvTyped, provVars, ApiTyped, apiVars
<1>6. ASSUME NEW j \in Jobs, ApiStep(j)
      PROVE  RowTyped' /\ ProvTyped' /\ ApiTyped' /\ StageTyped'
  BY <1>1, <1>4, <1>6, ApiRow, ApiPlaces, ApiFrames
<1>7. ASSUME NEW w \in Workers, ProcessStep(w) \/ ProcessFault(w)
      PROVE  RowTyped' /\ ProvTyped' /\ ApiTyped' /\ StageTyped'
  <2>1. ProvTyped' /\ ApiTyped'
    BY <1>1, <1>7, ProcessFrames DEF ProvTyped, provVars, ApiTyped, apiVars
  <2> QED BY <1>7, <2>1, ProcessRow, ProcessStages
<1>8. ASSUME NEW w \in Workers, RunOnceStep(w) \/ RunOnceFault(w)
      PROVE  RowTyped' /\ ProvTyped' /\ ApiTyped' /\ StageTyped'
  BY <1>5, <1>8, RunOnceStages DEF RunOnceStep, RunOnceFault, QueueFrame
<1>9. ASSUME NEW j \in Jobs, MoverTick(j) \/ StaleTick(j) \/ LockTTL(j) \/ ActiveAge(j)
      PROVE  RowTyped' /\ ProvTyped' /\ ApiTyped' /\ StageTyped'
  BY <1>4, <1>5, <1>9
     DEF MoverTick, StaleTick, LockTTL, ActiveAge, QueueFrame, MoveDueDelayed,
         RecoverStaleActive, ExpireLock, AgeActive, worker
<1>10. ASSUME UNCHANGED pvars PROVE RowTyped' /\ ProvTyped' /\ ApiTyped' /\ StageTyped'
  BY <1>4, <1>5, <1>10 DEF pvars, qvars
<1> QED
  BY <1>2, <1>3, <1>6, <1>7, <1>8, <1>9, <1>10, PTypeParts DEF PNext, ApiStep

\* The initial state is well typed and its books are balanced.
LEMMA PTypeInit == PInit => PTypeOK /\ LedgerInv
<1> SUFFICES ASSUME PInit PROVE PTypeOK /\ LedgerInv
  OBVIOUS
<1>1. LedgerInv
  BY LedgerAssumption
     DEF PInit, LInit, LedgerInv, LTypeOK, MoneyConserved, ClaimsMoved, Claimed,
         NoPhantomRelease, Moved, NoClaim, RequestIDs, Kinds
<1>2. QTypeOK
  BY QueueAssumption DEF PInit, QInit, QTypeOK, WorkerPcs
<1>3. RowTyped /\ ProvTyped /\ ApiTyped
  BY PipelineAssumption
     DEF PInit, RowTyped, ProvTyped, ApiTyped, Statuses, ProvStates, SubmitPcs, CancelPcs,
         RecoveryPcs
<1>4. StageTyped
  BY DEF PInit, QInit, StageTyped, Stages
<1> QED BY <1>1, <1>2, <1>3, <1>4, PTypeParts DEF LedgerInv

\* Types and balanced books, in every reachable state.
LEMMA PipelineTypes == PSpec => [](PTypeOK /\ LedgerInv)
<1>1. PTypeOK /\ LedgerInv /\ [PNext]_pvars => (PTypeOK /\ LedgerInv)'
  BY PTypeStep
<1> QED BY <1>1, PTypeInit, PTL DEF PSpec

\* Every variable of the pipeline keeps its type, whatever fails.
THEOREM PTypeCorrect == PSpec => []PTypeOK
BY PipelineTypes, PTL

-----------------------------------------------------------------------------
(* The job row and the handlers under the pipeline.                         *)

\* What the transition table says of the sets above.
LEMMA TableFacts ==
    ASSUME NEW s \in Statuses, NEW t \in Statuses, CanTransition(s, t)
    PROVE  /\ s # "none"
           /\ s \in Past => t \in Past
           /\ t \in {"running", "indexing"} => s \in Live
           /\ t = "output_deleted" => IsTerminal(s)
           /\ t = "settling" => s = "indexing"
           /\ t = "completed" => s = "settling"
BY DEF Statuses, CanTransition, Allowed, IsTerminal, Past, Live

\* Who changes the status of j, from where.
RowMove(j) ==
    \/ status'[j] = status[j]
    \/ spc[j] = "start" /\ spc'[j] = "reserve" /\ status'[j] = "created"
    \/ spc[j] \in {"record", "recordRetry"} /\ status'[j] = "failed"
    \/ /\ CanTransition(status[j], status'[j])
       /\ \/ spc[j] = "upload" /\ status'[j] = "uploading"
          \/ spc[j] = "persist" /\ status'[j] = "submitted" /\ spc'[j] \in {"enqueue", "abort"}
          \/ cpc[j] = "transition" /\ status'[j] = "cancelled"
          \/ status[j] \in {"created", "uploading"} /\ status'[j] = "failed"
          \/ status[j] = "completed" /\ status'[j] = "output_deleted"
          \/ \E w \in Workers :
               /\ wjob[w] = j
               /\ \/ /\ stage[w] = status'[j]
                     /\ stage[w] \in {"running", "indexing", "failed", "cancelled", "settling"}
                  \/ stage[w] = "exhaustFail" /\ status'[j] = "failed"
                  \/ stage[w] = "mark" /\ status'[j] = "completed"

\* A step that leaves the row alone, and the writes of one row.
LEMMA RowFrames ==
    ASSUME RowTyped, NEW j \in Jobs, NEW k \in Jobs
    PROVE  /\ UNCHANGED status => RowMove(k)
           /\ \A s : SetStatus(j, s) => status'[j] = s /\ (k # j => status'[k] = status[k])
           /\ \A s : Transition(j, s) =>
                /\ CanTransition(status[j], s)
                /\ status'[j] = s /\ (k # j => status'[k] = status[k])
BY DEF RowTyped, RowMove, Transition, SetStatus

\* The API changes a row from the right place of the right handler.
LEMMA ApiMovesRow ==
    ASSUME RowTyped, ApiTyped, NEW j \in Jobs, ApiStep(j), NEW k \in Jobs
    PROVE  RowMove(k)
<1>1. ASSUME UNCHANGED status PROVE RowMove(k)
  BY <1>1, RowFrames
<1>2. ASSUME NEW s, SetStatus(j, s), k # j PROVE RowMove(k)
  BY <1>2, RowFrames DEF RowMove
<1>3. ASSUME NEW s, SetStatus(j, s) PROVE status'[j] = s
  BY <1>3, RowFrames
<1>4. ASSUME SubmitCreate(j) PROVE RowMove(k)
  <2>1. SetStatus(j, "created") /\ spc[j] = "start" /\ spc'[j] = "reserve"
    BY <1>4 DEF SubmitCreate, SubmitGoto, ApiTyped
  <2> QED BY <1>2, <1>3, <2>1 DEF RowMove
<1>5. ASSUME Transition(j, "uploading"), spc[j] = "upload" PROVE RowMove(k)
  BY <1>5, RowFrames DEF RowMove
<1>6. ASSUME Transition(j, "cancelled"), cpc[j] = "transition" PROVE RowMove(k)
  BY <1>6, RowFrames DEF RowMove
<1>7. ASSUME SubmitPersist(j) \/ SubmitPersistLost(j) PROVE RowMove(k)
  <2>1. CASE UNCHANGED status
    BY <1>1, <2>1
  <2>2. CASE status' # status
    <3>1. /\ SetStatus(j, "submitted") /\ CanTransition(status[j], "submitted")
          /\ spc[j] = "persist" /\ spc'[j] \in {"enqueue", "abort"}
      BY <1>7, <2>2 DEF SubmitPersist, SubmitPersistLost, SubmitGoto, ApiTyped, jobVars
    <3> QED BY <1>2, <1>3, <3>1 DEF RowMove
  <2> QED BY <2>1, <2>2
<1>8. ASSUME SubmitRecord(j) PROVE RowMove(k)
  BY <1>2, <1>3, <1>8 DEF SubmitRecord, RecordSubmitFailure, RowMove
<1>9. ASSUME RecoverFail(j) PROVE RowMove(k)
  <2>1. SetStatus(j, "failed") /\ status[j] \in {"created", "uploading"}
    BY <1>9 DEF RecoverFail
  <2>2. CanTransition(status[j], "failed")
    BY <2>1 DEF CanTransition, IsTerminal
  <2> QED BY <1>2, <1>3, <2>1, <2>2 DEF RowMove
<1>10. ASSUME DeleteOutput(j) PROVE RowMove(k)
  <2>1. SetStatus(j, "output_deleted") /\ status[j] = "completed"
    BY <1>10 DEF DeleteOutput
  <2>2. CanTransition(status[j], "output_deleted")
    BY <2>1 DEF CanTransition, IsTerminal
  <2> QED BY <1>2, <1>3, <2>1, <2>2 DEF RowMove
<1>11. ASSUME SubmitStep(j) PROVE RowMove(k)
  BY <1>1, <1>4, <1>5, <1>7, <1>8, <1>11
     DEF SubmitStep, SubmitReserve, SubmitItems, SubmitUpload, SubmitProvider, SubmitAbort,
         SubmitEnqueue, SubmitRelease, SubmitRecordQueue, jobVars
<1>12. ASSUME SubmitHeartbeat(j) \/ SubmitErr(j) \/ SubmitCrash(j) \/ SubmitReplay(j)
              \/ AgeJob(j) \/ ProviderStep(j)
       PROVE RowMove(k)
  BY <1>1, <1>12
     DEF SubmitHeartbeat, SubmitErr, SubmitCrash, SubmitReplay, AgeJob, ProviderStep, jobVars
<1>13. ASSUME CancelRead(j) \/ CancelStep(j) \/ CancelErr(j) \/ CancelCrash(j) PROVE RowMove(k)
  BY <1>1, <1>6, <1>13
     DEF CancelRead, CancelStep, CancelProvider, CancelTransition, CancelRelease,
         CancelEnqueue, CancelErr, CancelCrash, jobVars
<1>14. ASSUME RecoveryStep(j) \/ RecoverErr(j) \/ RecoverCrash(j) PROVE RowMove(k)
  BY <1>1, <1>9, <1>14
     DEF RecoveryStep, RecoverRelease, RecoverEnqueue, RecoverErr, RecoverCrash, jobVars
<1> QED BY <1>7, <1>10, <1>11, <1>12, <1>13, <1>14 DEF ApiStep

\* A worker changes the row it works on, as its stage says.
LEMMA ProcessMovesRow ==
    ASSUME PTypeOK, NEW w \in Workers, ProcessStep(w) \/ ProcessFault(w), NEW k \in Jobs
    PROVE  RowMove(k)
<1>1. RowTyped
  BY PTypeParts
<1>2. ASSUME UNCHANGED status PROVE RowMove(k)
  BY <1>1, <1>2, RowFrames
<1>3. ASSUME NEW s, At(w, s) PROVE wjob[w] \in Jobs
  BY <1>3 DEF At, PTypeOK, QTypeOK
<1>4. ASSUME NEW t \in {"running", "indexing", "failed", "cancelled", "settling"},
             At(w, t), Transition(wjob[w], t)
      PROVE  RowMove(k)
  <2>1. /\ CanTransition(status[wjob[w]], t) /\ status'[wjob[w]] = t
        /\ k # wjob[w] => status'[k] = status[k]
    BY <1>1, <1>3, <1>4, RowFrames
  <2>2. stage[w] = t
    BY <1>4 DEF At
  <2> QED BY <2>1, <2>2 DEF RowMove
<1>5. ASSUME At(w, "exhaustFail"), Transition(wjob[w], "failed") PROVE RowMove(k)
  <2>1. /\ CanTransition(status[wjob[w]], "failed") /\ status'[wjob[w]] = "failed"
        /\ k # wjob[w] => status'[k] = status[k]
    BY <1>1, <1>3, <1>5, RowFrames
  <2>2. stage[w] = "exhaustFail"
    BY <1>5 DEF At
  <2> QED BY <2>1, <2>2 DEF RowMove
<1>6. ASSUME At(w, "mark"), SetStatus(wjob[w], "completed"),
             CanTransition(status[wjob[w]], "completed")
      PROVE  RowMove(k)
  <2>1. status'[wjob[w]] = "completed" /\ (k # wjob[w] => status'[k] = status[k])
    BY <1>1, <1>3, <1>6, RowFrames
  <2>2. stage[w] = "mark"
    BY <1>6 DEF At
  <2> QED BY <1>6, <2>1, <2>2 DEF RowMove
<1>7. ASSUME ProviderTransition(w) \/ TransitionLost(w) PROVE RowMove(k)
  BY <1>2, <1>4, <1>5, <1>6, <1>7
     DEF ProviderTransition, TransitionLost, Transition, jobVars
<1>8. ASSUME ExhaustFail(w) PROVE RowMove(k)
  BY <1>2, <1>5, <1>8 DEF ExhaustFail, jobVars
<1>9. ASSUME MarkSettled(w) PROVE RowMove(k)
  <2>1. CanTransition("settling", "completed")
    BY DEF CanTransition, Allowed, IsTerminal
  <2> QED BY <1>2, <1>6, <1>9, <2>1 DEF MarkSettled, jobVars
<1>10. ASSUME ProcessRead(w) \/ ProviderLookup(w) \/ ProviderGet(w) \/ ProcessRelease(w)
              \/ Index(w) \/ Settle(w) \/ Capture(w) \/ RecordSettlementFailure(w)
              \/ ExhaustRelease(w) \/ ExhaustRecord(w) \/ CaptureErr(w)
              \/ RecordSettlementFailureErr(w) \/ ExhaustReleaseErr(w) \/ ProcessErr(w)
       PROVE RowMove(k)
  BY <1>2, <1>10
     DEF ProcessRead, ProviderLookup, ProviderGet, ProcessRelease, Index, Settle, Capture,
         RecordSettlementFailure, ExhaustRelease, ExhaustRecord, CaptureErr,
         RecordSettlementFailureErr, ExhaustReleaseErr, ProcessErr, SetSettlementFailed, jobVars
<1> QED BY <1>7, <1>8, <1>9, <1>10 DEF ProcessStep, ProcessFault

\* Every change of a status is one of these.
LEMMA PipelineRows == ASSUME PTypeOK, [PNext]_pvars, NEW k \in Jobs PROVE RowMove(k)
<1>1. RowTyped /\ ApiTyped
  BY PTypeParts
<1>2. ASSUME UNCHANGED jobVars PROVE RowMove(k)
  BY <1>1, <1>2, RowFrames DEF jobVars
<1>3. ASSUME NEW w \in Workers, RunOnceStep(w) \/ RunOnceFault(w) PROVE RowMove(k)
  BY <1>2, <1>3 DEF RunOnceStep, RunOnceFault, QueueFrame
<1>4. ASSUME NEW j \in Jobs, MoverTick(j) \/ StaleTick(j) \/ LockTTL(j) \/ ActiveAge(j)
      PROVE RowMove(k)
  BY <1>2, <1>4 DEF MoverTick, StaleTick, LockTTL, ActiveAge, QueueFrame
<1>5. ASSUME UNCHANGED pvars PROVE RowMove(k)
  BY <1>2, <1>5 DEF pvars
<1> QED
  BY <1>1, <1>3, <1>4, <1>5, ApiMovesRow, ProcessMovesRow DEF PNext, ApiStep

\* How the handlers of j get where they are.
PlaceMove(j) ==
    /\ spc'[j] = "start" => spc[j] = "start"
    /\ spc'[j] = "reserve" => spc[j] \in {"start", "reserve"}
    /\ spc'[j] \in Funding =>
         \/ spc[j] \in Funding
         \/ /\ spc[j] = "reserve" /\ ReserveTx(j)
            /\ ReserveResult(j) \in {"ok", "duplicate", "skipped"}
    /\ spc[j] \in Submitted => spc'[j] \in Submitted
    /\ cpc'[j] = "release" \/ rpc'[j] = "release" =>
         cpc[j] = "release" \/ rpc[j] = "release" \/ status'[j] \in Past

\* Submit runs forward; Cancel and the recovery release after they closed the job.
LEMMA ApiMovesPlace ==
    ASSUME RowTyped, ApiTyped, NEW j \in Jobs, ApiStep(j), NEW k \in Jobs
    PROVE  PlaceMove(k)
<1>1. ASSUME UNCHANGED <<spc, cpc, rpc>> PROVE PlaceMove(k)
  BY <1>1 DEF PlaceMove
<1>2. ASSUME NEW p, SubmitGoto(j, p)
      PROVE  /\ k # j => PlaceMove(k)
             /\ spc'[j] = p /\ UNCHANGED <<cpc, rpc>>
  BY <1>2 DEF SubmitGoto, ApiTyped, PlaceMove
<1>3. ASSUME NEW p, SubmitGoto(j, p),
             \/ p \notin {"start", "reserve"} \cup Funding \cup Submitted
                /\ spc[j] \notin Submitted
             \/ p \in Funding /\ spc[j] \in Funding
             \/ p \in Submitted
             \/ p = "reserve" /\ spc[j] = "start"
      PROVE  PlaceMove(k)
  BY <1>2, <1>3 DEF PlaceMove, Funding, Submitted
<1>4. ASSUME SubmitReserve(j) PROVE PlaceMove(k)
  <2>1. CASE ReserveResult(j) \in {"ok", "duplicate", "skipped"}
    <3>1. SubmitGoto(j, "items") /\ spc[j] = "reserve" /\ ReserveTx(j)
      BY <1>4, <2>1 DEF SubmitReserve
    <3> QED BY <1>2, <2>1, <3>1 DEF PlaceMove, Funding, Submitted
  <2>2. CASE ReserveResult(j) \notin {"ok", "duplicate", "skipped"}
    BY <1>3, <1>4, <2>2 DEF SubmitReserve, Funding, Submitted
  <2> QED BY <2>1, <2>2
<1>5. ASSUME SubmitCreate(j) \/ SubmitItems(j) \/ SubmitUpload(j) \/ SubmitProvider(j)
             \/ SubmitPersist(j) \/ SubmitPersistLost(j)
      PROVE PlaceMove(k)
  BY <1>3, <1>5
     DEF SubmitCreate, SubmitItems, SubmitUpload, SubmitProvider, SubmitPersist,
         SubmitPersistLost, Funding, Submitted
<1>6. ASSUME SubmitAbort(j) \/ SubmitEnqueue(j) \/ SubmitRelease(j) \/ SubmitRecord(j)
             \/ SubmitRecordQueue(j) \/ SubmitCrash(j)
      PROVE PlaceMove(k)
  BY <1>3, <1>6
     DEF SubmitAbort, SubmitEnqueue, SubmitRelease, SubmitRecord, SubmitRecordQueue,
         SubmitCrash, Funding, Submitted
<1>7. ASSUME SubmitErr(j) PROVE PlaceMove(k)
  <2>1. \/ SubmitOnError(spc[j]) \in Submitted
        \/ /\ SubmitOnError(spc[j]) \notin {"start", "reserve"} \cup Funding \cup Submitted
           /\ spc[j] \notin Submitted
    BY <1>7 DEF SubmitErr, SubmitOnError, Funding, Submitted
  <2> QED BY <1>3, <1>7, <2>1 DEF SubmitErr
<1>8. ASSUME SubmitHeartbeat(j) \/ SubmitReplay(j) \/ AgeJob(j) \/ ProviderStep(j)
             \/ DeleteOutput(j)
      PROVE PlaceMove(k)
  BY <1>1, <1>8 DEF SubmitHeartbeat, SubmitReplay, AgeJob, ProviderStep, DeleteOutput, apiVars
<1>9. ASSUME NEW p, CancelGoto(j, p), p = "release" => status'[j] \in Past PROVE PlaceMove(k)
  BY <1>9 DEF CancelGoto, ApiTyped, PlaceMove
<1>10. ASSUME CancelRead(j) PROVE PlaceMove(k)
  <2>1. UNCHANGED <<spc, rpc, status>>
    BY <1>10 DEF CancelRead, jobVars
  <2>2. k # j => cpc'[k] = cpc[k]
    BY <1>10 DEF CancelRead, ApiTyped
  <2>3. cpc'[j] = "release" => status[j] \in {"failed", "cancelled"}
    BY <1>10 DEF CancelRead, ApiTyped
  <2> QED BY <2>1, <2>2, <2>3 DEF PlaceMove, Past
<1>11. ASSUME CancelTransition(j) PROVE PlaceMove(k)
  <2>1. ASSUME Transition(j, "cancelled") PROVE status'[j] \in Past
    BY <2>1, RowFrames DEF Past
  <2> QED BY <1>9, <1>11, <2>1 DEF CancelTransition
<1>12. ASSUME CancelProvider(j) \/ CancelRelease(j) \/ CancelEnqueue(j) \/ CancelErr(j)
              \/ CancelCrash(j)
       PROVE PlaceMove(k)
  BY <1>9, <1>12 DEF CancelProvider, CancelRelease, CancelEnqueue, CancelErr, CancelCrash
<1>13. ASSUME NEW p, RecoveryGoto(j, p), p = "release" => status'[j] \in Past
       PROVE PlaceMove(k)
  BY <1>13 DEF RecoveryGoto, ApiTyped, PlaceMove
<1>14. ASSUME RecoverFail(j) PROVE PlaceMove(k)
  <2>1. status'[j] \in Past
    BY <1>14, RowFrames DEF RecoverFail, Past
  <2> QED BY <1>13, <1>14, <2>1 DEF RecoverFail
<1>15. ASSUME RecoverRelease(j) \/ RecoverEnqueue(j) \/ RecoverErr(j) \/ RecoverCrash(j)
       PROVE PlaceMove(k)
  BY <1>13, <1>15 DEF RecoverRelease, RecoverEnqueue, RecoverErr, RecoverCrash
<1> QED
  BY <1>4, <1>5, <1>6, <1>7, <1>8, <1>10, <1>11, <1>12, <1>14, <1>15
     DEF ApiStep, SubmitStep, CancelStep, RecoveryStep

\* The workers and the queue leave the handlers where they are.
LEMMA PipelinePlaces == ASSUME PTypeOK, [PNext]_pvars, NEW k \in Jobs PROVE PlaceMove(k)
<1>1. RowTyped /\ ApiTyped
  BY PTypeParts
<1>2. ASSUME UNCHANGED apiVars PROVE PlaceMove(k)
  BY <1>2 DEF PlaceMove, apiVars
<1>3. ASSUME NEW w \in Workers, ProcessStep(w) \/ ProcessFault(w) PROVE PlaceMove(k)
  BY <1>2, <1>3, ProcessFrames
<1>4. ASSUME NEW w \in Workers, RunOnceStep(w) \/ RunOnceFault(w) PROVE PlaceMove(k)
  BY <1>2, <1>4 DEF RunOnceStep, RunOnceFault, QueueFrame
<1>5. ASSUME NEW j \in Jobs, MoverTick(j) \/ StaleTick(j) \/ LockTTL(j) \/ ActiveAge(j)
      PROVE PlaceMove(k)
  BY <1>2, <1>5 DEF MoverTick, StaleTick, LockTTL, ActiveAge, QueueFrame
<1>6. ASSUME UNCHANGED pvars PROVE PlaceMove(k)
  BY <1>2, <1>6 DEF pvars
<1> QED
  BY <1>1, <1>3, <1>4, <1>5, <1>6, ApiMovesPlace DEF PNext, ApiStep

\* How a worker gets to the stages that close a job.
StageMove(w) ==
    /\ stage'[w] # "none" =>
         wjob'[w] = wjob[w] /\ wjob[w] \in Jobs /\ (stage[w] # "none" \/ stage'[w] = "read")
    /\ stage'[w] \in Closing => stage[w] \in Closing \/ status'[wjob[w]] \in Past
    /\ stage'[w] = "mark" => stage[w] = "mark" \/ Moved("capture", wjob[w])'

\* A step of Process moves its own worker only, along the code.
LEMMA ProcessMovesStage ==
    ASSUME PTypeOK, LedgerInv, NEW w \in Workers, ProcessStep(w) \/ ProcessFault(w),
           NEW v \in Workers
    PROVE  StageMove(v)
<1>0. StageTyped /\ RowTyped /\ QTypeOK
  BY PTypeParts
<1>1. ASSUME NEW u \in Workers, wpc[u] = "processing" PROVE wjob[u] \in Jobs
  BY <1>0, <1>1 DEF QTypeOK
<1>2. ASSUME NEW p, Proceed(w, p),  wpc[w] = "processing"
      PROVE  /\ v # w => StageMove(v)
             /\ UNCHANGED wjob
             /\ stage'[w] = IF p \in {"ack", "requeue"} THEN "none" ELSE p
  <2>1. /\ UNCHANGED wjob
        /\ stage'[w] = IF p \in {"ack", "requeue"} THEN "none" ELSE p
        /\ v # w => stage'[v] = stage[v]
    BY <1>0, <1>2 DEF Proceed, Goto, worker, StageTyped
  <2>2. stage[v] # "none" => wjob[v] \in Jobs
    BY <1>0, <1>1 DEF StageTyped
  <2> QED BY <2>1, <2>2 DEF StageMove, Closing
<1>3. ASSUME NEW p, Proceed(w, p), wpc[w] = "processing",
             p \in Closing => stage[w] \in Closing \/ status'[wjob[w]] \in Past,
             p = "mark" => Moved("capture", wjob[w])'
      PROVE  StageMove(v)
  <2>1. stage[w] # "none"
    BY <1>0, <1>3 DEF StageTyped
  <2> QED BY <1>1, <1>2, <1>3, <2>1 DEF StageMove, Closing
<1>4. ASSUME NEW s, At(w, s) PROVE wpc[w] = "processing" /\ stage[w] = s /\ wjob[w] \in Jobs
  BY <1>1, <1>4 DEF At
<1>5. ASSUME ProcessRead(w) \/ ProviderGet(w) PROVE StageMove(v)
  BY <1>3, <1>4, <1>5 DEF ProcessRead, ProviderGet, Closing
<1>6. ASSUME ProviderLookup(w) PROVE StageMove(v)
  <2>1. UNCHANGED status /\ At(w, "lookup")
    BY <1>6 DEF ProviderLookup, jobVars
  <2> QED BY <1>3, <1>4, <1>6, <2>1 DEF ProviderLookup, Closing, Past
<1>7. ASSUME NEW to \in {"running", "indexing", "failed", "cancelled", "settling"},
             At(w, to), Transition(wjob[w], to),
             Proceed(w, CASE to \in {"running", "settling"} -> "requeue"
                          [] to = "indexing"                -> "index"
                          [] OTHER                          -> "release")
      PROVE  StageMove(v)
  <2>1. status'[wjob[w]] = to
    BY <1>0, <1>4, <1>7, RowFrames
  <2> QED BY <1>3, <1>4, <1>7, <2>1 DEF Closing, Past
<1>8. ASSUME NEW s, At(w, s), Proceed(w, "requeue") \/ Proceed(w, "ack") PROVE StageMove(v)
  BY <1>3, <1>4, <1>8 DEF Closing
<1>9. ASSUME ProviderTransition(w) PROVE StageMove(v)
  BY <1>7, <1>8, <1>9 DEF ProviderTransition
<1>10. ASSUME ProcessRelease(w) \/ ExhaustFail(w) \/ MarkSettled(w) \/ TransitionLost(w)
       PROVE StageMove(v)
  BY <1>8, <1>10 DEF ProcessRelease, ExhaustFail, MarkSettled, TransitionLost
<1>11. ASSUME ProcessErr(w) PROVE StageMove(v)
  <2>1. At(w, stage[w]) /\ Proceed(w, "requeue")
    BY <1>11 DEF ProcessErr, At
  <2> QED BY <1>8, <2>1
<1>12. ASSUME Index(w) PROVE StageMove(v)
  BY <1>3, <1>4, <1>12 DEF Index, Closing
<1>13. ASSUME Settle(w) PROVE StageMove(v)
  <2>1. UNCHANGED status /\ At(w, "settle")
    BY <1>13 DEF Settle, jobVars
  <2> DEFINE j == wjob[w]
             p == IF status[j] = "completed" THEN "ack"
                  ELSE IF status[j] # "settling" THEN "requeue"
                  ELSE IF RetryExhausted(j) THEN "exhaust"
                  ELSE IF cost[j] > Hold[j] THEN "recordFailure"
                  ELSE "capture"
  <2>2. Proceed(w, p)
    BY <1>13 DEF Settle
  <2>3. p # "mark" /\ (p \in Closing => status[j] = "settling")
    BY DEF Closing
  <2> HIDE DEF p
  <2> QED BY <1>3, <1>4, <2>1, <2>2, <2>3 DEF Past
<1>14. ASSUME Capture(w) PROVE StageMove(v)
  <2>1. /\ At(w, "capture") /\ CaptureTx(wjob[w], cost[wjob[w]])
        /\ Proceed(w, IF CaptureResult(wjob[w], cost[wjob[w]]) \in {"ok", "duplicate"}
                      THEN "mark" ELSE "recordFailure")
    BY <1>14 DEF Capture
  <2>2. /\ wjob[w] \in Jobs /\ wpc[w] = "processing" /\ stage[w] = "capture"
        /\ UNCHANGED wjob
    BY <1>2, <1>4, <2>1
  <2>3. CASE CaptureResult(wjob[w], cost[wjob[w]]) = "ok"
    <3>1. Moved("capture", wjob[w])'
      BY <2>1, <2>2, <2>3 DEF CaptureTx, Moved
    <3> QED BY <1>3, <2>1, <2>2, <2>3, <3>1 DEF Closing
  <2>4. CASE CaptureResult(wjob[w], cost[wjob[w]]) = "duplicate"
    <3>1. Claimed("capture", wjob[w])
      BY <2>4 DEF CaptureResult, ClaimResult
    <3>2. Moved("capture", wjob[w])
      BY <2>2, <3>1 DEF LedgerInv, ClaimsMoved
    <3>3. Moved("capture", wjob[w])'
      BY <2>1, <2>2, <2>4, <3>2 DEF CaptureTx, Moved, lvars
    <3> QED BY <1>3, <2>1, <2>2, <2>4, <3>3 DEF Closing
  <2>5. CASE CaptureResult(wjob[w], cost[wjob[w]]) \notin {"ok", "duplicate"}
    BY <1>3, <2>1, <2>2, <2>5 DEF Closing
  <2> QED BY <2>3, <2>4, <2>5
<1>15. ASSUME CaptureErr(w) \/ ExhaustRelease(w) \/ ExhaustReleaseErr(w) PROVE StageMove(v)
  BY <1>3, <1>4, <1>15 DEF CaptureErr, ExhaustRelease, ExhaustReleaseErr, Closing
<1>16. ASSUME RecordSettlementFailure(w) \/ RecordSettlementFailureErr(w) \/ ExhaustRecord(w)
       PROVE StageMove(v)
  BY <1>3, <1>4, <1>16
     DEF RecordSettlementFailure, RecordSettlementFailureErr, ExhaustRecord, AfterFailure,
         AfterBillingFailed, Closing
<1> QED
  BY <1>5, <1>6, <1>9, <1>10, <1>11, <1>12, <1>13, <1>14, <1>15, <1>16
     DEF ProcessStep, ProcessFault

\* RunOnce, the API and the queue never move a worker towards the end of a job.
LEMMA PipelineStages ==
    ASSUME PTypeOK, LedgerInv, [PNext]_pvars, NEW v \in Workers PROVE StageMove(v)
<1>0. StageTyped /\ QTypeOK
  BY PTypeParts
<1>1. stage[v] # "none" => wjob[v] \in Jobs
  BY <1>0 DEF StageTyped, QTypeOK
<1>2. ASSUME UNCHANGED <<stage, wjob>> PROVE StageMove(v)
  BY <1>1, <1>2 DEF StageMove, Closing
<1>3. ASSUME NEW j \in Jobs, ApiStep(j) PROVE UNCHANGED <<stage, wjob>>
  BY <1>3, ApiFrames
<1>4. ASSUME NEW j \in Jobs, MoverTick(j) \/ StaleTick(j) \/ LockTTL(j) \/ ActiveAge(j)
      PROVE UNCHANGED <<stage, wjob>>
  BY <1>4 DEF MoverTick, StaleTick, LockTTL, ActiveAge, MoveDueDelayed, RecoverStaleActive,
              ExpireLock, AgeActive, worker
<1>5. ASSUME UNCHANGED pvars PROVE UNCHANGED <<stage, wjob>>
  BY <1>5 DEF pvars, qvars
<1>6. ASSUME NEW w \in Workers, RunOnceStep(w) \/ RunOnceFault(w) PROVE StageMove(v)
  <2>1. ASSUME UNCHANGED stage, v # w => wjob'[v] = wjob[v], v = w => stage[v] = "none"
        PROVE StageMove(v)
    BY <1>1, <2>1 DEF StageMove, Closing
  <2>2. wpc[w] # "processing" => stage[w] = "none"
    BY <1>0 DEF StageTyped
  <2>3. ASSUME Reserve(w) \/ RequeueConflict(w) \/ Requeue(w) \/ Ack(w) \/ ReleaseLock(w)
               \/ TryAcquireJobLockFails(w) \/ QueueCallFails(w),
               UNCHANGED stage
        PROVE StageMove(v)
    BY <1>0, <2>1, <2>2, <2>3
       DEF Reserve, RequeueConflict, Requeue, Ack, ReleaseLock, TryAcquireJobLockFails,
           QueueCallFails, Goto, GoIdle, QTypeOK
  <2>4. ASSUME TryAcquireJobLock(w),
               stage' = [stage EXCEPT ![w] = IF lock[wjob[w]] = NoWorker THEN "read" ELSE "none"]
        PROVE  StageMove(v)
    <3>1. UNCHANGED wjob /\ wjob[w] \in Jobs
      BY <1>0, <2>4 DEF TryAcquireJobLock, Goto, QTypeOK
    <3>2. stage'[w] \in {"read", "none"} /\ (v # w => stage'[v] = stage[v])
      BY <1>0, <2>4 DEF StageTyped
    <3> QED BY <1>1, <3>1, <3>2 DEF StageMove, Closing
  <2>5. ASSUME Heartbeat(w) \/ Stall(w), UNCHANGED stage PROVE StageMove(v)
    BY <1>2, <2>5 DEF Heartbeat, Stall
  <2>6. ASSUME Crash(w), stage' = [stage EXCEPT ![w] = "none"] PROVE StageMove(v)
    <3>1. v # w => stage'[v] = stage[v] /\ wjob'[v] = wjob[v]
      BY <1>0, <2>6 DEF Crash, GoIdle, StageTyped, QTypeOK
    <3>2. stage'[w] = "none"
      BY <1>0, <2>6 DEF StageTyped
    <3> QED BY <1>1, <3>1, <3>2 DEF StageMove, Closing
  <2> QED BY <1>6, <2>3, <2>4, <2>5, <2>6 DEF RunOnceStep, RunOnceFault
<1> QED
  BY <1>2, <1>3, <1>4, <1>5, <1>6, ProcessMovesStage DEF PNext, ApiStep

-----------------------------------------------------------------------------
(* The invariant.                                                           *)

\* A transaction for one job leaves the funds of the others alone, and which
\* request ids can come to move money.
LEMMA MoneyMoves ==
    ASSUME PipelineInv, LedgerMove, NEW j \in Jobs
    PROVE  /\ Moved("hold", j)' => Moved("hold", j) \/ spc'[j] \in {"items", "record"}
           /\ Moved("release", j)' => Moved("release", j) \/ Releasing(j)
           /\ Moved("capture", j)' => Moved("capture", j) \/ status[j] \in Past
<1>1. CASE UNCHANGED lvars
  BY <1>1 DEF lvars, Moved
<1>2. ASSUME NEW i \in Jobs, ReserveTx(i), spc[i] = "reserve"
      PROVE  moved' \subseteq moved \cup {<<"hold", i>>}
  BY <1>2 DEF ReserveTx, lvars
<1>3. ASSUME NEW i \in Jobs, ReleaseTx(i) PROVE moved' \subseteq moved \cup {<<"release", i>>}
  BY <1>3 DEF ReleaseTx, lvars
<1>4. ASSUME NEW w \in Workers, CaptureTx(wjob[w], cost[wjob[w]])
      PROVE  moved' \subseteq moved \cup {<<"capture", wjob[w]>>}
  BY <1>4 DEF CaptureTx, lvars
<1>5. ASSUME NEW i \in Jobs, ReserveTx(i), spc[i] = "reserve",
             NEW p \in {"items", "record"}, spc' = [spc EXCEPT ![i] = p]
      PROVE  /\ Moved("hold", j)' => Moved("hold", j) \/ spc'[j] \in {"items", "record"}
             /\ Moved("release", j)' => Moved("release", j)
             /\ Moved("capture", j)' => Moved("capture", j)
  <2>1. spc'[i] = p
    BY <1>5, PTypeParts DEF PipelineInv, ApiTyped
  <2> QED BY <1>2, <1>5, <2>1 DEF Moved
<1>6. ASSUME NEW i \in Jobs, ReleaseTx(i), Releasing(i)
      PROVE  /\ Moved("hold", j)' => Moved("hold", j)
             /\ Moved("release", j)' => Moved("release", j) \/ Releasing(j)
             /\ Moved("capture", j)' => Moved("capture", j)
  BY <1>3, <1>6 DEF Moved
<1>7. ASSUME NEW w \in Workers, CaptureTx(wjob[w], cost[wjob[w]]), stage[w] = "capture"
      PROVE  /\ Moved("hold", j)' => Moved("hold", j)
             /\ Moved("release", j)' => Moved("release", j)
             /\ Moved("capture", j)' => Moved("capture", j) \/ status[j] \in Past
  <2>1. status[wjob[w]] \in Past
    BY <1>7 DEF PipelineInv, WorkersClose, Closing
  <2> QED BY <1>4, <1>7, <2>1 DEF Moved
<1> QED BY <1>1, <1>5, <1>6, <1>7 DEF LedgerMove

\* What a step does to the status of j.
LEMMA StatusFacts ==
    ASSUME PipelineInv, PTypeOK', NEW j \in Jobs, RowMove(j), PlaceMove(j)
    PROVE  /\ status[j] \in Past => status'[j] \in Past
           /\ status'[j] \in Live =>
                \/ status[j] \in Live
                \/ spc[j] = "persist" /\ spc'[j] \in Submitted /\ status[j] \notin Past
           /\ status'[j] \in {"completed", "output_deleted"} =>
                \/ status[j] \in {"completed", "output_deleted"}
                \/ \E w \in Workers : wjob[w] = j /\ stage[w] = "mark"
           /\ status[j] = "none" /\ spc'[j] = "start" => status'[j] = "none"
<1>1. status[j] \in Statuses /\ status'[j] \in Statuses
  BY PTypeParts DEF RowTyped, PipelineInv
<1>2. CASE status'[j] = status[j]
  BY <1>2
<1>3. CASE spc[j] = "start" /\ spc'[j] = "reserve" /\ status'[j] = "created"
  BY <1>3 DEF Past, Live, PipelineInv, SubmitFunds
<1>4. CASE spc[j] \in {"record", "recordRetry"} /\ status'[j] = "failed"
  BY <1>4 DEF Past, Live, PlaceMove
<1>5. CASE CanTransition(status[j], status'[j])
  BY <1>1, <1>5, TableFacts DEF RowMove, Past, Live, Submitted
<1> QED BY <1>2, <1>3, <1>4, <1>5 DEF RowMove

\* Only a job that was closed has its hold given back, before Submit got to it
\* or after it became live.
LEMMA ReleasingClosed ==
    ASSUME PipelineInv, NEW j \in Jobs, Releasing(j)
    PROVE  status[j] \in Past \/ spc[j] \in {"release", "releaseOnly"}
BY DEF Releasing, PipelineInv, WorkersClose, ApiCloses, Closing

\* One step of the pipeline keeps the invariant.
LEMMA PipelineStep == ASSUME PipelineInv, [PNext]_pvars PROVE PipelineInv'
<1>1. PTypeOK /\ LedgerInv
  BY DEF PipelineInv
<1>2. PTypeOK' /\ LedgerInv' /\ moved \subseteq moved'
  BY <1>1, PTypeStep
<1>3. LedgerMove
  BY <1>1, PipelineLedger
<1>4. \A j \in Jobs : RowMove(j) /\ PlaceMove(j)
  BY <1>1, PipelineRows, PipelinePlaces
<1>5. \A w \in Workers : StageMove(w)
  BY <1>1, PipelineStages
<1>6. ASSUME NEW j \in Jobs
      PROVE  /\ status[j] \in Past => status'[j] \in Past
             /\ status'[j] \in Live =>
                  \/ status[j] \in Live
                  \/ spc[j] = "persist" /\ spc'[j] \in Submitted /\ status[j] \notin Past
             /\ status'[j] \in {"completed", "output_deleted"} =>
                  \/ status[j] \in {"completed", "output_deleted"}
                  \/ \E w \in Workers : wjob[w] = j /\ stage[w] = "mark"
             /\ status[j] = "none" /\ spc'[j] = "start" => status'[j] = "none"
  BY <1>2, <1>4, StatusFacts
<1>7. WorkersClose'
  <2> SUFFICES ASSUME NEW w \in Workers
               PROVE  /\ stage'[w] \in Closing => status'[wjob'[w]] \in Past
                      /\ stage'[w] = "mark" => <<"capture", wjob'[w]>> \in moved'
    BY DEF WorkersClose, Moved
  <2>1. CASE stage'[w] = "none"
    BY <2>1 DEF Closing
  <2>2. CASE stage'[w] # "none"
    <3>1. wjob'[w] = wjob[w] /\ wjob[w] \in Jobs
      BY <1>5, <2>2 DEF StageMove
    <3>2. stage'[w] \in Closing => stage[w] \in Closing \/ status'[wjob[w]] \in Past
      BY <1>5 DEF StageMove
    <3>3. stage[w] \in Closing => status'[wjob[w]] \in Past
      BY <1>6, <3>1 DEF PipelineInv, WorkersClose
    <3>4. stage'[w] = "mark" => stage[w] = "mark" \/ <<"capture", wjob'[w]>> \in moved'
      BY <1>5 DEF StageMove, Moved
    <3>5. stage[w] = "mark" => <<"capture", wjob[w]>> \in moved'
      BY <1>2 DEF PipelineInv, WorkersClose, Moved
    <3> QED BY <3>1, <3>2, <3>3, <3>4, <3>5
  <2> QED BY <2>1, <2>2
<1>8. ApiCloses'
  <2> SUFFICES ASSUME NEW j \in Jobs, cpc'[j] = "release" \/ rpc'[j] = "release"
               PROVE  status'[j] \in Past
    BY DEF ApiCloses
  <2> QED BY <1>4, <1>6 DEF PlaceMove, PipelineInv, ApiCloses
<1>9. ASSUME NEW j \in Jobs
      PROVE  /\ <<"hold", j>> \in moved' => Moved("hold", j) \/ spc'[j] \in {"items", "record"}
             /\ <<"release", j>> \in moved' => Moved("release", j) \/ Releasing(j)
             /\ <<"capture", j>> \in moved' => Moved("capture", j) \/ status[j] \in Past
  BY <1>3, MoneyMoves DEF Moved
<1>10. ASSUME NEW j \in Jobs, status[j] \notin Past,
              spc[j] \notin {"release", "releaseOnly"}
       PROVE  /\ <<"release", j>> \in moved' => Moved("release", j)
              /\ <<"capture", j>> \in moved' => Moved("capture", j)
  BY <1>9, <1>10, ReleasingClosed
<1>11. ASSUME NEW j \in Jobs, status[j] \notin Past,
              spc[j] \notin {"release", "releaseOnly"}, Funded(j)
       PROVE  Funded(j)'
  BY <1>2, <1>10, <1>11 DEF Funded, HoldOpen, Moved
<1>12. SubmitFunds'
  <2> SUFFICES ASSUME NEW j \in Jobs
               PROVE  /\ spc'[j] = "start" => status'[j] = "none"
                      /\ spc'[j] \in {"start", "reserve"} /\ status'[j] \notin Past
                           => \A k \in Kinds : <<k, j>> \notin moved'
                      /\ spc'[j] \in Funding /\ status'[j] \notin Past => Funded(j)'
    BY DEF SubmitFunds, Moved
  <2>1. spc'[j] = "start" => status'[j] = "none"
    BY <1>4, <1>6 DEF PlaceMove, PipelineInv, SubmitFunds
  <2>2. ASSUME spc'[j] \in {"start", "reserve"}, status'[j] \notin Past
        PROVE  \A k \in Kinds : <<k, j>> \notin moved'
    <3>1. spc[j] \in {"start", "reserve"} /\ status[j] \notin Past
      BY <1>4, <1>6, <2>2 DEF PlaceMove
    <3>2. \A k \in Kinds : ~ Moved(k, j)
      BY <3>1 DEF PipelineInv, SubmitFunds
    <3>3. <<"release", j>> \notin moved' /\ <<"capture", j>> \notin moved'
      BY <1>10, <3>1, <3>2 DEF Kinds
    <3>4. <<"hold", j>> \notin moved'
      BY <1>9, <2>2, <3>2 DEF Kinds
    <3> QED BY <3>3, <3>4 DEF Kinds
  <2>3. ASSUME spc'[j] \in Funding, status'[j] \notin Past PROVE Funded(j)'
    <3>1. status[j] \notin Past
      BY <1>6, <2>3
    <3>2. CASE spc[j] \in Funding
      <4>1. Funded(j)
        BY <3>1, <3>2 DEF PipelineInv, SubmitFunds
      <4> QED BY <1>11, <3>1, <3>2, <4>1 DEF Funding
    <3>3. CASE /\ spc[j] = "reserve" /\ ReserveTx(j)
               /\ ReserveResult(j) \in {"ok", "duplicate", "skipped"}
      <4>1. \A k \in Kinds : ~ Moved(k, j)
        BY <3>1, <3>3 DEF PipelineInv, SubmitFunds
      <4>2. <<"release", j>> \notin moved' /\ <<"capture", j>> \notin moved'
        BY <1>10, <3>1, <3>3, <4>1 DEF Kinds
      <4>3. ~ Claimed("hold", j)
        BY <1>1, <4>1 DEF LedgerInv, ClaimsMoved, Kinds
      <4>4. Hold[j] > 0 => ReserveResult(j) = "ok"
        BY <3>3, <4>3, LedgerAssumption DEF ReserveResult, ClaimResult
      <4>5. Hold[j] > 0 => <<"hold", j>> \in moved'
        BY <3>3, <4>4 DEF ReserveTx
      <4> QED BY <4>2, <4>5 DEF Funded, HoldOpen, Moved
    <3> QED BY <1>4, <2>3, <3>2, <3>3 DEF PlaceMove
  <2> QED BY <2>1, <2>2, <2>3
<1>13. LiveFunded'
  <2> SUFFICES ASSUME NEW j \in Jobs, status'[j] \in Live
               PROVE  spc'[j] \in Submitted /\ Funded(j)'
    BY DEF LiveFunded
  <2>1. CASE status[j] \in Live
    <3>1. spc[j] \in Submitted /\ Funded(j)
      BY <2>1 DEF PipelineInv, LiveFunded
    <3>2. status[j] \notin Past /\ spc[j] \notin {"release", "releaseOnly"}
      BY <2>1, <3>1 DEF Live, Past, Submitted
    <3> QED BY <1>4, <1>11, <3>1, <3>2 DEF PlaceMove
  <2>2. CASE spc[j] = "persist" /\ spc'[j] \in Submitted /\ status[j] \notin Past
    <3>1. Funded(j)
      BY <2>2 DEF PipelineInv, SubmitFunds, Funding
    <3> QED BY <1>11, <2>2, <3>1
  <2> QED BY <1>6, <2>1, <2>2
<1>14. CompletedCharged'
  <2> SUFFICES ASSUME NEW j \in Jobs, status'[j] \in {"completed", "output_deleted"}
               PROVE  <<"capture", j>> \in moved'
    BY DEF CompletedCharged, Moved
  <2>1. Moved("capture", j)
    BY <1>6 DEF PipelineInv, CompletedCharged, WorkersClose
  <2> QED BY <1>2, <2>1 DEF Moved
<1> QED BY <1>2, <1>7, <1>8, <1>12, <1>13, <1>14 DEF PipelineInv

\* The initial state satisfies it.
LEMMA PipelineInit == PInit => PipelineInv
<1> SUFFICES ASSUME PInit PROVE PipelineInv
  OBVIOUS
<1>1. PTypeOK /\ LedgerInv
  BY PTypeInit
<1>2. /\ \A j \in Jobs : status[j] = "none" /\ spc[j] = "start" /\ cpc[j] = "idle"
                        /\ rpc[j] = "idle"
      /\ \A w \in Workers : stage[w] = "none"
      /\ moved = {}
  BY DEF PInit, LInit
<1>3. WorkersClose /\ ApiCloses
  BY <1>2 DEF WorkersClose, ApiCloses, Closing
<1>4. SubmitFunds /\ LiveFunded /\ CompletedCharged
  BY <1>2 DEF SubmitFunds, LiveFunded, CompletedCharged, Funding, Live, Moved
<1> QED BY <1>1, <1>3, <1>4 DEF PipelineInv

\* The pipeline invariant holds in every reachable state.
LEMMA PipelineInvariant == PSpec => []PipelineInv
<1>1. PipelineInv /\ [PNext]_pvars => PipelineInv'
  BY PipelineStep
<1> QED BY <1>1, PipelineInit, PTL DEF PSpec

-----------------------------------------------------------------------------
(* What the whole pipeline guarantees.                                      *)

\* A job the provider works on is backed by frozen funds, for any number of
\* jobs, workers, crashes, lost calls and lost answers: no refund by Submit,
\* Cancel, the recovery or a worker overtakes UpdateBatchImageJobProviderSubmit.
THEOREM LiveJobsAreFunded == PSpec => []LiveJobsFunded
<1>1. PipelineInv => LiveJobsFunded
  BY DEF PipelineInv, LiveFunded, LiveJobsFunded, Funded, Live
<1> QED BY <1>1, PipelineInvariant, PTL

\* No job becomes completed, or has its output deleted, unless its capture
\* committed (Settle calls MarkBatchImageJobSettled after the capture only).
THEOREM CompletedJobsAreCharged == PSpec => []CompletedCharged
<1>1. PipelineInv => CompletedCharged
  BY DEF PipelineInv
<1> QED BY <1>1, PipelineInvariant, PTL

\* Submit, Cancel, the recovery and the workers together neither create nor
\* destroy money, and no release pays out what no hold froze.
THEOREM PipelineBooksBalance == PSpec => [](MoneyConserved /\ NoPhantomRelease)
<1>1. PTypeOK /\ LedgerInv => MoneyConserved /\ NoPhantomRelease
  BY DEF LedgerInv
<1> QED BY <1>1, PipelineTypes, PTL

\* The queue's guarantees hold for the workers' real Process and the API's
\* enqueues: no queued job is lost, and no two workers own one job unless a
\* heartbeat outage happened.
THEOREM PipelineQueueSafe == PSpec => [](InflightTracked /\ ExclusiveProcessing)
<1>1. PInit => InflightTracked /\ OwnersHoldLock
  BY DEF PInit, QInit, InflightTracked, OwnersHoldLock, OwningPcs
<1>2. PTypeOK /\ InflightTracked /\ OwnersHoldLock /\ [PNext]_pvars
        => InflightTracked' /\ OwnersHoldLock'
  BY PTypeParts, PipelineQueue, QueueMoveKeeps
<1>3. PTypeOK /\ OwnersHoldLock => ExclusiveProcessing
  BY PTypeParts, OwnersExclude
<1> QED BY <1>1, <1>2, <1>3, PTypeCorrect, PTL DEF PSpec

-----------------------------------------------------------------------------
(* The transition table, when clients cancel only what Submit returned.     *)

\* Stages of Process that only a job with a recorded provider job reaches.
Following == {"get", "running", "indexing", "index", "failed", "cancelled", "settling"}

\* Until Submit recorded the provider job, nobody but Submit and the recovery
\* has touched the row.
Unsubmitted ==
    \A j \in Jobs :
      spc[j] \notin Submitted =>
        /\ status[j] \in {"none", "created", "uploading", "failed"}
        /\ j \notin named
        /\ cpc[j] = "idle"

\* Workers follow recorded provider jobs only.
WorkersFollow == \A w \in Workers : stage[w] \in Following => wjob[w] \in named

\* Who records a provider job, and when a Cancel begins.
NameMove(j) ==
    /\ j \in named => j \in named'
    /\ j \in named' => j \in named \/ spc'[j] \in Submitted
    /\ cpc'[j] # "idle" => cpc[j] # "idle" \/ EarlyCancel \/ spc'[j] \in Submitted

\* Only Submit records a provider job, only a call of Cancel begins one.
LEMMA ApiNames ==
    ASSUME RowTyped, ApiTyped, NEW j \in Jobs, ApiStep(j), NEW k \in Jobs
    PROVE  NameMove(k)
<1>1. ASSUME UNCHANGED <<named, cpc>> PROVE NameMove(k)
  BY <1>1 DEF NameMove
<1>2. ASSUME NEW p, SubmitGoto(j, p) PROVE UNCHANGED cpc /\ spc'[j] = p
  BY <1>2 DEF SubmitGoto, ApiTyped
<1>3. ASSUME SubmitPersist(j) \/ SubmitPersistLost(j) PROVE NameMove(k)
  <2>1. UNCHANGED cpc /\ spc'[j] \in {"enqueue", "abort"}
    BY <1>2, <1>3 DEF SubmitPersist, SubmitPersistLost
  <2>2. named' \in {named, named \cup {j}}
    BY <1>3 DEF SubmitPersist, SubmitPersistLost, jobVars
  <2> QED BY <2>1, <2>2 DEF NameMove, Submitted
<1>4. ASSUME SubmitStep(j) PROVE NameMove(k)
  BY <1>1, <1>2, <1>3, <1>4
     DEF SubmitStep, SubmitCreate, SubmitReserve, SubmitItems, SubmitUpload, SubmitProvider,
         SubmitAbort, SubmitEnqueue, SubmitRelease, SubmitRecord, SubmitRecordQueue,
         Transition, RecordSubmitFailure, jobVars
<1>5. ASSUME SubmitHeartbeat(j) \/ SubmitErr(j) \/ SubmitCrash(j) \/ SubmitReplay(j)
             \/ AgeJob(j) \/ ProviderStep(j) \/ DeleteOutput(j)
      PROVE NameMove(k)
  BY <1>1, <1>2, <1>5
     DEF SubmitHeartbeat, SubmitErr, SubmitCrash, SubmitReplay, AgeJob, ProviderStep,
         DeleteOutput, jobVars, apiVars
<1>6. ASSUME CancelRead(j) PROVE NameMove(k)
  <2>1. UNCHANGED <<named, spc>> /\ (EarlyCancel \/ spc[j] \in {"done", "dead"})
    BY <1>6 DEF CancelRead, jobVars
  <2>2. k # j => cpc'[k] = cpc[k]
    BY <1>6 DEF CancelRead, ApiTyped
  <2> QED BY <2>1, <2>2 DEF NameMove, Submitted
<1>7. ASSUME NEW p, CancelGoto(j, p), cpc[j] # "idle", UNCHANGED named PROVE NameMove(k)
  BY <1>7 DEF CancelGoto, ApiTyped, NameMove
<1>8. ASSUME CancelStep(j) \/ CancelErr(j) \/ CancelCrash(j) PROVE NameMove(k)
  BY <1>7, <1>8
     DEF CancelStep, CancelProvider, CancelTransition, CancelRelease, CancelEnqueue,
         CancelErr, CancelCrash, Transition, jobVars
<1>9. ASSUME RecoveryStep(j) \/ RecoverErr(j) \/ RecoverCrash(j) PROVE NameMove(k)
  BY <1>1, <1>9
     DEF RecoveryStep, RecoverFail, RecoverRelease, RecoverEnqueue, RecoverErr, RecoverCrash,
         RecoveryGoto, jobVars
<1> QED BY <1>3, <1>4, <1>5, <1>6, <1>8, <1>9 DEF ApiStep

\* A step of Process records no provider job, and follows one only after it
\* found its name.
LEMMA ProcessFollows ==
    ASSUME PTypeOK, NEW w \in Workers, ProcessStep(w) \/ ProcessFault(w)
    PROVE  /\ UNCHANGED <<named, cpc>>
           /\ WorkersFollow => WorkersFollow'
<1>0. StageTyped /\ QTypeOK
  BY PTypeParts
<1>1. UNCHANGED <<named, cpc>>
  BY DEF ProcessStep, ProcessFault, ProcessRead, ProviderLookup, ProviderGet,
         ProviderTransition, ProcessRelease, Index, Settle, Capture, RecordSettlementFailure,
         ExhaustRelease, ExhaustRecord, ExhaustFail, MarkSettled, CaptureErr,
         RecordSettlementFailureErr, ExhaustReleaseErr, ProcessErr, TransitionLost, ProcFrame,
         apiVars, jobVars, Transition, SetSettlementFailed
<1>2. ASSUME WorkersFollow, NEW p, Proceed(w, p),
             p \in Following => stage[w] \in Following \/ wjob[w] \in named
      PROVE  WorkersFollow'
  <2>1. /\ UNCHANGED wjob
        /\ stage'[w] = IF p \in {"ack", "requeue"} THEN "none" ELSE p
        /\ \A v \in Workers : v # w => stage'[v] = stage[v]
    BY <1>0, <1>2 DEF Proceed, Goto, worker, StageTyped
  <2> QED BY <1>1, <1>2, <2>1 DEF WorkersFollow, Following
<1> SUFFICES ASSUME WorkersFollow PROVE WorkersFollow'
  BY <1>1
<1>3. ASSUME ProcessRead(w) \/ Settle(w) PROVE WorkersFollow'
  BY <1>2, <1>3 DEF ProcessRead, Settle, Following
<1>4. ASSUME ProviderLookup(w) PROVE WorkersFollow'
  BY <1>2, <1>4 DEF ProviderLookup, Following
<1>5. ASSUME ProviderGet(w) \/ Index(w) PROVE WorkersFollow'
  BY <1>2, <1>5 DEF ProviderGet, Index, At, Following
<1>6. ASSUME ProviderTransition(w) PROVE WorkersFollow'
  BY <1>2, <1>6 DEF ProviderTransition, At, Following
<1>7. ASSUME ProcessRelease(w) \/ ExhaustFail(w) \/ MarkSettled(w) \/ TransitionLost(w)
             \/ ProcessErr(w) \/ Capture(w) \/ CaptureErr(w)
      PROVE WorkersFollow'
  BY <1>2, <1>7
     DEF ProcessRelease, ExhaustFail, MarkSettled, TransitionLost, ProcessErr, Capture,
         CaptureErr, Following
<1>8. ASSUME RecordSettlementFailure(w) \/ RecordSettlementFailureErr(w) \/ ExhaustRecord(w)
             \/ ExhaustRelease(w) \/ ExhaustReleaseErr(w)
      PROVE WorkersFollow'
  BY <1>2, <1>8
     DEF RecordSettlementFailure, RecordSettlementFailureErr, ExhaustRecord, ExhaustRelease,
         ExhaustReleaseErr, AfterFailure, AfterBillingFailed, Following
<1> QED BY <1>3, <1>4, <1>5, <1>6, <1>7, <1>8 DEF ProcessStep, ProcessFault

\* The whole step.
LEMMA PipelineNames ==
    ASSUME PTypeOK, LedgerInv, [PNext]_pvars
    PROVE  /\ \A k \in Jobs : NameMove(k)
           /\ WorkersFollow => WorkersFollow'
<1>0. RowTyped /\ ApiTyped
  BY PTypeParts
<1>1. ASSUME UNCHANGED <<named, cpc>> PROVE \A k \in Jobs : NameMove(k)
  BY <1>1 DEF NameMove
<1>2. ASSUME NEW w \in Workers, ProcessStep(w) \/ ProcessFault(w)
      PROVE  (\A k \in Jobs : NameMove(k)) /\ (WorkersFollow => WorkersFollow')
  BY <1>1, <1>2, ProcessFollows
<1>3. ASSUME UNCHANGED <<stage, wjob>>, \A k \in Jobs : NameMove(k)
      PROVE  WorkersFollow => WorkersFollow'
  <2>1. \A w \in Workers : stage[w] \in Following => wjob[w] \in Jobs
    BY PTypeParts DEF StageTyped, QTypeOK, Following
  <2> QED BY <1>3, <2>1 DEF WorkersFollow, NameMove
<1>4. ASSUME NEW j \in Jobs, ApiStep(j)
      PROVE  (\A k \in Jobs : NameMove(k)) /\ UNCHANGED <<stage, wjob>>
  BY <1>0, <1>4, ApiNames, ApiFrames
<1>5. ASSUME NEW w \in Workers, RunOnceStep(w) \/ RunOnceFault(w)
      PROVE  (\A k \in Jobs : NameMove(k)) /\ (WorkersFollow => WorkersFollow')
  <2>1. UNCHANGED <<named, cpc>>
    BY <1>5 DEF RunOnceStep, RunOnceFault, QueueFrame, jobVars, apiVars
  <2>2. ASSUME NEW v \in Workers, stage'[v] \in Following
        PROVE  stage'[v] = stage[v] /\ wjob'[v] = wjob[v]
    <3>1. wjob'[v] = wjob[v] /\ stage'[v] # "none" /\ stage'[v] # "read"
      BY <2>2, PipelineStages DEF StageMove, Following
    <3>2. stage' = stage \/ \E s \in {"read", "none"} : stage' = [stage EXCEPT ![w] = s]
      BY <1>5 DEF RunOnceStep, RunOnceFault
    <3>3. stage'[v] = stage[v]
      BY <3>1, <3>2, PTypeParts DEF StageTyped
    <3> QED BY <3>1, <3>3
  <2> QED BY <1>1, <2>1, <2>2 DEF WorkersFollow
<1>6. ASSUME NEW j \in Jobs, MoverTick(j) \/ StaleTick(j) \/ LockTTL(j) \/ ActiveAge(j)
      PROVE  UNCHANGED <<named, cpc, stage, wjob>>
  BY <1>6 DEF MoverTick, StaleTick, LockTTL, ActiveAge, MoveDueDelayed, RecoverStaleActive,
              ExpireLock, AgeActive, worker, QueueFrame, jobVars, apiVars
<1>7. ASSUME UNCHANGED pvars PROVE UNCHANGED <<named, cpc, stage, wjob>>
  BY <1>7 DEF pvars, qvars, jobVars, apiVars
<1> QED
  BY <1>1, <1>2, <1>3, <1>4, <1>5, <1>6, <1>7 DEF PNext, ApiStep

\* The row of an unsubmitted job is Submit's and the recovery's alone.
LEMMA UnsubmittedStep ==
    ASSUME PipelineInv, Unsubmitted, WorkersFollow, EarlyCancel = FALSE, [PNext]_pvars
    PROVE  Unsubmitted' /\ WorkersFollow'
<1>1. PTypeOK /\ LedgerInv /\ PTypeOK'
  BY PTypeStep DEF PipelineInv
<1>2. (\A k \in Jobs : NameMove(k)) /\ WorkersFollow'
  BY <1>1, PipelineNames
<1>3. \A j \in Jobs : RowMove(j) /\ PlaceMove(j)
  BY <1>1, PipelineRows, PipelinePlaces
<1> SUFFICES ASSUME NEW j \in Jobs, spc'[j] \notin Submitted
             PROVE  /\ status'[j] \in {"none", "created", "uploading", "failed"}
                    /\ j \notin named'
                    /\ cpc'[j] = "idle"
  BY <1>2 DEF Unsubmitted
<1>4. /\ spc[j] \notin Submitted
      /\ status[j] \in {"none", "created", "uploading", "failed"}
      /\ j \notin named /\ cpc[j] = "idle"
  BY <1>3 DEF PlaceMove, Unsubmitted
<1>5. j \notin named' /\ cpc'[j] = "idle"
  BY <1>2, <1>4 DEF NameMove
<1>6. \A w \in Workers : wjob[w] = j => stage[w] \notin Following
  BY <1>4 DEF WorkersFollow
<1>7. status[j] \in Statuses /\ status'[j] \in Statuses
  BY <1>1, PTypeParts DEF RowTyped
<1>8. status'[j] \in {"none", "created", "uploading", "failed"}
  <2>1. CASE /\ CanTransition(status[j], status'[j])
             /\ \E w \in Workers : wjob[w] = j /\ stage[w] = "mark" /\ status'[j] = "completed"
    BY <1>4, <1>7, <2>1, TableFacts
  <2> QED BY <1>3, <1>4, <1>6, <2>1 DEF RowMove, Following, Submitted
<1> QED BY <1>5, <1>8

\* When no client cancels a job whose Submit has not returned, every change of
\* a status is one the transition table allows - also the unconditional
\* RecordBatchImageJobSubmitFailure, which checks nothing
\* (CanTransitionBatchImageJob).
THEOREM OnlyLegalTransitions ==
    ASSUME EarlyCancel = FALSE
    PROVE  PSpec => LegalTransitions
<1> DEFINE Step == \A j \in Jobs :
                     status'[j] # status[j] =>
                       status[j] = "none" \/ CanTransition(status[j], status'[j])
<1>1. PInit => Unsubmitted /\ WorkersFollow
  BY DEF PInit, Unsubmitted, WorkersFollow, Following
<1>2. PipelineInv /\ Unsubmitted /\ WorkersFollow /\ [PNext]_pvars
        => (Unsubmitted /\ WorkersFollow)'
  BY UnsubmittedStep
<1>3. PipelineInv /\ Unsubmitted /\ [PNext]_pvars => [Step]_pvars
  <2> SUFFICES ASSUME PipelineInv, Unsubmitted, [PNext]_pvars, NEW j \in Jobs,
                      status'[j] # status[j]
               PROVE  status[j] = "none" \/ CanTransition(status[j], status'[j])
    OBVIOUS
  <2>1. RowMove(j)
    BY PipelineRows DEF PipelineInv
  <2>2. spc[j] = "start" => status[j] = "none"
    BY DEF PipelineInv, SubmitFunds
  <2>3. ASSUME spc[j] \in {"record", "recordRetry"}, status'[j] = "failed"
        PROVE  status[j] = "none" \/ CanTransition(status[j], status'[j])
    <3>1. status[j] \in {"none", "created", "uploading"}
      BY <2>3 DEF Unsubmitted, Submitted
    <3> QED BY <2>3, <3>1 DEF CanTransition, IsTerminal
  <2> QED BY <2>1, <2>2, <2>3 DEF RowMove
<1> QED BY <1>1, <1>2, <1>3, PipelineInvariant, PTL DEF PSpec, LegalTransitions
=============================================================================
