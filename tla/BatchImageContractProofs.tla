---------------------- MODULE BatchImageContractProofs ----------------------
(***************************************************************************)
(* The pipeline implements the billing contract of BatchImageHold, for any   *)
(* jobs, workers, hold amounts, provider outputs and worker faults, as long  *)
(* as one worker at a time processes a job, API calls and commits are not    *)
(* lost, clients cancel only what Submit returned, and the settlement of a   *)
(* captured job does not run out of retries.  What each exclusion keeps out  *)
(* is a refund of a charged job; the last one is RetriesLeft.                *)
(***************************************************************************)
EXTENDS BatchImagePipelineProofs

\* The environment of the run pipeline_contract, without its bounds.
Calm ==
    /\ EarlyCancel = FALSE /\ ApiFaults = FALSE /\ CommitLoss = FALSE
    /\ MaxOutages = 0
    /\ \A j \in Jobs : Hold[j] > 0

\* A job that was captured and not yet marked settled has a retry left: without
\* it failExhaustedSettlement would give back what was charged.
RetriesLeft ==
    \A j \in Jobs : Moved("capture", j) /\ status[j] = "settling" => retry[j] < MaxRetries

-----------------------------------------------------------------------------
(* The inductive invariant.                                                 *)

Settled == {"settling", "completed", "output_deleted"}
Closed == {"failed", "cancelled"}

\* The settlement of j has used up its retries.
Exhausted(j) == retry[j] >= MaxRetries /\ j \in settleErr

\* The output of j was indexed and can be charged.
Indexed(j) == prov[j] = "succeeded" /\ output[j] # BadOutput /\ cost[j] = output[j]

\* A job settles with what was indexed and with its hold; it is given back only
\* after it was closed or after its last retry, and never once it was charged.
JobInv(j) ==
    /\ status[j] = "indexing" => prov[j] = "succeeded"
    /\ status[j] \in Settled => Indexed(j) /\ Moved("hold", j)
    /\ status[j] = "settling" /\ Moved("release", j) => Exhausted(j)
    /\ Moved("capture", j) => status[j] \in Settled /\ ~ Moved("release", j)
    /\ cpc[j] = "release" \/ rpc[j] = "release" => status[j] \in Closed
    /\ spc[j] # "recordQueue"
    /\ \A d \in Kinds : Moved(d, j) => Claimed(d, j)

\* What the one worker of a job knows of it at each stage of Process.
StageInv(w) ==
    LET j == wjob[w]
    IN  /\ stage[w] \in Following => status[j] \notin Settled
        /\ stage[w] \in {"indexing", "index", "settling"} => prov[j] = "succeeded"
        /\ stage[w] = "settling" => Indexed(j)
        /\ stage[w] = "release" => status[j] \in Closed
        /\ stage[w] \in {"capture", "recordFailure", "exhaust", "exhaustRecord", "exhaustFail"}
             => status[j] = "settling"
        /\ stage[w] = "capture" => ~ Exhausted(j) /\ cost[j] <= Hold[j]
        /\ stage[w] \in {"exhaust", "exhaustRecord", "exhaustFail"} => ~ Moved("capture", j)
        /\ stage[w] \in {"exhaust", "exhaustRecord"} => Exhausted(j)

\* The other invariants these two rest on.
Ground == PipelineInv /\ Unsubmitted /\ WorkersFollow /\ OwnersHoldLock

ContractInv == Ground /\ (\A j \in Jobs : JobInv(j)) /\ (\A w \in Workers : StageInv(w))

-----------------------------------------------------------------------------
(* What a step leaves alone.                                                *)

RowSame(k) ==
    /\ status'[k] = status[k] /\ cost'[k] = cost[k] /\ retry'[k] = retry[k]
    /\ k \in settleErr' <=> k \in settleErr
ProvSame(k) == prov'[k] = prov[k] /\ output'[k] = output[k]
ApiSame(k) == spc'[k] = spc[k] /\ cpc'[k] = cpc[k] /\ rpc'[k] = rpc[k]
LedgerSame(k) ==
    \A d \in Kinds : /\ <<d, k>> \in moved' <=> <<d, k>> \in moved
                     /\ claim'[<<d, k>>] = claim[<<d, k>>]
Same(k) == RowSame(k) /\ ProvSame(k) /\ ApiSame(k) /\ LedgerSame(k)

\* A job that is left alone keeps its invariant ...
LEMMA SameJob == ASSUME NEW k \in Jobs, JobInv(k), Same(k) PROVE JobInv(k)'
<1>1. \A d \in Kinds : (Moved(d, k)' <=> Moved(d, k)) /\ (Claimed(d, k)' <=> Claimed(d, k))
  BY DEF Same, LedgerSame, Moved, Claimed
<1>2. (Indexed(k)' <=> Indexed(k)) /\ (Exhausted(k)' <=> Exhausted(k))
  BY DEF Same, RowSame, ProvSame, Indexed, Exhausted
<1> QED BY <1>1, <1>2 DEF Same, RowSame, ProvSame, ApiSame, JobInv, Kinds

\* ... and so does a worker that stays where it is.
LEMMA SameStage ==
    ASSUME NEW v \in Workers, StageInv(v), stage'[v] = stage[v],
           stage[v] # "none" => wjob'[v] = wjob[v] /\ Same(wjob[v])
    PROVE  StageInv(v)'
<1>1. CASE stage[v] = "none"
  BY <1>1 DEF StageInv, Following
<1>2. CASE stage[v] # "none"
  <2> DEFINE k == wjob[v]
  <2>1. wjob'[v] = k /\ Same(k)
    BY <1>2
  <2>2. Moved("capture", wjob[v])' <=> Moved("capture", wjob[v])
    BY <2>1 DEF Same, LedgerSame, Moved, Kinds
  <2>3. (Indexed(wjob[v])' <=> Indexed(wjob[v])) /\ (Exhausted(wjob[v])' <=> Exhausted(wjob[v]))
    BY <2>1 DEF Same, RowSame, ProvSame, Indexed, Exhausted
  <2> QED BY <2>1, <2>2, <2>3 DEF StageInv, Same, RowSame, ProvSame
<1> QED BY <1>1, <1>2

\* Variables left alone as a whole.
LEMMA SameAll ==
    ASSUME NEW k
    PROVE  /\ UNCHANGED jobVars => RowSame(k)
           /\ UNCHANGED provVars => ProvSame(k)
           /\ UNCHANGED apiVars => ApiSame(k)
           /\ UNCHANGED lvars => LedgerSame(k)
BY DEF jobVars, provVars, apiVars, lvars, RowSame, ProvSame, ApiSame, LedgerSame

\* A transaction touches the funds of its own job only, and claims before it moves.
LEMMA TxFacts ==
    ASSUME LTypeOK, NEW j \in Jobs, NEW k \in Jobs,
           \/ ReserveTx(j) \/ ReleaseTx(j)
           \/ \E a \in Nat : CaptureTx(j, a)
           \/ UNCHANGED lvars
    PROVE  /\ k # j => LedgerSame(k)
           /\ (\A d \in Kinds : Moved(d, k) => Claimed(d, k))
                => \A d \in Kinds : Moved(d, k)' => Claimed(d, k)'
<1>1. ASSUME NEW e \in Kinds, NEW fp \in Nat, SetClaim(e, j, fp),
             moved' \in {moved, moved \cup {<<e, j>>}}
      PROVE  /\ k # j => LedgerSame(k)
             /\ (\A d \in Kinds : Moved(d, k) => Claimed(d, k))
                  => \A d \in Kinds : Moved(d, k)' => Claimed(d, k)'
  <2>1. \A d \in Kinds :
          /\ claim'[<<d, k>>] = IF d = e /\ k = j THEN fp ELSE claim[<<d, k>>]
          /\ <<d, k>> \in moved' => <<d, k>> \in moved \/ (d = e /\ k = j)
          /\ <<d, k>> \in moved => <<d, k>> \in moved'
    BY <1>1 DEF SetClaim, LTypeOK, RequestIDs
  <2> QED BY <1>1, <2>1 DEF LedgerSame, Moved, Claimed, NoClaim
<1>2. ASSUME UNCHANGED lvars
      PROVE  /\ k # j => LedgerSame(k)
             /\ (\A d \in Kinds : Moved(d, k) => Claimed(d, k))
                  => \A d \in Kinds : Moved(d, k)' => Claimed(d, k)'
  BY <1>2 DEF lvars, LedgerSame, Moved, Claimed
<1> USE DEF Kinds, RequestFp, CaptureFp
<1>3. CASE ReserveTx(j)
  BY <1>1, <1>2, <1>3 DEF ReserveTx
<1>4. CASE ReleaseTx(j)
  BY <1>1, <1>2, <1>4 DEF ReleaseTx
<1>5. ASSUME NEW a \in Nat, CaptureTx(j, a)
      PROVE  /\ k # j => LedgerSame(k)
             /\ (\A d \in Kinds : Moved(d, k) => Claimed(d, k))
                  => \A d \in Kinds : Moved(d, k)' => Claimed(d, k)'
  BY <1>1, <1>2, <1>5 DEF CaptureTx
<1> QED BY <1>2, <1>3, <1>4, <1>5

-----------------------------------------------------------------------------
(* Submit, Cancel, the recovery and the provider.                           *)

\* The steps of the API that are left in a calm environment.
CalmStep(j) ==
    \/ SubmitStep(j) \/ SubmitHeartbeat(j) \/ SubmitReplay(j)
    \/ CancelRead(j) \/ CancelStep(j) \/ AgeJob(j) \/ RecoveryStep(j)
    \/ ProviderStep(j) \/ DeleteOutput(j)

LEMMA CalmApi == ASSUME Calm, NEW j \in Jobs, ApiStep(j) PROVE CalmStep(j)
BY DEF Calm, ApiStep, CalmStep, SubmitErr, SubmitPersistLost, SubmitCrash, CancelErr,
       CancelCrash, RecoverErr, RecoverCrash

\* The row of another job.
LEMMA CalmOtherRows ==
    ASSUME RowTyped, NEW j \in Jobs, CalmStep(j), NEW k \in Jobs, k # j PROVE RowSame(k)
<1>1. ASSUME UNCHANGED jobVars PROVE RowSame(k)
  BY <1>1, SameAll
<1>2. ASSUME NEW s, SetStatus(j, s), UNCHANGED <<cost, retry>>,
             settleErr' \in {settleErr, settleErr \ {j}}
      PROVE RowSame(k)
  BY <1>2 DEF SetStatus, RowTyped, RowSame
<1>3. ASSUME NEW s, Transition(j, s) PROVE RowSame(k)
  BY <1>2, <1>3 DEF Transition
<1>4. ASSUME UNCHANGED <<status, cost, retry>>, settleErr' \in {settleErr, settleErr \ {j}}
      PROVE RowSame(k)
  BY <1>4 DEF RowSame
<1>5. ASSUME SubmitStep(j) PROVE RowSame(k)
  BY <1>1, <1>2, <1>3, <1>4, <1>5
     DEF SubmitStep, SubmitCreate, SubmitReserve, SubmitItems, SubmitUpload, SubmitProvider,
         SubmitPersist, SubmitAbort, SubmitEnqueue, SubmitRelease, SubmitRecord,
         SubmitRecordQueue, RecordSubmitFailure
<1>6. ASSUME SubmitHeartbeat(j) \/ SubmitReplay(j) \/ AgeJob(j) \/ ProviderStep(j)
             \/ DeleteOutput(j)
      PROVE RowSame(k)
  BY <1>1, <1>2, <1>4, <1>6
     DEF SubmitHeartbeat, SubmitReplay, AgeJob, ProviderStep, DeleteOutput
<1>7. ASSUME CancelRead(j) \/ CancelStep(j) \/ RecoveryStep(j) PROVE RowSame(k)
  BY <1>1, <1>2, <1>3, <1>7
     DEF CancelRead, CancelStep, CancelProvider, CancelTransition, CancelRelease,
         CancelEnqueue, RecoveryStep, RecoverFail, RecoverRelease, RecoverEnqueue
<1> QED BY <1>5, <1>6, <1>7 DEF CalmStep

\* The upstream job and the handlers of another job.
LEMMA CalmOtherPlaces ==
    ASSUME ProvTyped, ApiTyped, NEW j \in Jobs, CalmStep(j), NEW k \in Jobs, k # j
    PROVE  ProvSame(k) /\ ApiSame(k)
<1>1. (UNCHANGED provVars => ProvSame(k)) /\ (UNCHANGED apiVars => ApiSame(k))
  BY SameAll
<1>2. ASSUME NEW s, prov' \in {prov, [prov EXCEPT ![j] = s]}, UNCHANGED output PROVE ProvSame(k)
  BY <1>2 DEF ProvTyped, ProvSame
<1>3. ASSUME NEW p, SubmitGoto(j, p) \/ CancelGoto(j, p) \/ RecoveryGoto(j, p)
      PROVE ApiSame(k)
  BY <1>3 DEF ApiTyped, ApiSame, SubmitGoto, CancelGoto, RecoveryGoto
<1>4. ASSUME SubmitStep(j) PROVE ProvSame(k) /\ ApiSame(k)
  BY <1>1, <1>2, <1>3, <1>4
     DEF SubmitStep, SubmitCreate, SubmitReserve, SubmitItems, SubmitUpload, SubmitProvider,
         SubmitPersist, SubmitAbort, SubmitEnqueue, SubmitRelease, SubmitRecord,
         SubmitRecordQueue, ProviderCancel
<1>5. ASSUME SubmitHeartbeat(j) \/ SubmitReplay(j) \/ AgeJob(j) \/ DeleteOutput(j)
      PROVE ProvSame(k) /\ ApiSame(k)
  BY <1>1, <1>5 DEF SubmitHeartbeat, SubmitReplay, AgeJob, DeleteOutput, ApiSame
<1>6. ASSUME ProviderStep(j) PROVE ProvSame(k) /\ ApiSame(k)
  BY <1>1, <1>6 DEF ProviderStep, ProvTyped, ProvSame
<1>7. ASSUME CancelRead(j) PROVE ProvSame(k) /\ ApiSame(k)
  BY <1>1, <1>7 DEF CancelRead, ApiTyped, ApiSame
<1>8. ASSUME CancelStep(j) \/ RecoveryStep(j) PROVE ProvSame(k) /\ ApiSame(k)
  BY <1>1, <1>2, <1>3, <1>8
     DEF CancelStep, CancelProvider, CancelTransition, CancelRelease, CancelEnqueue,
         RecoveryStep, RecoverFail, RecoverRelease, RecoverEnqueue, ProviderCancel
<1> QED BY <1>4, <1>5, <1>6, <1>7, <1>8 DEF CalmStep

\* Its funds, and the transaction a step runs for its own job.
LEMMA CalmLedger ==
    ASSUME NEW j \in Jobs, CalmStep(j)
    PROVE  \/ UNCHANGED lvars
           \/ ReserveTx(j) /\ spc[j] = "reserve"
           \/ /\ ReleaseTx(j) /\ UNCHANGED status
              /\ spc[j] \in {"release", "releaseOnly"} \/ cpc[j] = "release" \/ rpc[j] = "release"
<1>1. ASSUME SubmitStep(j)
      PROVE  \/ UNCHANGED lvars
             \/ ReserveTx(j) /\ spc[j] = "reserve"
             \/ ReleaseTx(j) /\ UNCHANGED status /\ spc[j] \in {"release", "releaseOnly"}
  BY <1>1
     DEF SubmitStep, SubmitCreate, SubmitReserve, SubmitItems, SubmitUpload, SubmitProvider,
         SubmitPersist, SubmitAbort, SubmitEnqueue, SubmitRelease, SubmitRecord,
         SubmitRecordQueue, jobVars
<1>2. ASSUME SubmitHeartbeat(j) \/ SubmitReplay(j) \/ AgeJob(j) \/ ProviderStep(j)
             \/ DeleteOutput(j) \/ CancelRead(j)
      PROVE UNCHANGED lvars
  BY <1>2 DEF SubmitHeartbeat, SubmitReplay, AgeJob, ProviderStep, DeleteOutput, CancelRead
<1>3. ASSUME CancelStep(j) \/ RecoveryStep(j)
      PROVE  \/ UNCHANGED lvars
             \/ /\ ReleaseTx(j) /\ UNCHANGED status
                /\ cpc[j] = "release" \/ rpc[j] = "release"
  BY <1>3
     DEF CancelStep, CancelProvider, CancelTransition, CancelRelease, CancelEnqueue,
         RecoveryStep, RecoverFail, RecoverRelease, RecoverEnqueue, jobVars
<1> QED BY <1>1, <1>2, <1>3 DEF CalmStep

LEMMA CalmOthers ==
    ASSUME PTypeOK, NEW j \in Jobs, CalmStep(j), NEW k \in Jobs, k # j PROVE Same(k)
<1>1. RowTyped /\ ProvTyped /\ ApiTyped /\ LTypeOK
  BY PTypeParts
<1>2. RowSame(k) /\ ProvSame(k) /\ ApiSame(k)
  BY <1>1, CalmOtherRows, CalmOtherPlaces
<1>3. LedgerSame(k)
  BY <1>1, CalmLedger, TxFacts
<1> QED BY <1>2, <1>3 DEF Same

\* What an API step may do to its own job: change the status of one that is not
\* settling, without settling it; touch an upstream job that nobody indexed; go on
\* to a release of a closed job; give back funds of a job that is not settled.
RowEffect(j) ==
    /\ cost'[j] = cost[j] /\ retry'[j] = retry[j]
    /\ \/ status'[j] = status[j] /\ (j \in settleErr' <=> j \in settleErr)
       \/ /\ status[j] # "settling" /\ status'[j] \notin {"indexing", "settling"}
          /\ status[j] \in Closed => status'[j] \in Closed
          /\ status[j] \in Settled <=> status'[j] \in Settled
ProvEffect(j) ==
    prov[j] = "succeeded" =>
      ProvSame(j) \/ (status[j] \notin Settled \cup {"indexing"} /\ j \notin named)
PlaceEffect(j) ==
    /\ spc'[j] # "recordQueue"
    /\ cpc'[j] = "release" \/ rpc'[j] = "release" => status'[j] \in Closed
FundEffect(j) ==
    /\ Moved("hold", j) => Moved("hold", j)'
    /\ Moved("capture", j)' => Moved("capture", j)
    /\ Moved("release", j)' => Moved("release", j) \/ status[j] \notin Settled
    /\ \A d \in Kinds : Moved(d, j)' => Claimed(d, j)'

\* Until Submit has recorded the provider job, its job is not settled, nobody
\* cancels it and nothing was indexed.
LEMMA UnsubmittedFacts ==
    ASSUME Ground, NEW j \in Jobs, spc[j] \notin Submitted
    PROVE  /\ status[j] \in {"none", "created", "uploading", "failed"}
           /\ status[j] \notin Settled \cup {"indexing"} /\ j \notin named
BY DEF Ground, Unsubmitted, Settled

LEMMA CalmRow ==
    ASSUME Ground, NEW j \in Jobs, JobInv(j), CalmStep(j) PROVE RowEffect(j)
<1>0. RowTyped
  BY PTypeParts DEF Ground, PipelineInv
<1>1. ASSUME UNCHANGED jobVars PROVE RowEffect(j)
  BY <1>1 DEF jobVars, RowEffect
<1>2. ASSUME UNCHANGED <<status, cost, retry, settleErr>> PROVE RowEffect(j)
  BY <1>2 DEF RowEffect
<1>3. ASSUME NEW s, SetStatus(j, s), UNCHANGED <<cost, retry>>,
             status[j] # "settling", s \notin {"indexing", "settling"},
             status[j] \in Closed => s \in Closed, status[j] \in Settled <=> s \in Settled
      PROVE RowEffect(j)
  BY <1>0, <1>3 DEF SetStatus, RowTyped, RowEffect
<1>4. ASSUME NEW s \in {"uploading", "submitted", "cancelled"}, SetStatus(j, s),
             UNCHANGED <<cost, retry>>, CanTransition(status[j], s)
      PROVE RowEffect(j)
  <2>1. status[j] \in {"created", "uploading", "submitted", "running"}
    BY <1>0, <1>4 DEF CanTransition, Allowed, IsTerminal, RowTyped, Statuses
  <2> QED BY <1>3, <1>4, <2>1 DEF Closed, Settled
<1>5. ASSUME SubmitCreate(j) PROVE RowEffect(j)
  <2>1. status[j] = "none"
    BY <1>5 DEF SubmitCreate, Ground, PipelineInv, SubmitFunds
  <2> QED BY <1>3, <1>5, <2>1 DEF SubmitCreate, Closed, Settled
<1>6. ASSUME SubmitUpload(j) \/ SubmitPersist(j) \/ CancelTransition(j) PROVE RowEffect(j)
  BY <1>1, <1>4, <1>6 DEF SubmitUpload, SubmitPersist, CancelTransition, Transition
<1>7. ASSUME SubmitRecord(j) PROVE RowEffect(j)
  <2>1. spc[j] \notin Submitted
    BY <1>7 DEF SubmitRecord, Submitted
  <2>2. status[j] \in {"none", "created", "uploading", "failed"}
    BY <2>1, UnsubmittedFacts
  <2> QED BY <1>3, <1>7, <2>2 DEF SubmitRecord, RecordSubmitFailure, Closed, Settled
<1>8. ASSUME RecoverFail(j) PROVE RowEffect(j)
  BY <1>3, <1>8 DEF RecoverFail, Closed, Settled
<1>9. ASSUME DeleteOutput(j) PROVE RowEffect(j)
  BY <1>3, <1>9 DEF DeleteOutput, Closed, Settled
<1>10. ASSUME SubmitStep(j) PROVE RowEffect(j)
  BY <1>1, <1>5, <1>6, <1>7, <1>10
     DEF SubmitStep, SubmitReserve, SubmitItems, SubmitProvider, SubmitAbort, SubmitEnqueue,
         SubmitRelease, SubmitRecordQueue, JobInv
<1>11. ASSUME SubmitHeartbeat(j) \/ SubmitReplay(j) \/ AgeJob(j) \/ ProviderStep(j)
              \/ CancelRead(j)
       PROVE RowEffect(j)
  BY <1>1, <1>2, <1>11
     DEF SubmitHeartbeat, SubmitReplay, AgeJob, ProviderStep, CancelRead
<1>12. ASSUME CancelStep(j) \/ RecoveryStep(j) PROVE RowEffect(j)
  BY <1>1, <1>6, <1>8, <1>12
     DEF CancelStep, CancelProvider, CancelRelease, CancelEnqueue, RecoveryStep,
         RecoverRelease, RecoverEnqueue
<1> QED BY <1>9, <1>10, <1>11, <1>12 DEF CalmStep

LEMMA CalmProv == ASSUME Ground, NEW j \in Jobs, CalmStep(j) PROVE ProvEffect(j)
<1>0. ProvTyped
  BY PTypeParts DEF Ground, PipelineInv
<1>1. ASSUME UNCHANGED provVars PROVE ProvEffect(j)
  BY <1>1, SameAll DEF ProvEffect
<1>2. ASSUME ProviderCancel(j), UNCHANGED output PROVE ProvEffect(j)
  BY <1>0, <1>2 DEF ProviderCancel, ProvTyped, ProvEffect, ProvSame
<1>3. ASSUME SubmitProvider(j) PROVE ProvEffect(j)
  <2>1. spc[j] \notin Submitted
    BY <1>3 DEF SubmitProvider, Submitted
  <2> QED BY <2>1, UnsubmittedFacts DEF ProvEffect
<1>4. ASSUME ProviderStep(j) PROVE ProvEffect(j)
  BY <1>4 DEF ProviderStep, ProvEffect
<1>5. ASSUME SubmitStep(j) PROVE ProvEffect(j)
  BY <1>1, <1>2, <1>3, <1>5
     DEF SubmitStep, SubmitCreate, SubmitReserve, SubmitItems, SubmitUpload, SubmitPersist,
         SubmitAbort, SubmitEnqueue, SubmitRelease, SubmitRecord, SubmitRecordQueue
<1>6. ASSUME SubmitHeartbeat(j) \/ SubmitReplay(j) \/ AgeJob(j) \/ DeleteOutput(j)
             \/ CancelRead(j)
      PROVE ProvEffect(j)
  BY <1>1, <1>6 DEF SubmitHeartbeat, SubmitReplay, AgeJob, DeleteOutput, CancelRead
<1>7. ASSUME CancelStep(j) \/ RecoveryStep(j) PROVE ProvEffect(j)
  BY <1>1, <1>2, <1>7
     DEF CancelStep, CancelProvider, CancelTransition, CancelRelease, CancelEnqueue,
         RecoveryStep, RecoverFail, RecoverRelease, RecoverEnqueue
<1> QED BY <1>4, <1>5, <1>6, <1>7 DEF CalmStep

LEMMA CalmPlace ==
    ASSUME Ground, NEW j \in Jobs, JobInv(j), RowEffect(j), CalmStep(j) PROVE PlaceEffect(j)
<1>0. ApiTyped /\ RowTyped
  BY PTypeParts DEF Ground, PipelineInv
<1>1. cpc[j] = "release" \/ rpc[j] = "release" => status'[j] \in Closed
  BY DEF JobInv, RowEffect
<1>2. ASSUME UNCHANGED <<spc, cpc, rpc>> PROVE PlaceEffect(j)
  BY <1>1, <1>2 DEF JobInv, PlaceEffect
<1>3. ASSUME NEW p, SubmitGoto(j, p), p # "recordQueue" PROVE PlaceEffect(j)
  BY <1>0, <1>1, <1>3 DEF SubmitGoto, ApiTyped, PlaceEffect
<1>4. ASSUME NEW p, CancelGoto(j, p), p = "release" => status'[j] \in Closed
      PROVE PlaceEffect(j)
  BY <1>0, <1>1, <1>4 DEF CancelGoto, ApiTyped, PlaceEffect, JobInv
<1>5. ASSUME NEW p, RecoveryGoto(j, p), p = "release" => status'[j] \in Closed
      PROVE PlaceEffect(j)
  BY <1>0, <1>1, <1>5 DEF RecoveryGoto, ApiTyped, PlaceEffect, JobInv
<1>6. ASSUME SubmitStep(j) PROVE PlaceEffect(j)
  BY <1>3, <1>6
     DEF SubmitStep, SubmitCreate, SubmitReserve, SubmitItems, SubmitUpload, SubmitProvider,
         SubmitPersist, SubmitAbort, SubmitEnqueue, SubmitRelease, SubmitRecord,
         SubmitRecordQueue
<1>7. ASSUME SubmitHeartbeat(j) \/ SubmitReplay(j) \/ AgeJob(j) \/ ProviderStep(j)
             \/ DeleteOutput(j)
      PROVE PlaceEffect(j)
  BY <1>2, <1>7 DEF SubmitHeartbeat, SubmitReplay, AgeJob, ProviderStep, DeleteOutput, apiVars
<1>8. ASSUME CancelRead(j) PROVE PlaceEffect(j)
  <2>1. UNCHANGED <<spc, rpc, status>>
    BY <1>8 DEF CancelRead, jobVars
  <2>2. cpc'[j] = "release" => status[j] \in {"failed", "cancelled"}
    BY <1>0, <1>8 DEF CancelRead, ApiTyped
  <2> QED BY <1>1, <2>1, <2>2 DEF PlaceEffect, JobInv, Closed
<1>9. ASSUME CancelTransition(j) PROVE PlaceEffect(j)
  <2>1. Transition(j, "cancelled") => status'[j] \in Closed
    BY <1>0, RowFrames DEF Closed
  <2> QED BY <1>4, <1>9, <2>1 DEF CancelTransition
<1>10. ASSUME RecoverFail(j) PROVE PlaceEffect(j)
  <2>1. status'[j] \in Closed
    BY <1>0, <1>10, RowFrames DEF RecoverFail, Closed
  <2> QED BY <1>5, <1>10, <2>1 DEF RecoverFail
<1>11. ASSUME CancelProvider(j) \/ CancelRelease(j) \/ CancelEnqueue(j) PROVE PlaceEffect(j)
  BY <1>4, <1>11 DEF CancelProvider, CancelRelease, CancelEnqueue
<1>12. ASSUME RecoverRelease(j) \/ RecoverEnqueue(j) PROVE PlaceEffect(j)
  BY <1>5, <1>12 DEF RecoverRelease, RecoverEnqueue
<1> QED
  BY <1>6, <1>7, <1>8, <1>9, <1>10, <1>11, <1>12 DEF CalmStep, CancelStep, RecoveryStep

LEMMA CalmFund == ASSUME Ground, NEW j \in Jobs, JobInv(j), CalmStep(j) PROVE FundEffect(j)
<1>0. LTypeOK
  BY PTypeParts DEF Ground, PipelineInv
<1>1. \A d \in Kinds : Moved(d, j)' => Claimed(d, j)'
  BY <1>0, CalmLedger, TxFacts DEF JobInv
<1>2. CASE UNCHANGED lvars
  BY <1>1, <1>2 DEF lvars, FundEffect, Moved
<1>3. CASE ReserveTx(j)
  <2>1. moved' \in {moved, moved \cup {<<"hold", j>>}}
    BY <1>3 DEF ReserveTx, lvars
  <2> QED BY <1>1, <2>1 DEF FundEffect, Moved
<1>4. CASE /\ ReleaseTx(j)
           /\ spc[j] \in {"release", "releaseOnly"} \/ cpc[j] = "release" \/ rpc[j] = "release"
  <2>1. moved' \in {moved, moved \cup {<<"release", j>>}}
    BY <1>4 DEF ReleaseTx, lvars
  <2>2. spc[j] \in {"release", "releaseOnly"} => status[j] \notin Settled
    BY UnsubmittedFacts DEF Submitted
  <2>3. status[j] \notin Settled
    BY <1>4, <2>2 DEF JobInv, Closed, Settled
  <2> QED BY <1>1, <2>1, <2>3 DEF FundEffect, Moved
<1> QED BY <1>2, <1>3, <1>4, CalmLedger

\* Together they keep the invariant of the job and of the worker it has.
LEMMA CalmKeeps ==
    ASSUME Ground, NEW j \in Jobs, JobInv(j), CalmStep(j)
    PROVE  /\ JobInv(j)'
           /\ \A w \in Workers :
                StageInv(w) /\ stage'[w] = stage[w] /\ wjob'[w] = wjob[w] /\ wjob[w] = j
                  => StageInv(w)'
<1>1. RowEffect(j) /\ ProvEffect(j) /\ PlaceEffect(j) /\ FundEffect(j)
  BY CalmRow, CalmProv, CalmPlace, CalmFund
<1>2. status'[j] = status[j] => (Exhausted(j)' <=> Exhausted(j)) \/ status[j] # "settling"
  BY <1>1 DEF RowEffect, Exhausted
<1>3. status[j] \in Settled \cup {"indexing"} \/ j \in named =>
        /\ prov[j] = "succeeded" => prov'[j] = "succeeded"
        /\ Indexed(j) => Indexed(j)'
  BY <1>1 DEF ProvEffect, ProvSame, RowEffect, Indexed
<1>4. /\ status'[j] \in Settled <=> status[j] \in Settled
      /\ status'[j] = "settling" => status[j] = "settling" /\ (Exhausted(j)' <=> Exhausted(j))
      /\ status'[j] = "indexing" => status[j] = "indexing"
      /\ status[j] = "settling" => status'[j] = "settling"
      /\ status[j] \in Closed => status'[j] \in Closed
  BY <1>1 DEF RowEffect, Exhausted
<1>5. JobInv(j)'
  <2>1. status'[j] = "indexing" => prov'[j] = "succeeded"
    BY <1>3, <1>4 DEF JobInv
  <2>2. status'[j] \in Settled => Indexed(j)' /\ Moved("hold", j)'
    BY <1>1, <1>3, <1>4 DEF JobInv, FundEffect
  <2>3. status'[j] = "settling" /\ Moved("release", j)' => Exhausted(j)'
    BY <1>1, <1>4 DEF JobInv, FundEffect, Settled
  <2>4. Moved("capture", j)' => status'[j] \in Settled /\ ~ Moved("release", j)'
    BY <1>1, <1>4 DEF JobInv, FundEffect
  <2> QED BY <1>1, <2>1, <2>2, <2>3, <2>4 DEF JobInv, PlaceEffect, FundEffect
<1>6. ASSUME NEW w \in Workers, StageInv(w), stage'[w] = stage[w], wjob'[w] = wjob[w],
             wjob[w] = j
      PROVE  StageInv(w)'
  <2>1. stage[w] \in {"indexing", "index", "settling"} => j \in named
    BY <1>6 DEF Ground, WorkersFollow, Following
  <2>2. Moved("capture", j)' => Moved("capture", j)
    BY <1>1 DEF FundEffect
  <2>3. cost'[j] = cost[j]
    BY <1>1 DEF RowEffect
  <2>4. /\ (wjob[w])' = j
        /\ Indexed(wjob[w])' <=> Indexed(j)'
        /\ Exhausted(wjob[w])' <=> Exhausted(j)'
        /\ Moved("capture", wjob[w])' <=> Moved("capture", j)'
    BY <1>6 DEF Indexed, Exhausted, Moved
  <2> QED BY <1>3, <1>4, <1>6, <2>1, <2>2, <2>3, <2>4 DEF StageInv
<1> QED BY <1>5, <1>6

-----------------------------------------------------------------------------
(* The workers.                                                             *)

\* Without outages a job has one worker.
LEMMA Sole ==
    ASSUME Calm, Ground, NEW v \in Workers, NEW w \in Workers,
           stage[v] # "none", stage[w] # "none", wjob[v] = wjob[w]
    PROVE  v = w
<1>1. QTypeOK /\ StageTyped
  BY PTypeParts DEF Ground, PipelineInv
<1>2. outages = 0
  BY <1>1, QueueAssumption DEF QTypeOK, Calm
<1>3. wpc[v] = "processing" /\ wpc[w] = "processing"
  BY <1>1 DEF StageTyped
<1> QED BY <1>2, <1>3 DEF Ground, OwnersHoldLock, OwningPcs

\* Process moves one worker, which works on a job.
LEMMA Proceeds ==
    ASSUME PTypeOK, NEW w \in Workers, NEW p, Proceed(w, p)
    PROVE  /\ stage'[w] = IF p \in {"ack", "requeue"} THEN "none" ELSE p
           /\ UNCHANGED wjob
           /\ \A v \in Workers : v # w => stage'[v] = stage[v]
BY PTypeParts DEF Proceed, Goto, worker, StageTyped

\* The steps of Process that are left, all of one worker on one job.
CalmProcess(w) ==
    ProcessStep(w) \/ CaptureErr(w) \/ RecordSettlementFailureErr(w) \/ ExhaustReleaseErr(w)
    \/ ProcessErr(w)

LEMMA CalmProcesses ==
    ASSUME Calm, NEW w \in Workers, ProcessStep(w) \/ ProcessFault(w) PROVE CalmProcess(w)
BY DEF Calm, ProcessFault, CalmProcess, TransitionLost

LEMMA ProcessMoves ==
    ASSUME PTypeOK, NEW w \in Workers, CalmProcess(w)
    PROVE  /\ wpc[w] = "processing" /\ stage[w] # "none" /\ wjob[w] \in Jobs
           /\ UNCHANGED <<provVars, apiVars>>
           /\ \E p : Proceed(w, p)
<1>1. wpc[w] = "processing" /\ \E p : Proceed(w, p)
  BY DEF CalmProcess, ProcessStep, ProcessRead, ProviderLookup, ProviderGet,
         ProviderTransition, ProcessRelease, Index, Settle, Capture, RecordSettlementFailure,
         ExhaustRelease, ExhaustRecord, ExhaustFail, MarkSettled, CaptureErr,
         RecordSettlementFailureErr, ExhaustReleaseErr, ProcessErr, At
<1>2. stage[w] # "none" /\ wjob[w] \in Jobs
  BY <1>1, PTypeParts DEF StageTyped, QTypeOK
<1>3. UNCHANGED <<provVars, apiVars>>
  BY ProcessFrames DEF CalmProcess, ProcessFault
<1> QED BY <1>1, <1>2, <1>3

\* The other jobs are left alone.
LEMMA ProcessOthers ==
    ASSUME PTypeOK, NEW w \in Workers, CalmProcess(w), NEW k \in Jobs, k # wjob[w]
    PROVE  Same(k)
<1>0. RowTyped /\ LTypeOK /\ wjob[w] \in Jobs
  BY PTypeParts, ProcessMoves
<1>1. ProvSame(k) /\ ApiSame(k)
  BY ProcessMoves, SameAll
<1>2. LedgerSame(k)
  <2>1. cost[wjob[w]] \in Nat
    BY <1>0 DEF RowTyped
  <2>2. \/ UNCHANGED lvars \/ ReleaseTx(wjob[w]) \/ CaptureTx(wjob[w], cost[wjob[w]])
    BY DEF CalmProcess, ProcessStep, ProcessRead, ProviderLookup, ProviderGet,
           ProviderTransition, ProcessRelease, Index, Settle, Capture, RecordSettlementFailure,
           ExhaustRelease, ExhaustRecord, ExhaustFail, MarkSettled, CaptureErr,
           RecordSettlementFailureErr, ExhaustReleaseErr, ProcessErr
  <2> QED BY <1>0, <2>1, <2>2, TxFacts
<1>3. RowSame(k)
  <2>1. ASSUME UNCHANGED jobVars PROVE RowSame(k)
    BY <2>1, SameAll
  <2>2. ASSUME NEW s, Transition(wjob[w], s) PROVE RowSame(k)
    BY <1>0, <2>2 DEF Transition, SetStatus, RowTyped, RowSame
  <2>3. ASSUME SetSettlementFailed(wjob[w]) PROVE RowSame(k)
    BY <1>0, <2>3 DEF SetSettlementFailed, RowTyped, RowSame
  <2>4. ASSUME Index(w) PROVE RowSame(k)
    BY <1>0, <2>1, <2>4 DEF Index, RowTyped, RowSame
  <2>5. ASSUME MarkSettled(w) PROVE RowSame(k)
    BY <1>0, <2>1, <2>5 DEF MarkSettled, SetStatus, RowTyped, RowSame
  <2>6. ASSUME ProviderTransition(w) \/ ExhaustFail(w) PROVE RowSame(k)
    BY <2>1, <2>2, <2>6 DEF ProviderTransition, ExhaustFail
  <2>7. ASSUME RecordSettlementFailure(w) \/ RecordSettlementFailureErr(w) \/ ExhaustRecord(w)
        PROVE RowSame(k)
    BY <2>3, <2>7 DEF RecordSettlementFailure, RecordSettlementFailureErr, ExhaustRecord
  <2>8. ASSUME ProcessRead(w) \/ ProviderLookup(w) \/ ProviderGet(w) \/ ProcessRelease(w)
               \/ Settle(w) \/ Capture(w) \/ ExhaustRelease(w) \/ CaptureErr(w)
               \/ ExhaustReleaseErr(w) \/ ProcessErr(w)
        PROVE RowSame(k)
    BY <2>1, <2>8 DEF ProcessRead, ProviderLookup, ProviderGet, ProcessRelease, Settle, Capture,
                      ExhaustRelease, CaptureErr, ExhaustReleaseErr, ProcessErr
  <2> QED BY <2>4, <2>5, <2>6, <2>7, <2>8 DEF CalmProcess, ProcessStep
<1> QED BY <1>1, <1>2, <1>3 DEF Same

\* StageInv after a step, for a worker that still has its job.
LEMMA StagePrimed ==
    ASSUME NEW w \in Workers, NEW j \in Jobs, wjob'[w] = j
    PROVE  StageInv(w)' <=>
        /\ stage'[w] \in Following => status'[j] \notin Settled
        /\ stage'[w] \in {"indexing", "index", "settling"} => prov'[j] = "succeeded"
        /\ stage'[w] = "settling" => Indexed(j)'
        /\ stage'[w] = "release" => status'[j] \in Closed
        /\ stage'[w] \in {"capture", "recordFailure", "exhaust", "exhaustRecord", "exhaustFail"}
             => status'[j] = "settling"
        /\ stage'[w] = "capture" => ~ Exhausted(j)' /\ cost'[j] <= Hold[j]
        /\ stage'[w] \in {"exhaust", "exhaustRecord", "exhaustFail"} => ~ Moved("capture", j)'
        /\ stage'[w] \in {"exhaust", "exhaustRecord"} => Exhausted(j)'
BY DEF StageInv, Indexed, Exhausted, Moved

\* The stages at which a worker knows nothing yet, or nothing any more.
Vague == {"none", "read", "lookup", "settle", "mark"}

LEMMA StageVague ==
    ASSUME NEW w \in Workers, stage'[w] \in Vague PROVE StageInv(w)'
BY DEF StageInv, Vague, Following

\* A step that only reads its job.
LEMMA QuietKeeps ==
    ASSUME NEW j \in Jobs, JobInv(j), UNCHANGED <<jobVars, provVars, apiVars, lvars>>
    PROVE  /\ JobInv(j)' /\ status'[j] = status[j] /\ prov'[j] = prov[j] /\ cost'[j] = cost[j]
           /\ (Indexed(j)' <=> Indexed(j)) /\ (Exhausted(j)' <=> Exhausted(j))
           /\ Moved("capture", j)' <=> Moved("capture", j)
<1>1. Same(j)
  BY SameAll DEF Same
<1> QED BY <1>1, SameJob
        DEF Same, RowSame, ProvSame, LedgerSame, Indexed, Exhausted, Moved, Kinds

\* The steps of the provider processor and the settlement that only read.
LEMMA ReadKeeps ==
    ASSUME ContractInv, RetriesLeft, Calm, NEW w \in Workers,
           ProcessRead(w) \/ ProviderLookup(w) \/ ProviderGet(w) \/ Settle(w)
           \/ CaptureErr(w) \/ ExhaustReleaseErr(w) \/ ProcessErr(w),
           NEW j \in Jobs, j = wjob[w]
    PROVE  JobInv(j)' /\ StageInv(w)'
<1>1. PTypeOK /\ CalmProcess(w)
  BY DEF ContractInv, Ground, PipelineInv, CalmProcess, ProcessStep
<1>2. UNCHANGED <<jobVars, provVars, apiVars, lvars>>
  <2>1. UNCHANGED <<provVars, apiVars>>
    BY <1>1, ProcessMoves
  <2>2. UNCHANGED <<jobVars, lvars>>
    BY DEF ProcessRead, ProviderLookup, ProviderGet, Settle, CaptureErr, ExhaustReleaseErr,
           ProcessErr, Calm
  <2> QED BY <2>1, <2>2
<1>3. wjob'[w] = j /\ JobInv(j) /\ StageInv(w)
  BY <1>1, ProcessMoves, Proceeds DEF ContractInv
<1>4. /\ JobInv(j)' /\ status'[j] = status[j] /\ prov'[j] = prov[j] /\ cost'[j] = cost[j]
      /\ (Indexed(j)' <=> Indexed(j)) /\ (Exhausted(j)' <=> Exhausted(j))
      /\ Moved("capture", j)' <=> Moved("capture", j)
  BY <1>2, <1>3, QuietKeeps
<1>5. StageInv(w)'
  <2>1. ASSUME NEW p, Proceed(w, p)
        PROVE  stage'[w] = IF p \in {"ack", "requeue"} THEN "none" ELSE p
    BY <1>1, <2>1, Proceeds
  <2>2. CASE ProcessRead(w)
    BY <2>1, <2>2, StageVague DEF ProcessRead, Vague
  <2>3. CASE ProcessErr(w)
    BY <2>1, <2>3, StageVague DEF ProcessErr, Vague
  <2>4. CASE ProviderLookup(w)
    <3>1. /\ stage'[w] \in {"none", "release", "index", "get"}
          /\ stage'[w] = "release" => status[j] \in Closed
          /\ stage'[w] = "index" => status[j] = "indexing"
          /\ stage'[w] = "get" => status[j] \notin Settled
      BY <2>1, <2>4 DEF ProviderLookup, DoneStatus, IsTerminal, Closed, Settled
    <3>2. status[j] = "indexing" => prov[j] = "succeeded"
      BY <1>3 DEF JobInv
    <3> QED BY <1>3, <1>4, <3>1, <3>2, StagePrimed DEF Settled, Following
  <2>5. CASE ProviderGet(w)
    <3>1. /\ stage'[w] \in {"none", "indexing", "running", "failed", "cancelled"}
          /\ stage'[w] = "indexing" => prov[j] = "succeeded"
          /\ stage[w] = "get"
      BY <2>1, <2>5 DEF ProviderGet, At
    <3>2. status[j] \notin Settled
      BY <1>3, <3>1 DEF StageInv, Following
    <3> QED BY <1>3, <1>4, <3>1, <3>2, StagePrimed
  <2>6. CASE Settle(w)
    <3>1. /\ stage'[w] \in {"none", "exhaust", "recordFailure", "capture"}
          /\ stage'[w] # "none" => status[j] = "settling"
          /\ stage'[w] = "exhaust" => RetryExhausted(j)
          /\ stage'[w] = "capture" => ~ RetryExhausted(j) /\ ~ (cost[j] > Hold[j])
      BY <2>1, <2>6 DEF Settle
    <3>2. RetryExhausted(j) => Exhausted(j) /\ ~ Moved("capture", j)
      <4>1. retry[j] \in Int /\ MaxRetries \in Int
        BY <1>1, PTypeParts, PipelineAssumption DEF RowTyped
      <4> QED BY <4>1 DEF RetryExhausted, Exhausted, RetriesLeft
    <3>3. status[j] = "settling" /\ ~ RetryExhausted(j) => ~ Exhausted(j)
      BY DEF RetryExhausted, Exhausted
    <3>4. cost[j] \in Int /\ Hold[j] \in Int
      BY <1>1, PTypeParts, LedgerAssumption DEF RowTyped
    <3> QED BY <1>3, <1>4, <3>1, <3>2, <3>3, <3>4, StagePrimed DEF Following
  <2>7. CASE CaptureErr(w)
    <3>1. stage'[w] = "recordFailure" /\ stage[w] = "capture"
      BY <2>1, <2>7 DEF CaptureErr, At
    <3>2. status[j] = "settling"
      BY <1>3, <3>1 DEF StageInv
    <3> QED BY <1>3, <1>4, <3>1, <3>2, StagePrimed DEF Following
  <2>8. CASE ExhaustReleaseErr(w)
    <3>1. stage'[w] = "exhaustRecord" /\ stage[w] = "exhaust"
      BY <2>1, <2>8 DEF ExhaustReleaseErr, At
    <3>2. status[j] = "settling" /\ Exhausted(j) /\ ~ Moved("capture", j)
      BY <1>3, <3>1 DEF StageInv
    <3> QED BY <1>3, <1>4, <3>1, <3>2, StagePrimed DEF Following
  <2> QED BY <2>2, <2>3, <2>4, <2>5, <2>6, <2>7, <2>8
<1> QED BY <1>4, <1>5

\* What a worker's step knows of its job before it writes.
LEMMA WorkFacts ==
    ASSUME ContractInv, NEW w \in Workers, CalmProcess(w), NEW j \in Jobs, j = wjob[w]
    PROVE  /\ PTypeOK /\ JobInv(j) /\ StageInv(w) /\ wjob'[w] = j
           /\ UNCHANGED <<provVars, apiVars>> /\ ProvSame(j) /\ ApiSame(j)
           /\ \A p : Proceed(w, p) => stage'[w] = IF p \in {"ack", "requeue"} THEN "none" ELSE p
<1>1. PTypeOK /\ JobInv(j) /\ StageInv(w)
  BY DEF ContractInv, Ground, PipelineInv
<1> QED BY <1>1, ProcessMoves, Proceeds, SameAll

\* A status the worker sets: its job was not settling, or ends completed.
LEMMA TransitionKeeps ==
    ASSUME ContractInv, Calm, NEW w \in Workers, ProviderTransition(w),
           NEW j \in Jobs, j = wjob[w]
    PROVE  JobInv(j)' /\ StageInv(w)'
<1>1. CalmProcess(w)
  BY DEF CalmProcess, ProcessStep
<1>2. /\ PTypeOK /\ JobInv(j) /\ StageInv(w) /\ wjob'[w] = j
      /\ UNCHANGED <<provVars, apiVars>> /\ ProvSame(j) /\ ApiSame(j)
      /\ \A p : Proceed(w, p) => stage'[w] = IF p \in {"ack", "requeue"} THEN "none" ELSE p
  BY <1>1, WorkFacts
<1>3. RowTyped
  BY <1>2, PTypeParts
<1>4. UNCHANGED lvars
  BY DEF ProviderTransition
<1>5. PICK to \in {"running", "indexing", "failed", "cancelled", "settling"} :
        /\ At(w, to)
        /\ IF CanTransition(status[j], to)
           THEN /\ Transition(j, to)
                /\ Proceed(w, CASE to \in {"running", "settling"} -> "requeue"
                                [] to = "indexing"                -> "index"
                                [] OTHER                          -> "release")
           ELSE UNCHANGED jobVars /\ Proceed(w, "requeue")
  BY DEF ProviderTransition
<1>6. stage[w] = to
  BY <1>5 DEF At
<1>7. CASE ~ CanTransition(status[j], to)
  <2>1. UNCHANGED jobVars /\ stage'[w] = "none"
    BY <1>2, <1>5, <1>7
  <2> QED BY <1>2, <1>4, <2>1, QuietKeeps, StageVague DEF Vague
<1>8. CASE CanTransition(status[j], to)
  <2>1. /\ status'[j] = to
        /\ UNCHANGED <<cost, retry>>
    BY <1>3, <1>5, <1>8 DEF Transition, SetStatus, RowTyped
  <2>2. Indexed(j)' <=> Indexed(j)
    BY <1>2, <2>1 DEF Indexed, ProvSame
  <2>3. \A d \in Kinds : (Moved(d, j)' <=> Moved(d, j)) /\ (Claimed(d, j)' <=> Claimed(d, j))
    BY <1>4 DEF lvars, Moved, Claimed
  <2>4. status[j] \notin Settled
    BY <1>2, <1>6 DEF StageInv, Following
  <2>5. ~ Moved("capture", j)
    BY <1>2, <2>4 DEF JobInv
  <2>6. to = "indexing" => prov'[j] = "succeeded"
    BY <1>2, <1>6 DEF StageInv, ProvSame
  <2>7. to = "settling" => /\ Indexed(j)' /\ Moved("hold", j)
                           /\ ~ Moved("release", j)
    <3>1. ASSUME to = "settling" PROVE status[j] = "indexing"
      BY <1>3, <1>8, <3>1, TableFacts DEF RowTyped, Statuses
    <3>2. status[j] = "indexing" => HoldOpen(j)
      BY DEF ContractInv, Ground, PipelineInv, LiveFunded, Live, Funded, Calm
    <3>3. to = "settling" => Indexed(j)
      BY <1>2, <1>6 DEF StageInv
    <3> QED BY <2>2, <3>1, <3>2, <3>3 DEF HoldOpen
  <2>8. cpc'[j] = "release" \/ rpc'[j] = "release" => status'[j] \in Closed
    <3>1. cpc'[j] = "release" \/ rpc'[j] = "release" => status[j] \in Closed
      BY <1>2 DEF JobInv, ApiSame
    <3>2. status[j] \notin Closed
      BY <1>5, <1>8 DEF CanTransition, IsTerminal, Closed
    <3> QED BY <3>1, <3>2
  <2>9. JobInv(j)'
    <3>1. status'[j] = "indexing" => prov'[j] = "succeeded"
      BY <2>1, <2>6
    <3>2. status'[j] \in Settled => status'[j] = "settling"
      BY <1>5, <2>1 DEF Settled
    <3>3. ~ Moved("capture", j)' /\ (to = "settling" => Moved("hold", j)' /\ ~ Moved("release", j)')
      BY <2>3, <2>5, <2>7 DEF Kinds
    <3>4. spc'[j] # "recordQueue" /\ \A d \in Kinds : Moved(d, j)' => Claimed(d, j)'
      BY <1>2, <2>3 DEF JobInv, ApiSame
    <3> QED BY <2>1, <2>7, <2>8, <3>1, <3>2, <3>3, <3>4 DEF JobInv
  <2>10. StageInv(w)'
    <3>1. CASE to \in {"running", "settling"}
      BY <1>2, <1>5, <1>8, <3>1, StageVague DEF Vague
    <3>2. CASE to = "indexing"
      <4>1. stage'[w] = "index"
        BY <1>2, <1>5, <1>8, <3>2
      <4> QED BY <1>2, <2>1, <2>6, <3>2, <4>1, StagePrimed DEF Settled
    <3>3. CASE to \in {"failed", "cancelled"}
      <4>1. stage'[w] = "release"
        BY <1>2, <1>5, <1>8, <3>3
      <4> QED BY <1>2, <2>1, <3>3, <4>1, StagePrimed DEF Closed, Following
    <3> QED BY <3>1, <3>2, <3>3
  <2> QED BY <2>9, <2>10
<1> QED BY <1>7, <1>8

\* ReplaceItems writes the cost that settlement will charge.
LEMMA IndexKeeps ==
    ASSUME ContractInv, NEW w \in Workers, Index(w), NEW j \in Jobs, j = wjob[w]
    PROVE  JobInv(j)' /\ StageInv(w)'
<1>1. /\ PTypeOK /\ JobInv(j) /\ StageInv(w) /\ wjob'[w] = j
      /\ UNCHANGED <<provVars, apiVars>> /\ ProvSame(j) /\ ApiSame(j)
      /\ \A p : Proceed(w, p) => stage'[w] = IF p \in {"ack", "requeue"} THEN "none" ELSE p
  BY WorkFacts DEF CalmProcess, ProcessStep
<1>2. RowTyped /\ UNCHANGED lvars /\ stage[w] = "index"
  BY <1>1, PTypeParts DEF Index, At
<1>3. status[j] \notin Settled /\ prov[j] = "succeeded"
  BY <1>1, <1>2 DEF StageInv, Following
<1>4. CASE UNCHANGED jobVars /\ stage'[w] \in {"none", "failed"}
  <2>1. JobInv(j)' /\ status'[j] = status[j]
    BY <1>1, <1>2, <1>4, QuietKeeps
  <2> QED BY <1>1, <1>3, <1>4, <2>1, StagePrimed DEF Following
<1>5. CASE /\ output[j] # BadOutput /\ status[j] = "indexing" /\ stage'[w] = "settling"
           /\ cost' = [cost EXCEPT ![j] = output[j]] /\ UNCHANGED <<status, retry, settleErr>>
  <2>1. Indexed(j)'
    BY <1>1, <1>2, <1>3, <1>5 DEF Indexed, ProvSame, RowTyped
  <2>2. \A d \in Kinds : (Moved(d, j)' <=> Moved(d, j)) /\ (Claimed(d, j)' <=> Claimed(d, j))
    BY <1>2 DEF lvars, Moved, Claimed
  <2>3. status'[j] = "indexing" /\ prov'[j] = "succeeded"
    BY <1>1, <1>3, <1>5 DEF ProvSame
  <2>4. JobInv(j)'
    BY <1>1, <1>3, <1>5, <2>2, <2>3 DEF JobInv, ApiSame, Settled, Kinds
  <2> QED BY <1>1, <1>5, <2>1, <2>3, <2>4, StagePrimed DEF Settled
<1> QED BY <1>1, <1>4, <1>5 DEF Index

\* A settlement failure is counted; the last one leads to the exit only if
\* nothing was captured.
LEMMA FailureKeeps ==
    ASSUME ContractInv, RetriesLeft', NEW w \in Workers,
           RecordSettlementFailure(w) \/ RecordSettlementFailureErr(w) \/ ExhaustRecord(w),
           NEW j \in Jobs, j = wjob[w]
    PROVE  JobInv(j)' /\ StageInv(w)'
<1>1. /\ PTypeOK /\ JobInv(j) /\ StageInv(w) /\ wjob'[w] = j
      /\ UNCHANGED <<provVars, apiVars>> /\ ProvSame(j) /\ ApiSame(j)
      /\ \A p : Proceed(w, p) => stage'[w] = IF p \in {"ack", "requeue"} THEN "none" ELSE p
  BY WorkFacts DEF CalmProcess, ProcessStep
<1>2. RowTyped /\ UNCHANGED lvars /\ SetSettlementFailed(j)
      /\ stage[w] \in {"recordFailure", "exhaustRecord"}
  BY <1>1, PTypeParts DEF RecordSettlementFailure, RecordSettlementFailureErr, ExhaustRecord, At
<1>3. /\ status'[j] = status[j] /\ cost'[j] = cost[j] /\ j \in settleErr'
      /\ retry'[j] = IF retry[j] < MaxRetries THEN retry[j] + 1 ELSE retry[j]
  BY <1>2 DEF SetSettlementFailed, RowTyped
<1>4. retry[j] \in 0..MaxRetries /\ MaxRetries \in Nat
  BY <1>2, PipelineAssumption DEF RowTyped
<1>5. Exhausted(j) => Exhausted(j)'
  BY <1>3, <1>4 DEF Exhausted
<1>6. Indexed(j)' <=> Indexed(j)
  BY <1>1, <1>3 DEF Indexed, ProvSame
<1>7. \A d \in Kinds : (Moved(d, j)' <=> Moved(d, j)) /\ (Claimed(d, j)' <=> Claimed(d, j))
  BY <1>2 DEF lvars, Moved, Claimed
<1>8. JobInv(j)'
  BY <1>1, <1>3, <1>5, <1>6, <1>7 DEF JobInv, ApiSame, ProvSame, Kinds
<1>9. stage'[w] \in {"none", "exhaust"} /\ (stage'[w] = "exhaust" => retry[j] + 1 >= MaxRetries)
  BY <1>1 DEF RecordSettlementFailure, RecordSettlementFailureErr, ExhaustRecord, AfterFailure,
              AfterBillingFailed
<1>10. status'[j] = "settling"
  BY <1>1, <1>2, <1>3 DEF StageInv
<1>11. ASSUME stage'[w] = "exhaust" PROVE Exhausted(j)' /\ ~ Moved("capture", j)'
  <2>1. retry'[j] >= MaxRetries /\ ~ (retry'[j] < MaxRetries)
    BY <1>3, <1>4, <1>9, <1>11
  <2>2. Moved("capture", j)' => retry'[j] < MaxRetries
    BY <1>10 DEF RetriesLeft
  <2> QED BY <1>3, <2>1, <2>2 DEF Exhausted
<1> QED BY <1>1, <1>8, <1>9, <1>10, <1>11, StagePrimed DEF Following

\* The exit fails a job that was not captured; MarkBatchImageJobSettled ends one
\* that was.
LEMMA EndKeeps ==
    ASSUME ContractInv, NEW w \in Workers, ExhaustFail(w) \/ MarkSettled(w),
           NEW j \in Jobs, j = wjob[w]
    PROVE  JobInv(j)' /\ StageInv(w)'
<1>1. /\ PTypeOK /\ JobInv(j) /\ StageInv(w) /\ wjob'[w] = j
      /\ UNCHANGED <<provVars, apiVars>> /\ ProvSame(j) /\ ApiSame(j)
      /\ \A p : Proceed(w, p) => stage'[w] = IF p \in {"ack", "requeue"} THEN "none" ELSE p
  BY WorkFacts DEF CalmProcess, ProcessStep
<1>2. RowTyped /\ UNCHANGED lvars /\ stage'[w] = "none"
  BY <1>1, PTypeParts DEF ExhaustFail, MarkSettled
<1>3. \A d \in Kinds : (Moved(d, j)' <=> Moved(d, j)) /\ (Claimed(d, j)' <=> Claimed(d, j))
  BY <1>2 DEF lvars, Moved, Claimed
<1>4. StageInv(w)'
  BY <1>2, StageVague DEF Vague
<1>5. CASE UNCHANGED jobVars
  BY <1>1, <1>2, <1>4, <1>5, QuietKeeps
<1>6. CASE ExhaustFail(w) /\ Transition(j, "failed")
  <2>1. status'[j] = "failed" /\ stage[w] = "exhaustFail"
    BY <1>2, <1>6, RowFrames DEF ExhaustFail, At
  <2>2. ~ Moved("capture", j)
    BY <1>1, <2>1 DEF StageInv
  <2> QED BY <1>1, <1>3, <1>4, <2>1, <2>2 DEF JobInv, ApiSame, Settled, Closed, Kinds
<1>7. CASE /\ status[j] = "settling" /\ SetStatus(j, "completed") /\ stage[w] = "mark"
           /\ UNCHANGED cost
  <2>1. status'[j] = "completed"
    BY <1>2, <1>7, RowFrames
  <2>2. Moved("capture", j)
    BY <1>7 DEF ContractInv, Ground, PipelineInv, WorkersClose
  <2>3. Indexed(j)' <=> Indexed(j)
    BY <1>1, <1>7 DEF Indexed, ProvSame
  <2>4. status[j] \in Settled /\ status[j] \notin Closed /\ status'[j] \in Settled
    BY <1>7, <2>1 DEF Settled, Closed
  <2> QED BY <1>1, <1>3, <1>4, <2>1, <2>2, <2>3, <2>4 DEF JobInv, ApiSame, Kinds
<1> QED BY <1>5, <1>6, <1>7 DEF ExhaustFail, MarkSettled, At

\* A worker gives back the hold of a closed job, or of one at the end of its retries.
LEMMA ReleaseKeeps ==
    ASSUME ContractInv, NEW w \in Workers, ProcessRelease(w) \/ ExhaustRelease(w),
           NEW j \in Jobs, j = wjob[w]
    PROVE  JobInv(j)' /\ StageInv(w)'
<1>1. /\ PTypeOK /\ JobInv(j) /\ StageInv(w) /\ wjob'[w] = j
      /\ UNCHANGED <<provVars, apiVars>> /\ ProvSame(j) /\ ApiSame(j)
      /\ \A p : Proceed(w, p) => stage'[w] = IF p \in {"ack", "requeue"} THEN "none" ELSE p
  BY WorkFacts DEF CalmProcess, ProcessStep
<1>2. LTypeOK /\ UNCHANGED jobVars /\ ReleaseTx(j)
  BY <1>1, PTypeParts DEF ProcessRelease, ExhaustRelease
<1>3. RowSame(j)
  BY <1>2, SameAll
<1>4. (Indexed(j)' <=> Indexed(j)) /\ (Exhausted(j)' <=> Exhausted(j))
  BY <1>1, <1>3 DEF RowSame, ProvSame, Indexed, Exhausted
<1>5. moved' \in {moved, moved \cup {<<"release", j>>}}
  BY <1>2 DEF ReleaseTx, lvars
<1>6. /\ Moved("capture", j)' <=> Moved("capture", j)
      /\ Moved("hold", j)' <=> Moved("hold", j)
  BY <1>5 DEF Moved
<1>7. \A d \in Kinds : Moved(d, j)' => Claimed(d, j)'
  BY <1>1, <1>2, TxFacts DEF JobInv
<1>8. /\ ~ Moved("capture", j)
      /\ status[j] = "settling" => Exhausted(j)
  <2>1. CASE stage[w] = "release"
    BY <1>1, <2>1 DEF StageInv, JobInv, Closed, Settled
  <2>2. CASE stage[w] = "exhaust"
    BY <1>1, <2>2 DEF StageInv
  <2> QED BY <2>1, <2>2 DEF ProcessRelease, ExhaustRelease, At
<1>9. JobInv(j)'
  BY <1>1, <1>3, <1>4, <1>6, <1>7, <1>8 DEF JobInv, RowSame, ProvSame, ApiSame
<1>10. StageInv(w)'
  <2>1. CASE ProcessRelease(w)
    BY <1>1, <2>1, StageVague DEF ProcessRelease, Vague
  <2>2. CASE ExhaustRelease(w)
    <3>1. stage'[w] \in {"exhaustFail", "exhaustRecord"} /\ stage[w] = "exhaust"
      BY <1>1, <2>2 DEF ExhaustRelease, At
    <3>2. status'[j] = "settling" /\ Exhausted(j)'
      BY <1>1, <1>3, <1>4, <3>1 DEF StageInv, RowSame
    <3> QED BY <1>1, <1>6, <1>8, <3>1, <3>2, StagePrimed DEF Following
  <2> QED BY <2>1, <2>2
<1> QED BY <1>9, <1>10

\* A worker captures what was indexed, of a job that still has its hold.
LEMMA CaptureKeeps ==
    ASSUME ContractInv, NEW w \in Workers, Capture(w), NEW j \in Jobs, j = wjob[w]
    PROVE  JobInv(j)' /\ StageInv(w)'
<1>1. /\ PTypeOK /\ JobInv(j) /\ StageInv(w) /\ wjob'[w] = j
      /\ UNCHANGED <<provVars, apiVars>> /\ ProvSame(j) /\ ApiSame(j)
      /\ \A p : Proceed(w, p) => stage'[w] = IF p \in {"ack", "requeue"} THEN "none" ELSE p
  BY WorkFacts DEF CalmProcess, ProcessStep
<1>2. LTypeOK /\ RowTyped /\ UNCHANGED jobVars /\ CaptureTx(j, cost[j]) /\ stage[w] = "capture"
  BY <1>1, PTypeParts DEF Capture, At
<1>3. RowSame(j) /\ cost[j] \in Nat
  BY <1>2, SameAll DEF RowTyped
<1>4. (Indexed(j)' <=> Indexed(j)) /\ (Exhausted(j)' <=> Exhausted(j))
  BY <1>1, <1>3 DEF RowSame, ProvSame, Indexed, Exhausted
<1>5. moved' \in {moved, moved \cup {<<"capture", j>>}}
  BY <1>2 DEF CaptureTx, lvars
<1>6. /\ Moved("release", j)' <=> Moved("release", j)
      /\ Moved("hold", j)' <=> Moved("hold", j)
  BY <1>5 DEF Moved
<1>7. \A d \in Kinds : Moved(d, j)' => Claimed(d, j)'
  BY <1>1, <1>2, <1>3, TxFacts DEF JobInv
<1>8. status[j] = "settling" /\ ~ Exhausted(j)
  BY <1>1, <1>2 DEF StageInv
<1>9. JobInv(j)'
  BY <1>1, <1>3, <1>4, <1>6, <1>7, <1>8 DEF JobInv, RowSame, ProvSame, ApiSame, Settled
<1>10. StageInv(w)'
  <2>1. stage'[w] \in {"mark", "recordFailure"}
    BY <1>1 DEF Capture
  <2>2. status'[j] = "settling"
    BY <1>3, <1>8 DEF RowSame
  <2> QED BY <1>1, <2>1, <2>2, StagePrimed DEF Following
<1> QED BY <1>9, <1>10

\* A step of Process keeps the invariant of its job and of its worker.
LEMMA ProcessKeeps ==
    ASSUME ContractInv, RetriesLeft, RetriesLeft', Calm, NEW w \in Workers, CalmProcess(w),
           NEW j \in Jobs, j = wjob[w]
    PROVE  JobInv(j)' /\ StageInv(w)'
BY ReadKeeps, TransitionKeeps, IndexKeeps, FailureKeeps, EndKeeps, ReleaseKeeps, CaptureKeeps
   DEF CalmProcess, ProcessStep

-----------------------------------------------------------------------------
(* The whole step.                                                          *)

\* The queue and the loop around Process leave the jobs alone, and a worker has
\* no stage until it has the lock.
LEMMA QueueKeeps ==
    ASSUME PTypeOK, LedgerInv, [PNext]_pvars,
           \/ \E w \in Workers : RunOnceStep(w) \/ RunOnceFault(w)
           \/ \E j \in Jobs : MoverTick(j) \/ StaleTick(j) \/ LockTTL(j) \/ ActiveAge(j)
           \/ UNCHANGED pvars
    PROVE  /\ \A k \in Jobs : Same(k)
           /\ \A v \in Workers :
                \/ stage'[v] \in Vague
                \/ stage'[v] = stage[v] /\ wjob'[v] = wjob[v] /\ wjob[v] \in Jobs
<1>1. UNCHANGED <<jobVars, provVars, apiVars, lvars>>
  BY DEF RunOnceStep, RunOnceFault, MoverTick, StaleTick, LockTTL, ActiveAge, QueueFrame, pvars
<1>2. \A k \in Jobs : Same(k)
  BY <1>1, SameAll DEF Same
<1>3. ASSUME NEW v \in Workers, stage'[v] \notin Vague
      PROVE  stage'[v] = stage[v] /\ wjob'[v] = wjob[v] /\ wjob[v] \in Jobs
  <2>1. wjob'[v] = wjob[v] /\ wjob[v] \in Jobs
    BY <1>3, PipelineStages DEF StageMove, Vague
  <2>2. \/ UNCHANGED stage
        \/ \E w \in Workers, s \in {"read", "none"} : stage' = [stage EXCEPT ![w] = s]
    BY DEF RunOnceStep, RunOnceFault, MoverTick, StaleTick, LockTTL, ActiveAge, pvars
  <2>3. stage'[v] = stage[v]
    BY <1>3, <2>2, PTypeParts DEF StageTyped, Vague
  <2> QED BY <2>1, <2>3
<1> QED BY <1>2, <1>3

\* Every step keeps the contract's invariant.
LEMMA ContractStep ==
    ASSUME Calm, ContractInv, RetriesLeft, RetriesLeft', [PNext]_pvars
    PROVE  ContractInv'
<1>1. Ground /\ PipelineInv /\ PTypeOK /\ LedgerInv
  BY DEF ContractInv, Ground, PipelineInv
<1>2. Ground'
  <2>1. PipelineInv'
    BY <1>1, PipelineStep
  <2>2. Unsubmitted' /\ WorkersFollow'
    BY <1>1, UnsubmittedStep DEF Ground, Calm
  <2>3. OwnersHoldLock'
    BY <1>1, PTypeParts, PipelineQueue, QueueMoveKeeps DEF Ground
  <2> QED BY <2>1, <2>2, <2>3 DEF Ground
<1>3. ASSUME NEW w \in Workers, stage[w] # "none" PROVE wjob[w] \in Jobs
  BY <1>1, <1>3, PTypeParts DEF StageTyped, QTypeOK
<1>4. ASSUME NEW j \in Jobs, ApiStep(j)
      PROVE  (\A k \in Jobs : JobInv(k)') /\ (\A w \in Workers : StageInv(w)')
  <2>1. CalmStep(j) /\ UNCHANGED <<stage, wjob>>
    BY <1>4, CalmApi, ApiFrames
  <2>2. \A k \in Jobs : k # j => Same(k)
    BY <1>1, <2>1, CalmOthers
  <2>3. JobInv(j)' /\ \A w \in Workers : StageInv(w) /\ wjob[w] = j => StageInv(w)'
    BY <1>1, <2>1, CalmKeeps DEF ContractInv
  <2>4. ASSUME NEW k \in Jobs PROVE JobInv(k)'
    BY <2>2, <2>3, SameJob DEF ContractInv
  <2>5. ASSUME NEW w \in Workers PROVE StageInv(w)'
    <3>1. CASE wjob[w] = j
      BY <2>3, <3>1 DEF ContractInv
    <3>2. CASE wjob[w] # j
      BY <1>3, <2>1, <2>2, <3>2, SameStage DEF ContractInv
    <3> QED BY <3>1, <3>2
  <2> QED BY <2>4, <2>5
<1>5. ASSUME NEW w \in Workers, ProcessStep(w) \/ ProcessFault(w)
      PROVE  (\A k \in Jobs : JobInv(k)') /\ (\A v \in Workers : StageInv(v)')
  <2>1. CalmProcess(w)
    BY <1>5, CalmProcesses
  <2>2. PICK j \in Jobs : j = wjob[w]
    BY <1>1, <2>1, ProcessMoves
  <2>3. JobInv(j)' /\ StageInv(w)'
    BY <2>1, <2>2, ProcessKeeps
  <2>4. \A k \in Jobs : k # j => Same(k)
    BY <1>1, <2>1, <2>2, ProcessOthers
  <2>5. ASSUME NEW k \in Jobs PROVE JobInv(k)'
    BY <2>3, <2>4, SameJob DEF ContractInv
  <2>6. ASSUME NEW v \in Workers, v # w PROVE StageInv(v)'
    <3>1. stage'[v] = stage[v] /\ UNCHANGED wjob
      BY <1>1, <2>1, <2>6, ProcessMoves, Proceeds
    <3>2. stage[v] # "none" => wjob[v] \in Jobs /\ wjob[v] # j
      BY <1>1, <1>3, <2>1, <2>2, <2>6, ProcessMoves, Sole
    <3> QED BY <2>4, <3>1, <3>2, SameStage DEF ContractInv
  <2> QED BY <2>3, <2>5, <2>6
<1>6. ASSUME \/ \E w \in Workers : RunOnceStep(w) \/ RunOnceFault(w)
             \/ \E j \in Jobs : MoverTick(j) \/ StaleTick(j) \/ LockTTL(j) \/ ActiveAge(j)
             \/ UNCHANGED pvars
      PROVE  (\A k \in Jobs : JobInv(k)') /\ (\A v \in Workers : StageInv(v)')
  <2>1. /\ \A k \in Jobs : Same(k)
        /\ \A v \in Workers :
             \/ stage'[v] \in Vague
             \/ stage'[v] = stage[v] /\ wjob'[v] = wjob[v] /\ wjob[v] \in Jobs
    BY <1>1, <1>6, QueueKeeps
  <2>2. ASSUME NEW k \in Jobs PROVE JobInv(k)'
    BY <2>1, SameJob DEF ContractInv
  <2>3. ASSUME NEW v \in Workers PROVE StageInv(v)'
    BY <2>1, SameStage, StageVague DEF ContractInv
  <2> QED BY <2>2, <2>3
<1>7. (\A k \in Jobs : JobInv(k)') /\ (\A w \in Workers : StageInv(w)')
  BY <1>4, <1>5, <1>6 DEF PNext, ApiStep
<1> QED BY <1>2, <1>7 DEF ContractInv

LEMMA ContractInit == PInit => ContractInv
<1> SUFFICES ASSUME PInit PROVE ContractInv
  OBVIOUS
<1>1. PipelineInv
  BY PipelineInit
<1>2. Unsubmitted /\ WorkersFollow /\ OwnersHoldLock
  BY DEF PInit, QInit, Unsubmitted, WorkersFollow, Following, OwnersHoldLock, OwningPcs
<1>3. \A j \in Jobs : JobInv(j)
  BY DEF PInit, LInit, JobInv, Moved, Settled
<1>4. \A w \in Workers : StageInv(w)
  BY DEF PInit, StageInv, Following
<1> QED BY <1>1, <1>2, <1>3, <1>4 DEF ContractInv, Ground

LEMMA ContractInvariant == ASSUME Calm PROVE PSpec /\ []RetriesLeft => []ContractInv
<1>1. ContractInv /\ RetriesLeft /\ RetriesLeft' /\ [PNext]_pvars => ContractInv'
  BY ContractStep
<1> QED BY <1>1, ContractInit, PTL DEF PSpec

-----------------------------------------------------------------------------
(* The contract.                                                            *)

\* A user is charged for a job only while it settles or once it is completed,
\* for any number of jobs, workers, crashes and failing worker calls: no job ends
\* failed or cancelled after its capture.
THEOREM ChargedOnlyIfCompletedHolds ==
    ASSUME Calm
    PROVE  PSpec /\ []RetriesLeft => []ChargedOnlyIfCompleted
<1>1. ContractInv => ChargedOnlyIfCompleted
  BY DEF ContractInv, JobInv, ChargedOnlyIfCompleted, Settled
<1> QED BY <1>1, ContractInvariant, PTL

\* Outputs arrive for jobs that run upstream, and no money moves then.
LEMMA OutputMove ==
    ASSUME PTypeOK, [PNext]_pvars
    PROVE  \/ UNCHANGED output
           \/ \E j \in Jobs : /\ prov[j] = "running" /\ UNCHANGED lvars
                              /\ \A k \in Jobs : k # j => output'[k] = output[k]
<1>0. ProvTyped
  BY PTypeParts
<1>1. ASSUME NEW j \in Jobs, ApiStep(j), ~ ProviderStep(j) PROVE UNCHANGED output
  BY <1>1 DEF ApiStep, SubmitStep, SubmitCreate, SubmitReserve, SubmitItems, SubmitUpload,
       SubmitProvider, SubmitPersist, SubmitAbort, SubmitEnqueue, SubmitRelease,
       SubmitRecord, SubmitRecordQueue, SubmitHeartbeat, SubmitErr, SubmitPersistLost,
       SubmitCrash, SubmitReplay, CancelRead, CancelStep, CancelProvider, CancelTransition,
       CancelRelease, CancelEnqueue, CancelErr, CancelCrash, AgeJob, RecoveryStep,
       RecoverFail, RecoverRelease, RecoverEnqueue, RecoverErr, RecoverCrash, DeleteOutput,
       provVars
<1>2. ASSUME NEW j \in Jobs, ProviderStep(j), output' # output
      PROVE  /\ prov[j] = "running" /\ UNCHANGED lvars
             /\ \A k \in Jobs : k # j => output'[k] = output[k]
  BY <1>0, <1>2 DEF ProviderStep, ProvTyped
<1>3. ASSUME NEW w \in Workers, ProcessStep(w) \/ ProcessFault(w) PROVE UNCHANGED output
  BY <1>3, ProcessFrames DEF provVars
<1>4. ASSUME \/ \E w \in Workers : RunOnceStep(w) \/ RunOnceFault(w)
             \/ \E j \in Jobs : MoverTick(j) \/ StaleTick(j) \/ LockTTL(j) \/ ActiveAge(j)
             \/ UNCHANGED pvars
      PROVE  UNCHANGED output
  BY <1>4 DEF RunOnceStep, RunOnceFault, MoverTick, StaleTick, LockTTL, ActiveAge, QueueFrame,
              pvars, provVars
<1> QED BY <1>1, <1>2, <1>3, <1>4 DEF PNext, ApiStep

\* What the user sees of a job's funds, before and after a step.
LEMMA FundCases ==
    ASSUME NEW j \in Jobs
    PROVE  /\ Fund(j) = IF Moved("capture", j) /\ Moved("release", j) THEN "charged and returned"
                        ELSE IF Moved("capture", j) THEN "charged"
                        ELSE IF Moved("release", j) THEN "returned"
                        ELSE IF Moved("hold", j) THEN "frozen" ELSE "free"
           /\ Fund(j)' = IF Moved("capture", j)' /\ Moved("release", j)' THEN "charged and returned"
                         ELSE IF Moved("capture", j)' THEN "charged"
                         ELSE IF Moved("release", j)' THEN "returned"
                         ELSE IF Moved("hold", j)' THEN "frozen" ELSE "free"
           /\ LedgerSame(j) => Fund(j)' = Fund(j)
BY DEF Fund, Moved, LedgerSame, Kinds

\* Freezing: the first reservation of a job that nothing was done for.
LEMMA FreezeStep ==
    ASSUME ContractInv, NEW j \in Jobs, ReserveTx(j), ReserveResult(j) = "ok"
    PROVE  /\ Fund(j) = "free" /\ Fund(j)' = "frozen"
           /\ balance >= Hold[j] /\ balance' = balance - Hold[j]
<1>1. LedgerInv /\ LTypeOK /\ JobInv(j)
  BY DEF ContractInv, Ground, PipelineInv, LedgerInv
<1>2. ~ Claimed("hold", j) /\ ~ (balance < Hold[j])
  BY DEF ReserveResult, ClaimResult
<1>3. ~ Moved("hold", j)
  BY <1>1, <1>2 DEF JobInv, Kinds
<1>4. ~ Moved("capture", j) /\ ~ Moved("release", j)
  BY <1>1, <1>3 DEF JobInv, LedgerInv, NoPhantomRelease
<1>5. balance' = balance - Hold[j] /\ moved' = moved \cup {<<"hold", j>>}
  BY DEF ReserveTx
<1>6. Moved("hold", j)' /\ ~ Moved("capture", j)' /\ ~ Moved("release", j)'
  BY <1>4, <1>5 DEF Moved
<1>7. balance >= Hold[j]
  BY <1>1, <1>2, LedgerAssumption DEF LTypeOK
<1> QED BY <1>3, <1>4, <1>5, <1>6, <1>7, FundCases

\* Giving back: a job nobody charged, whose hold is still there.
LEMMA GiveBackStep ==
    ASSUME ContractInv, NEW j \in Jobs, ReleaseTx(j), ReleaseResult(j) = "ok", Releasing(j)
    PROVE  Fund(j) = "frozen" /\ Fund(j)' = "returned" /\ balance' = balance + Hold[j]
<1>1. LedgerInv /\ JobInv(j) /\ Ground
  BY DEF ContractInv, Ground, PipelineInv
<1>2. ~ Claimed("release", j) /\ Claimed("hold", j)
  BY DEF ReleaseResult, ClaimResult
<1>3. ~ Moved("release", j) /\ Moved("hold", j)
  BY <1>1, <1>2 DEF JobInv, Kinds, LedgerInv, ClaimsMoved
<1>4. ~ Moved("capture", j)
  <2>1. CASE spc[j] \in {"release", "releaseOnly"}
    BY <1>1, <2>1, UnsubmittedFacts DEF Submitted, JobInv
  <2>2. CASE cpc[j] = "release" \/ rpc[j] = "release"
    BY <1>1, <2>2 DEF JobInv, Closed, Settled
  <2>3. ASSUME NEW w \in Workers, wjob[w] = j, stage[w] \in {"release", "exhaust"}
        PROVE  ~ Moved("capture", j)
    <3>1. StageInv(w)
      BY DEF ContractInv
    <3> QED BY <1>1, <2>3, <3>1 DEF StageInv, JobInv, Closed, Settled
  <2> QED BY <2>1, <2>2, <2>3 DEF Releasing
<1>5. balance' = balance + Hold[j] /\ moved' = moved \cup {<<"release", j>>}
  BY DEF ReleaseTx
<1>6. Moved("release", j)' /\ ~ Moved("capture", j)'
  BY <1>4, <1>5 DEF Moved
<1> QED BY <1>3, <1>4, <1>5, <1>6, FundCases

\* Charging: the worth of what was delivered, from a hold that is still there.
LEMMA ChargeStep ==
    ASSUME ContractInv, NEW w \in Workers, stage[w] = "capture", NEW j \in Jobs, wjob[w] = j,
           CaptureTx(j, cost[j]), CaptureResult(j, cost[j]) = "ok"
    PROVE  /\ Fund(j) = "frozen" /\ Fund(j)' = "charged"
           /\ Worth(j) <= Hold[j] /\ balance' = balance + (Hold[j] - Worth(j))
<1>1. JobInv(j) /\ StageInv(w)
  BY DEF ContractInv
<1>2. status[j] = "settling" /\ ~ Exhausted(j) /\ cost[j] <= Hold[j]
  BY <1>1 DEF StageInv
<1>3. Indexed(j) /\ Moved("hold", j) /\ ~ Moved("release", j)
  BY <1>1, <1>2 DEF JobInv, Settled
<1>4. ~ Moved("capture", j)
  <2>1. ~ Claimed("capture", j)
    BY DEF CaptureResult, ClaimResult
  <2> QED BY <1>1, <2>1 DEF JobInv, Kinds
<1>5. Worth(j) = cost[j]
  BY <1>3 DEF Indexed, Worth
<1>6. balance' = balance + (Hold[j] - cost[j]) /\ moved' = moved \cup {<<"capture", j>>}
  BY DEF CaptureTx
<1>7. Moved("capture", j)' /\ ~ Moved("release", j)'
  BY <1>3, <1>6 DEF Moved
<1> QED BY <1>2, <1>3, <1>4, <1>5, <1>6, <1>7, FundCases

\* Every step freezes, delivers, charges or gives back for one job, or shows the
\* user nothing.
LEMMA ContractSteps ==
    ASSUME ContractInv, [PNext]_pvars PROVE [Contract!HNext]_(Contract!vars)
<1> DEFINE F == [j \in Jobs |-> Fund(j)]
           W == [j \in Jobs |-> Worth(j)]
<1>0. PTypeOK /\ LTypeOK /\ RowTyped
  BY PTypeParts DEF ContractInv, Ground, PipelineInv
<1>1. ASSUME UNCHANGED lvars PROVE F' = F /\ balance' = balance
  <2>1. \A j \in Jobs : Fund(j)' = Fund(j)
    BY <1>1, SameAll, FundCases
  <2>2. balance' = balance
    BY <1>1 DEF lvars
  <2> QED BY <2>1, <2>2
<1>2. ASSUME UNCHANGED output PROVE W' = W
  BY <1>2 DEF Worth
<1>3. ASSUME NEW j \in Jobs, \A k \in Jobs : k # j => LedgerSame(k)
      PROVE  F' = [F EXCEPT ![j] = Fund(j)']
  <2>1. \A k \in Jobs : k # j => Fund(k)' = Fund(k)
    BY <1>3, FundCases
  <2> QED BY <2>1
<1>4. ASSUME UNCHANGED lvars, UNCHANGED output PROVE UNCHANGED Contract!vars
  BY <1>1, <1>2, <1>4 DEF Contract!vars
<1>5. CASE ~ UNCHANGED output
  <2>1. PICK j \in Jobs : /\ prov[j] = "running" /\ UNCHANGED lvars
                          /\ \A k \in Jobs : k # j => output'[k] = output[k]
    BY <1>0, <1>5, OutputMove
  <2>2. F[j] # "charged"
    <3>1. ~ Moved("capture", j)
      BY <2>1 DEF ContractInv, JobInv, Indexed
    <3> QED BY <3>1, FundCases
  <2>3. W' = [W EXCEPT ![j] = W'[j]]
    <3>1. \A k \in Jobs : k # j => Worth(k)' = Worth(k)
      BY <2>1 DEF Worth
    <3> QED BY <3>1
  <2>4. Contract!Deliver(j)
    BY <1>1, <2>1, <2>2, <2>3 DEF Contract!Deliver
  <2> QED BY <2>4 DEF Contract!HNext
<1>6. CASE UNCHANGED output
  <2>0. W' = W
    BY <1>2, <1>6
  <2>1. LedgerMove
    BY <1>0, PipelineLedger
  <2>2. ASSUME NEW j \in Jobs, ReserveTx(j) PROVE [Contract!HNext]_(Contract!vars)
    <3>1. CASE ReserveResult(j) = "ok"
      <4>1. /\ Fund(j) = "free" /\ Fund(j)' = "frozen"
            /\ balance >= Hold[j] /\ balance' = balance - Hold[j]
        BY <2>2, <3>1, FreezeStep
      <4>2. F' = [F EXCEPT ![j] = "frozen"]
        BY <1>0, <1>3, <2>2, <4>1, TxFacts
      <4>3. Contract!Freeze(j)
        BY <2>0, <4>1, <4>2 DEF Contract!Freeze
      <4> QED BY <4>3 DEF Contract!HNext
    <3>2. CASE ReserveResult(j) # "ok"
      BY <1>4, <1>6, <2>2, <3>2 DEF ReserveTx
    <3> QED BY <3>1, <3>2
  <2>3. ASSUME NEW j \in Jobs, ReleaseTx(j), Releasing(j)
        PROVE  [Contract!HNext]_(Contract!vars)
    <3>1. CASE ReleaseResult(j) = "ok"
      <4>1. Fund(j) = "frozen" /\ Fund(j)' = "returned" /\ balance' = balance + Hold[j]
        BY <2>3, <3>1, GiveBackStep
      <4>2. F' = [F EXCEPT ![j] = "returned"]
        BY <1>0, <1>3, <2>3, <4>1, TxFacts
      <4>3. Contract!GiveBack(j)
        BY <2>0, <4>1, <4>2 DEF Contract!GiveBack
      <4> QED BY <4>3 DEF Contract!HNext
    <3>2. CASE ReleaseResult(j) # "ok"
      <4>1. UNCHANGED <<balance, moved>>
        BY <2>3, <3>2 DEF ReleaseTx, lvars
      <4>2. F' = F
        BY <4>1 DEF Fund, Moved
      <4> QED BY <2>0, <4>1, <4>2 DEF Contract!vars
    <3> QED BY <3>1, <3>2
  <2>4. ASSUME NEW w \in Workers, CaptureTx(wjob[w], cost[wjob[w]]), wpc[w] = "processing",
               stage[w] = "capture"
        PROVE  [Contract!HNext]_(Contract!vars)
    <3>1. PICK j \in Jobs : j = wjob[w]
      BY <1>0, <2>4, PTypeParts DEF QTypeOK
    <3>2. CaptureTx(j, cost[j]) /\ cost[j] \in Nat
      BY <1>0, <2>4, <3>1 DEF RowTyped
    <3>3. CASE CaptureResult(j, cost[j]) = "ok"
      <4>1. /\ Fund(j) = "frozen" /\ Fund(j)' = "charged"
            /\ Worth(j) <= Hold[j] /\ balance' = balance + (Hold[j] - Worth(j))
        BY <2>4, <3>1, <3>2, <3>3, ChargeStep
      <4>2. F' = [F EXCEPT ![j] = "charged"]
        BY <1>0, <1>3, <3>2, <4>1, TxFacts
      <4>3. Contract!Charge(j)
        BY <2>0, <4>1, <4>2 DEF Contract!Charge
      <4> QED BY <4>3 DEF Contract!HNext
    <3>4. CASE CaptureResult(j, cost[j]) # "ok"
      BY <1>4, <1>6, <3>2, <3>4 DEF CaptureTx
    <3> QED BY <3>3, <3>4
  <2> QED BY <1>4, <1>6, <2>1, <2>2, <2>3, <2>4 DEF LedgerMove
<1> QED BY <1>5, <1>6

\* The pipeline implements the billing contract: every job's funds are frozen at
\* most once and then charged or given back, never both, and the charge is what
\* the provider delivered, whatever Submit, Cancel, the recovery, the workers,
\* their crashes and their failing calls do.
THEOREM HoldContractHolds ==
    ASSUME Calm
    PROVE  PSpec /\ []RetriesLeft => HoldContract
<1>1. PInit => Contract!HInit
  BY DEF PInit, LInit, Contract!HInit, Fund, Moved, Worth, BadOutput
<1>2. ContractInv /\ [PNext]_pvars => [Contract!HNext]_(Contract!vars)
  BY ContractSteps
<1> QED BY <1>1, <1>2, ContractInvariant, PTL DEF PSpec, HoldContract, Contract!HSpec
=============================================================================
