------------------------ MODULE BatchImageQueueProofs ------------------------
(* Machine-checked proofs about BatchImageQueue, for any number of jobs,       *)
(* workers, outages and faults.                                              *)
EXTENDS BatchImageQueue, FiniteSetTheorems, SequenceTheorems, TLAPS

-----------------------------------------------------------------------------
(* Facts about the ready list.                                              *)

\* What a mover script pushes is a list of exactly the jobs it removed from
\* the zset (batchImageMoveDueDelayedScript, batchImageRecoverStaleActiveScript).
LEMMA OrdersCover ==
    ASSUME NEW S \in SUBSET Jobs, NEW s \in Orders(S)
    PROVE  /\ s \in Seq(Jobs)
           /\ \A j \in S : \E i \in 1..Len(s) : s[i] = j
<1>1. IsFiniteSet(S)
  BY JobsAssumption, FS_Subset
<1>2. Cardinality(S) \in Nat
  BY <1>1, FS_CardinalityType
<1>3. s \in [1..Cardinality(S) -> S] /\ S \subseteq {s[i] : i \in DOMAIN s}
  BY DEF Orders
<1>4. s \in Seq(S) /\ Len(s) = Cardinality(S) /\ DOMAIN s = 1..Len(s)
  BY <1>2, <1>3
<1> QED
  BY <1>3, <1>4

\* Pushing at the head of the list loses no member of either part.
LEMMA PushMembers ==
    ASSUME NEW s \in Seq(Jobs), NEW t \in Seq(Jobs)
    PROVE  /\ s \o t \in Seq(Jobs)
           /\ \A i \in 1..Len(s) : \E k \in 1..Len(s \o t) : (s \o t)[k] = s[i]
           /\ \A i \in 1..Len(t) : \E k \in 1..Len(s \o t) : (s \o t)[k] = t[i]
<1>1. s \o t \in Seq(Jobs) /\ Len(s \o t) = Len(s) + Len(t)
  OBVIOUS
<1>2. \A i \in 1..Len(s) : i \in 1..Len(s \o t) /\ (s \o t)[i] = s[i]
  BY <1>1
<1>3. \A i \in 1..Len(t) : Len(s) + i \in 1..Len(s \o t) /\ (s \o t)[Len(s) + i] = t[i]
  BY <1>1
<1> QED
  BY <1>1, <1>2, <1>3

\* RPOP takes the last entry and keeps the others where they are.
LEMMA PopShape ==
    ASSUME NEW t \in Seq(Jobs), t # <<>>
    PROVE  LET f == SubSeq(t, 1, Len(t) - 1)
           IN  f \in Seq(Jobs) /\ Len(f) = Len(t) - 1 /\ \A k \in 1..Len(f) : f[k] = t[k]
<1> DEFINE f == SubSeq(t, 1, Len(t) - 1)
<1>1. Len(t) \in Nat \ {0}
  OBVIOUS
<1>2. PICK n \in Nat : Len(t) = n + 1
  BY <1>1
<1>3. f = SubSeq(t, 1, n) /\ Len(t) - 1 = n
  BY <1>2
<1>4. \A i \in 1..n : t[i] \in Jobs
  BY <1>2
<1>5. /\ SubSeq(t, 1, n) \in Seq(Jobs)
      /\ Len(SubSeq(t, 1, n)) = IF 1 <= n THEN n - 1 + 1 ELSE 0
      /\ \A i \in 1..n - 1 + 1 : SubSeq(t, 1, n)[i] = t[1 + i - 1]
  BY <1>4, SubSeqProperties
<1> DEFINE g == SubSeq(t, 1, n)
<1>6. g \in Seq(Jobs) /\ Len(g) = n /\ \A i \in 1..n : g[i] = t[i]
  <2> HIDE DEF g
  <2>1. n - 1 + 1 = n /\ \A i \in 1..n : 1 + i - 1 = i
    OBVIOUS
  <2>2. Len(g) = IF 1 <= n THEN n ELSE 0
    BY <1>5, <2>1 DEF g
  <2>3. Len(g) = n
    BY <2>2
  <2> QED
    BY <1>5, <2>1, <2>3 DEF g
<1> QED
  BY <1>3, <1>6

\* RPOP removes one entry: every other member of the list is still there.
LEMMA PopMembers ==
    ASSUME NEW t \in Seq(Jobs), t # <<>>
    PROVE  /\ t[Len(t)] \in Jobs
           /\ SubSeq(t, 1, Len(t) - 1) \in Seq(Jobs)
           /\ \A i \in 1..Len(t) :
                \/ t[i] = t[Len(t)]
                \/ \E k \in 1..Len(SubSeq(t, 1, Len(t) - 1)) :
                      SubSeq(t, 1, Len(t) - 1)[k] = t[i]
<1> DEFINE f == SubSeq(t, 1, Len(t) - 1)
<1>1. Len(t) \in Nat \ {0}
  OBVIOUS
<1>2. f \in Seq(Jobs) /\ Len(f) = Len(t) - 1 /\ \A k \in 1..Len(f) : f[k] = t[k]
  BY PopShape
<1>3. \A i \in 1..Len(t) : i = Len(t) \/ i \in 1..Len(f)
  BY <1>1, <1>2
<1> QED
  BY <1>1, <1>2, <1>3

-----------------------------------------------------------------------------
(* Type correctness.                                                        *)

\* The enqueue script keeps the types, whoever runs it.
LEMMA EnqueueType ==
    ASSUME QTypeOK, NEW j \in Jobs, EnqueueScript(j), UNCHANGED <<worker, outages, faults>>
    PROVE  QTypeOK'
<1>1. <<j>> \o ready \in Seq(Jobs)
  BY PushMembers DEF QTypeOK
<1> QED BY <1>1, QueueAssumption DEF EnqueueScript, QTypeOK, worker

\* Every step of a worker, a mover, a producer, and every fault keeps the types.
LEMMA QTypeStep == ASSUME QTypeOK, [QNext]_qvars PROVE QTypeOK'
<1> USE QueueAssumption DEF QTypeOK, WorkerPcs, OwningPcs, redis, worker
<1>1. ASSUME NEW j \in Jobs, Enqueue(j) PROVE QTypeOK'
  BY <1>1, EnqueueType DEF Enqueue
<1>2. ASSUME NEW j \in Jobs, ExpireInflight(j) PROVE QTypeOK'
  BY <1>2 DEF ExpireInflight
<1>3. ASSUME NEW j \in Jobs, ExpireLock(j) PROVE QTypeOK'
  BY <1>3 DEF ExpireLock
<1>4. ASSUME NEW j \in Jobs, AgeActive(j) PROVE QTypeOK'
  BY <1>4 DEF AgeActive
<1>5. ASSUME NEW w \in Workers, Reserve(w) PROVE QTypeOK'
  <2>1. ready[Len(ready)] \in Jobs /\ SubSeq(ready, 1, Len(ready) - 1) \in Seq(Jobs)
    BY <1>5, PopMembers DEF Reserve
  <2> QED BY <1>5, <2>1 DEF Reserve
<1>6. ASSUME NEW w \in Workers, TryAcquireJobLock(w) PROVE QTypeOK'
  BY <1>6 DEF TryAcquireJobLock, Goto
<1>7. ASSUME NEW w \in Workers, RequeueConflict(w) PROVE QTypeOK'
  BY <1>7 DEF RequeueConflict, RequeueAfter, GoIdle
<1>8. ASSUME NEW w \in Workers, NEW n \in {"requeue", "ack"}, FinishProcess(w, n)
      PROVE QTypeOK'
  BY <1>8 DEF FinishProcess, Goto
<1>9. ASSUME NEW w \in Workers, Requeue(w) PROVE QTypeOK'
  BY <1>9 DEF Requeue, RequeueAfter, Goto
<1>10. ASSUME NEW w \in Workers, Ack(w) PROVE QTypeOK'
  BY <1>10 DEF Ack, AckPipeline, Goto
<1>11. ASSUME NEW w \in Workers, ReleaseLock(w) PROVE QTypeOK'
  BY <1>11 DEF ReleaseLock, GoIdle
<1>12. ASSUME NEW w \in Workers, TryAcquireJobLockFails(w) PROVE QTypeOK'
  BY <1>12 DEF TryAcquireJobLockFails, Goto
<1>13. ASSUME NEW w \in Workers, QueueCallFails(w) PROVE QTypeOK'
  BY <1>13 DEF QueueCallFails, Goto, GoIdle
<1>14. ASSUME NEW w \in Workers, Heartbeat(w) PROVE QTypeOK'
  BY <1>14 DEF Heartbeat
<1>15. ASSUME NEW w \in Workers, Stall(w) PROVE QTypeOK'
  BY <1>15 DEF Stall
<1>16. ASSUME NEW w \in Workers, Crash(w) PROVE QTypeOK'
  BY <1>16 DEF Crash, GoIdle
<1>17. ASSUME NEW S \in SUBSET Jobs, MoveDueDelayed(S) PROVE QTypeOK'
  <2>1. PICK s \in Orders(S) : ready' = s \o ready
    BY <1>17 DEF MoveDueDelayed
  <2>2. ready' \in Seq(Jobs)
    BY <2>1, OrdersCover, PushMembers
  <2> QED BY <1>17, <2>2 DEF MoveDueDelayed
<1>18. ASSUME NEW S \in SUBSET Jobs, RecoverStaleActive(S) PROVE QTypeOK'
  <2>1. PICK s \in Orders(S) : ready' = s \o ready
    BY <1>18 DEF RecoverStaleActive
  <2>2. ready' \in Seq(Jobs)
    BY <2>1, OrdersCover, PushMembers
  <2> QED BY <1>18, <2>2 DEF RecoverStaleActive
<1>19. CASE UNCHANGED qvars
  BY <1>19 DEF qvars
<1> QED
  BY <1>1, <1>2, <1>3, <1>4, <1>5, <1>6, <1>7, <1>8, <1>9, <1>10, <1>11, <1>12,
     <1>13, <1>14, <1>15, <1>16, <1>17, <1>18, <1>19 DEF QNext, WorkerStep

\* The state keeps its types under every step of every worker, mover, producer
\* and fault.
THEOREM QTypeCorrect == QSpec => []QTypeOK
<1>1. QInit => QTypeOK
  BY QueueAssumption DEF QInit, QTypeOK, WorkerPcs
<1>2. QTypeOK /\ [QNext]_qvars => QTypeOK'
  BY QTypeStep
<1> QED
  BY <1>1, <1>2, PTL DEF QSpec

-----------------------------------------------------------------------------
(* A queued job is never lost.                                              *)

\* A member of the ready list stays one when a script pushes at the head.
LEMMA PushKeepsReady ==
    ASSUME NEW s \in Seq(Jobs), ready \in Seq(Jobs), ready' = s \o ready
    PROVE  \A j \in Jobs :
             InReady(j) \/ (\E i \in 1..Len(s) : s[i] = j) => InReady(j)'
<1>1. /\ \A i \in 1..Len(s) : \E k \in 1..Len(s \o ready) : (s \o ready)[k] = s[i]
      /\ \A i \in 1..Len(ready) : \E k \in 1..Len(s \o ready) : (s \o ready)[k] = ready[i]
  BY PushMembers
<1> DEFINE r == s \o ready
<1>2. \A j \in Jobs : InReady(j)' <=> \E k \in 1..Len(r) : r[k] = j
  BY DEF InReady
<1> HIDE DEF r
<1>3. /\ \A i \in 1..Len(s) : \E k \in 1..Len(r) : r[k] = s[i]
      /\ \A i \in 1..Len(ready) : \E k \in 1..Len(r) : r[k] = ready[i]
  BY <1>1 DEF r
<1>4. \A j \in Jobs : InReady(j) => \E k \in 1..Len(r) : r[k] = j
  BY <1>3 DEF InReady
<1>5. \A j \in Jobs :
        (\E i \in 1..Len(s) : s[i] = j) => \E k \in 1..Len(r) : r[k] = j
  BY <1>3
<1> QED
  BY <1>2, <1>4, <1>5, Zenon

\* The enqueue script pushes what it marks as inflight.
LEMMA EnqueueTracked ==
    ASSUME QTypeOK, InflightTracked, NEW j \in Jobs, EnqueueScript(j)
    PROVE  InflightTracked'
<1> USE DEF QTypeOK, InflightTracked
<1>1. CASE j \in inflight
  <2>1. ready' = ready /\ inflight' = inflight /\ active' = active /\ delayed' = delayed
    BY <1>1 DEF EnqueueScript
  <2> QED BY <2>1 DEF InReady
<1>2. CASE j \notin inflight
  <2>1. /\ ready' = <<j>> \o ready /\ inflight' = inflight \cup {j}
        /\ active' = active /\ delayed' = delayed
    BY <1>2 DEF EnqueueScript
  <2>2. <<j>> \in Seq(Jobs) /\ Len(<<j>>) = 1 /\ <<j>>[1] = j
    OBVIOUS
  <2>3. \A k \in Jobs :
          InReady(k) \/ (\E i \in 1..Len(<<j>>) : <<j>>[i] = k) => InReady(k)'
    BY <2>1, <2>2, PushKeepsReady
  <2>4. 1 \in 1..Len(<<j>>)
    BY <2>2
  <2>5. InReady(j)'
    BY <2>2, <2>3, <2>4, Zenon
  <2> QED BY <2>1, <2>3, <2>5
<1> QED BY <1>1, <1>2

\* No step loses a job that is inflight.
LEMMA InflightStep == ASSUME QTypeOK, InflightTracked, [QNext]_qvars PROVE InflightTracked'
<1> USE QueueAssumption DEF QTypeOK, InflightTracked, redis, worker
<1>0. ASSUME ready' = ready PROVE \A j \in Jobs : InReady(j) <=> InReady(j)'
  BY <1>0 DEF InReady
<1>1. ASSUME NEW j \in Jobs, Enqueue(j) PROVE InflightTracked'
  BY <1>1, EnqueueTracked DEF Enqueue
<1>2. ASSUME NEW j \in Jobs, ExpireInflight(j) PROVE InflightTracked'
  BY <1>0, <1>2 DEF ExpireInflight
<1>3. ASSUME NEW j \in Jobs, ExpireLock(j) PROVE InflightTracked'
  BY <1>0, <1>3 DEF ExpireLock
<1>4. ASSUME NEW j \in Jobs, AgeActive(j) PROVE InflightTracked'
  BY <1>0, <1>4 DEF AgeActive
<1>5. ASSUME NEW w \in Workers, Reserve(w) PROVE InflightTracked'
  <2> DEFINE last == ready[Len(ready)]
  <2>1. /\ ready # <<>> /\ ready' = SubSeq(ready, 1, Len(ready) - 1)
        /\ active' = active \cup {last}
        /\ delayed' = delayed /\ inflight' = inflight
    BY <1>5 DEF Reserve
  <2>2. \A k \in Jobs : InReady(k) => k = last \/ InReady(k)'
    BY <2>1, PopMembers DEF InReady
  <2> QED BY <2>1, <2>2
<1>6. ASSUME NEW w \in Workers, TryAcquireJobLock(w) PROVE InflightTracked'
  BY <1>0, <1>6 DEF TryAcquireJobLock
<1>7. ASSUME NEW w \in Workers, RequeueConflict(w) PROVE InflightTracked'
  BY <1>0, <1>7 DEF RequeueConflict, RequeueAfter
<1>8. ASSUME NEW w \in Workers, NEW n \in {"requeue", "ack"}, FinishProcess(w, n)
      PROVE InflightTracked'
  BY <1>0, <1>8 DEF FinishProcess
<1>9. ASSUME NEW w \in Workers, Requeue(w) PROVE InflightTracked'
  BY <1>0, <1>9 DEF Requeue, RequeueAfter
<1>10. ASSUME NEW w \in Workers, Ack(w) PROVE InflightTracked'
  BY <1>0, <1>10 DEF Ack, AckPipeline
<1>11. ASSUME NEW w \in Workers, ReleaseLock(w) PROVE InflightTracked'
  BY <1>0, <1>11 DEF ReleaseLock
<1>12. ASSUME NEW w \in Workers, TryAcquireJobLockFails(w) PROVE InflightTracked'
  BY <1>0, <1>12 DEF TryAcquireJobLockFails
<1>13. ASSUME NEW w \in Workers, QueueCallFails(w) PROVE InflightTracked'
  BY <1>0, <1>13 DEF QueueCallFails
<1>14. ASSUME NEW w \in Workers, Heartbeat(w) PROVE InflightTracked'
  BY <1>0, <1>14 DEF Heartbeat
<1>15. ASSUME NEW w \in Workers, Stall(w) PROVE InflightTracked'
  BY <1>0, <1>15 DEF Stall
<1>16. ASSUME NEW w \in Workers, Crash(w) PROVE InflightTracked'
  BY <1>0, <1>16 DEF Crash
<1>17. ASSUME NEW S \in SUBSET Jobs, MoveDueDelayed(S) PROVE InflightTracked'
  <2>1. PICK s \in Orders(S) : ready' = s \o ready
    BY <1>17 DEF MoveDueDelayed
  <2>2. s \in Seq(Jobs) /\ \A j \in S : \E i \in 1..Len(s) : s[i] = j
    BY OrdersCover
  <2>3. \A j \in Jobs : InReady(j) \/ (\E i \in 1..Len(s) : s[i] = j) => InReady(j)'
    BY <2>1, <2>2, PushKeepsReady
  <2>4. \A j \in Jobs : InReady(j) \/ j \in S => InReady(j)'
    BY <2>2, <2>3, Zenon
  <2> QED BY <1>17, <2>4 DEF MoveDueDelayed
<1>18. ASSUME NEW S \in SUBSET Jobs, RecoverStaleActive(S) PROVE InflightTracked'
  <2>1. PICK s \in Orders(S) : ready' = s \o ready
    BY <1>18 DEF RecoverStaleActive
  <2>2. s \in Seq(Jobs) /\ \A j \in S : \E i \in 1..Len(s) : s[i] = j
    BY OrdersCover
  <2>3. \A j \in Jobs : InReady(j) \/ (\E i \in 1..Len(s) : s[i] = j) => InReady(j)'
    BY <2>1, <2>2, PushKeepsReady
  <2>4. \A j \in Jobs : InReady(j) \/ j \in S => InReady(j)'
    BY <2>2, <2>3, Zenon
  <2> QED BY <1>18, <2>4 DEF RecoverStaleActive
<1>19. CASE UNCHANGED qvars
  BY <1>0, <1>19 DEF qvars
<1> QED
  BY <1>1, <1>2, <1>3, <1>4, <1>5, <1>6, <1>7, <1>8, <1>9, <1>10, <1>11, <1>12,
     <1>13, <1>14, <1>15, <1>16, <1>17, <1>18, <1>19 DEF QNext, WorkerStep

\* A job whose inflight key blocks re-enqueueing is always in the ready list,
\* the active zset or the delayed zset (atomicity of the Lua scripts,
\* batch_image_queue.go:61-82): crashes, failed Redis calls and late workers
\* cannot wedge it.
THEOREM InflightNeverLost == QSpec => []InflightTracked
<1>1. QInit => InflightTracked
  BY DEF QInit, InflightTracked
<1>2. QTypeOK /\ InflightTracked /\ [QNext]_qvars => InflightTracked'
  BY InflightStep
<1> QED
  BY <1>1, <1>2, QTypeCorrect, PTL DEF QSpec

-----------------------------------------------------------------------------
(* Mutual exclusion.                                                        *)

\* The strengthening: before the first heartbeat outage every worker past its
\* SETNX still finds its own token in the lock key.
OwnersHoldLock ==
    /\ late # {} => outages > 0
    /\ outages = 0 => \A w \in Workers : wpc[w] \in OwningPcs => lock[wjob[w]] = w

\* Only SETNX makes an owner, and only the owner's release or an expiry takes the key.
LEMMA OwnersStep == ASSUME QTypeOK, OwnersHoldLock, [QNext]_qvars PROVE OwnersHoldLock'
<1> USE QueueAssumption DEF QTypeOK, OwnersHoldLock, WorkerPcs, OwningPcs, redis, worker
<1>1. ASSUME NEW j \in Jobs, Enqueue(j) PROVE OwnersHoldLock'
  BY <1>1 DEF Enqueue, EnqueueScript
<1>2. ASSUME NEW j \in Jobs, ExpireInflight(j) PROVE OwnersHoldLock'
  BY <1>2 DEF ExpireInflight
<1>3. ASSUME NEW j \in Jobs, ExpireLock(j) PROVE OwnersHoldLock'
  <2>1. \A w \in Workers : wpc[w] \in OwningPcs /\ wjob[w] = j /\ lock[j] = w => w \in late
    BY <1>3 DEF ExpireLock, Owns
  <2> QED BY <1>3, <2>1 DEF ExpireLock
<1>4. ASSUME NEW j \in Jobs, AgeActive(j) PROVE OwnersHoldLock'
  BY <1>4 DEF AgeActive
<1>5. ASSUME NEW w \in Workers, Reserve(w) PROVE OwnersHoldLock'
  BY <1>5 DEF Reserve
<1>6. ASSUME NEW w \in Workers, TryAcquireJobLock(w) PROVE OwnersHoldLock'
  BY <1>6 DEF TryAcquireJobLock, Goto
<1>7. ASSUME NEW w \in Workers, RequeueConflict(w) PROVE OwnersHoldLock'
  BY <1>7 DEF RequeueConflict, RequeueAfter, GoIdle
<1>8. ASSUME NEW w \in Workers, NEW n \in {"requeue", "ack"}, FinishProcess(w, n)
      PROVE OwnersHoldLock'
  BY <1>8 DEF FinishProcess, Goto
<1>9. ASSUME NEW w \in Workers, Requeue(w) PROVE OwnersHoldLock'
  BY <1>9 DEF Requeue, RequeueAfter, Goto
<1>10. ASSUME NEW w \in Workers, Ack(w) PROVE OwnersHoldLock'
  BY <1>10 DEF Ack, AckPipeline, Goto
<1>11. ASSUME NEW w \in Workers, ReleaseLock(w) PROVE OwnersHoldLock'
  BY <1>11 DEF ReleaseLock, GoIdle
<1>12. ASSUME NEW w \in Workers, TryAcquireJobLockFails(w) PROVE OwnersHoldLock'
  BY <1>12 DEF TryAcquireJobLockFails, Goto
<1>13. ASSUME NEW w \in Workers, QueueCallFails(w) PROVE OwnersHoldLock'
  BY <1>13 DEF QueueCallFails, Goto, GoIdle
<1>14. ASSUME NEW w \in Workers, Heartbeat(w) PROVE OwnersHoldLock'
  BY <1>14 DEF Heartbeat
<1>15. ASSUME NEW w \in Workers, Stall(w) PROVE OwnersHoldLock'
  BY <1>15 DEF Stall
<1>16. ASSUME NEW w \in Workers, Crash(w) PROVE OwnersHoldLock'
  BY <1>16 DEF Crash, GoIdle
<1>17. ASSUME NEW S \in SUBSET Jobs, MoveDueDelayed(S) PROVE OwnersHoldLock'
  BY <1>17 DEF MoveDueDelayed
<1>18. ASSUME NEW S \in SUBSET Jobs, RecoverStaleActive(S) PROVE OwnersHoldLock'
  BY <1>18 DEF RecoverStaleActive
<1>19. CASE UNCHANGED qvars
  BY <1>19 DEF qvars
<1> QED
  BY <1>1, <1>2, <1>3, <1>4, <1>5, <1>6, <1>7, <1>8, <1>9, <1>10, <1>11, <1>12,
     <1>13, <1>14, <1>15, <1>16, <1>17, <1>18, <1>19 DEF QNext, WorkerStep

\* Two owners of one job would be two holders of its key.
LEMMA OwnersExclude == QTypeOK /\ OwnersHoldLock => ExclusiveProcessing
BY DEF QTypeOK, OwnersHoldLock, ExclusiveProcessing, Owns

\* Without a heartbeat outage no two workers process, requeue or acknowledge
\* one job at the same time (TryAcquireJobLock's SETNX, Release's token
\* comparison and runJobHeartbeat together).
THEOREM MutualExclusion == QSpec => []ExclusiveProcessing
<1>1. QInit => OwnersHoldLock
  BY DEF QInit, OwnersHoldLock, OwningPcs
<1>2. QTypeOK /\ OwnersHoldLock /\ [QNext]_qvars => OwnersHoldLock'
  BY OwnersStep
<1> QED
  BY <1>1, <1>2, OwnersExclude, QTypeCorrect, PTL DEF QSpec

-----------------------------------------------------------------------------
(* The lock of a worker that keeps its heartbeat.                           *)

\* A worker that lost its lock, a crash, an expiry or a failed call never frees
\* the lock a heartbeating worker owns (the token comparison of
\* batchImageReleaseLockScript).
THEOREM LockOwnershipKept == QSpec => OwnerKeepsLock
<1> DEFINE Step ==
       \A w \in Workers, j \in Jobs :
         lock[j] = w /\ Owns(w, j) /\ w \notin late /\ lock'[j] # w
           => ~ Owns(w, j)'
<1>1. QTypeOK /\ [QNext]_qvars => [Step]_qvars
  <2> SUFFICES ASSUME QTypeOK, QNext, NEW w \in Workers, NEW j \in Jobs,
                      lock[j] = w, Owns(w, j), w \notin late, lock'[j] # w
               PROVE  ~ Owns(w, j)'
    BY DEF qvars
  <2> USE QueueAssumption DEF QTypeOK, Owns
  <2>2. ASSUME NEW i \in Jobs, Enqueue(i) \/ ExpireInflight(i) \/ AgeActive(i)
        PROVE FALSE
    BY <2>2 DEF Enqueue, EnqueueScript, ExpireInflight, AgeActive
  <2>3. ASSUME NEW i \in Jobs, ExpireLock(i) PROVE FALSE
    BY <2>3 DEF ExpireLock
  <2>4. ASSUME NEW v \in Workers, TryAcquireJobLock(v) \/ TryAcquireJobLockFails(v)
        PROVE FALSE
    BY <2>4 DEF TryAcquireJobLock, TryAcquireJobLockFails
  <2>5. ASSUME NEW v \in Workers, ReleaseLock(v) PROVE ~ Owns(w, j)'
    BY <2>5 DEF ReleaseLock, GoIdle, OwningPcs
  <2>6. ASSUME NEW v \in Workers,
               \/ Reserve(v) \/ RequeueConflict(v) \/ Requeue(v) \/ Ack(v)
               \/ QueueCallFails(v) \/ Heartbeat(v) \/ Stall(v) \/ Crash(v)
               \/ \E n \in {"requeue", "ack"} : FinishProcess(v, n)
        PROVE FALSE
    BY <2>6 DEF Reserve, RequeueConflict, RequeueAfter, Requeue, Ack, AckPipeline,
                QueueCallFails, Heartbeat, Stall, Crash, FinishProcess, redis
  <2>7. ASSUME NEW S \in SUBSET Jobs, MoveDueDelayed(S) \/ RecoverStaleActive(S)
        PROVE FALSE
    BY <2>7 DEF MoveDueDelayed, RecoverStaleActive
  <2> QED
    BY <2>2, <2>3, <2>4, <2>5, <2>6, <2>7 DEF QNext, WorkerStep
<1> QED
  BY <1>1, QTypeCorrect, PTL DEF QSpec, OwnerKeepsLock
=============================================================================
