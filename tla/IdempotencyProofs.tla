------------------------- MODULE IdempotencyProofs -------------------------
(***************************************************************************)
(* One execution at a time, one result per record lifetime and no success    *)
(* lost but to a late takeover: NoOverlap, OneResult and SuccessKept of the  *)
(* idempotency coordinator, for any number of requests, faults and ticks     *)
(* within the timing the code counts on.                                     *)
(***************************************************************************)
EXTENDS Idempotency, TLAPS

Taking == {"reclaim", "retake"}

\* A takeover that read the row before it was claimed came too late.
Locked == \A s \in Requests : pc[s] = "reclaim" => start[s] < rec.lock

\* What m renewals that failed in a row cost.
Cost(m) == m * Interval

\* The renewals keep the row of a request alive: misses in a row cost an
\* interval each, and the next renewal is due within one.
LeaseInv(r) ==
    pc[r] = "exec" /\ r \in Renewed =>
        /\ misses[r] <= MaxMisses
        /\ clock <= renewedAt[r] + Interval
        /\ renewedAt[r] + Ttl <= rec.exp + MaxClaim + Cost(misses[r])

\* A request that runs owns the row, which nobody can take from it.
Holds(r) ==
    /\ rec \in Rows /\ rec.id = own[r] /\ rec.status = "processing"
    /\ rec.fp = Fingerprint(r)
    /\ rec.exp > clock /\ rec.exp >= start[r] + Ttl
    /\ Locked
    /\ LeaseInv(r)

\* What a request knows before it claims the row.
ClaimInv(r) ==
    /\ start[r] <= clock
    /\ pc[r] \in Claiming => clock <= start[r] + MaxClaim
    /\ pc[r] \in {"idle"} \cup Claiming => misses[r] = 0 /\ r \notin effect
    /\ pc[r] \in Taking =>
         /\ seen[r] \in Rows /\ seen[r].id <= lastId
         /\ rec.id = seen[r].id => rec.fp = Fingerprint(r)

\* The row remembers that r took effect: as its success, or as a claim that
\* nobody can take over before its lifetime ends.
RowKept(r) ==
    /\ rec \in Rows /\ rec.id = own[r] /\ rec.exp >= start[r] + Ttl
    /\ \A s \in Requests : pc[s] \in Running => s = r
    /\ \/ rec.status = "processing" /\ Locked
       \/ rec.status = "succeeded" /\ rec.body = r

EffectInv(r) ==
    /\ pc[r] = "ok" => r \in effect
    /\ r \in effect =>
         /\ pc[r] \in {"ok", "end"}
         /\ clock >= start[r] + Ttl \/ r \in lost \/ RowKept(r)

\* A recorded success is the result of an execution with the row's payload.
SuccessInv ==
    rec.status = "succeeded" => rec.body \in effect /\ Fingerprint(rec.body) = rec.fp

\* An execution that took effect and one under way are a lifetime apart too.
PairInv ==
    \A r \in effect, s \in Requests :
        s \in effect \/ pc[s] \in Running => r = s \/ Apart(r, s) \/ r \in lost \/ s \in lost

Types ==
    /\ TypeOK
    /\ rec.id <= lastId
    /\ renewedAt \in [Requests -> Nat] /\ claimedAt \in [Requests -> Nat]

IInv ==
    /\ Types
    /\ \A r \in Requests : ClaimInv(r) /\ EffectInv(r) /\ (pc[r] \in Running => Holds(r))
    /\ NoOverlap /\ SuccessInv /\ ReplayIsResult /\ PairInv

-----------------------------------------------------------------------------
(* The constants.                                                            *)

LEMMA LargerOfTwo ==
    ASSUME NEW x \in Nat, NEW y \in Nat
    PROVE  Max({x, y}) = IF x >= y THEN x ELSE y
<1> DEFINE m == IF x >= y THEN x ELSE y
<1>1. m \in {x, y} /\ \A z \in {x, y} : m >= z
  OBVIOUS
<1>2. \A n \in {x, y} : (\A z \in {x, y} : n >= z) => n = m
  OBVIOUS
<1> QED BY <1>1, <1>2 DEF Max

LEMMA SmallerOfTwo ==
    ASSUME NEW x \in Nat, NEW y \in Nat
    PROVE  Min({x, y}) \in Nat
<1> DEFINE m == IF x <= y THEN x ELSE y
<1>1. m \in {x, y} /\ \A z \in {x, y} : m <= z
  OBVIOUS
<1> QED BY <1>1 DEF Min

LEMMA Constants ==
    ASSUME TimingAssumption
    PROVE  /\ Ttl \in Nat /\ Ttl > 0 /\ Lease \in Nat /\ Lease > 0 /\ Backoff \in Nat
           /\ MaxTime \in Nat /\ MaxTime >= 1 /\ MaxMisses \in Nat
           /\ MaxClaim \in Nat /\ MaxExec \in Nat
           /\ MaxClaim < Lease /\ MaxClaim < Ttl /\ MaxExec < Ttl
           /\ Interval \in Nat
<1>1. /\ Ttl \in Nat /\ Ttl > 0 /\ Lease \in Nat /\ Lease > 0 /\ Backoff \in Nat
      /\ MaxTime \in Nat /\ MaxTime >= 1 /\ MaxMisses \in Nat
      /\ MaxClaim \in Nat /\ MaxExec \in Nat
      /\ MaxClaim < Lease /\ MaxClaim < Ttl /\ MaxExec < Ttl
  BY DEF TimingAssumption
<1>2. Lease \div 3 \in Nat /\ Ttl \div 3 \in Nat
  BY <1>1
<1>3. Min({Lease \div 3, Ttl \div 3}) \in Nat
  BY <1>2, SmallerOfTwo
<1>4. Interval \in Nat
  <2> DEFINE n == Min({Lease \div 3, Ttl \div 3})
  <2>1. n \in Nat /\ Interval = Max({1, n})
    BY <1>3 DEF Interval
  <2> HIDE DEF n
  <2>2. Max({1, n}) = IF 1 >= n THEN 1 ELSE n
    BY <2>1, LargerOfTwo
  <2> QED BY <2>1, <2>2
<1> QED BY <1>1, <1>4

\* What renewals that failed in a row cost is affordable.
LEMMA MissCost ==
    ASSUME TimingAssumption, NEW m \in Nat, m <= MaxMisses
    PROVE  /\ Cost(m) \in Nat /\ Cost(0) = 0 /\ Cost(m + 1) = Cost(m) + Interval
           /\ Renewed # {} => MaxClaim + Cost(m) + Interval < Ttl
<1> DEFINE I == Interval
<1>1. I \in Nat /\ MaxMisses \in Nat /\ MaxClaim \in Nat /\ Ttl \in Nat
  BY Constants
<1>2. Renewed # {} => MaxClaim + (MaxMisses + 1) * I < Ttl
  BY DEF TimingAssumption
<1> HIDE DEF I
<1>3. m * I \in Nat /\ (m + 1) * I = m * I + I /\ 0 * I = 0
  BY <1>1
<1>4. (MaxMisses + 1) * I = m * I + I + (MaxMisses - m) * I
  BY <1>1
<1>5. (MaxMisses - m) * I \in Nat
  BY <1>1
<1>6. Renewed # {} => MaxClaim + m * I + I < Ttl
  BY <1>1, <1>2, <1>3, <1>4, <1>5
<1> QED BY <1>3, <1>6 DEF I, Cost

-----------------------------------------------------------------------------
(* What one step of a request can do to the row.                             *)

RequestStep(r) == Begin(r) \/ Step(r) \/ Renew(r) \/ Fault(r)

\* The request leaves the others, and the clock, alone.
Only(r) ==
    /\ clock' = clock
    /\ \A t \in Requests \ {r} :
         /\ pc'[t] = pc[t] /\ start'[t] = start[t] /\ own'[t] = own[t] /\ seen'[t] = seen[t]
         /\ reply'[t] = reply[t] /\ renewedAt'[t] = renewedAt[t] /\ misses'[t] = misses[t]
         /\ claimedAt'[t] = claimedAt[t]

\* The row stays as it is; a request goes for a takeover if the row has expired.
Quiet(r) ==
    /\ rec' = rec /\ lastId' = lastId /\ lost' = lost
    /\ own'[r] = own[r] /\ claimedAt'[r] = claimedAt[r]
    /\ start'[r] = start[r] \/ pc[r] = "idle"
    /\ pc'[r] \in Running => pc[r] \in Running
    /\ pc'[r] = "reclaim" => pc[r] = "reclaim" \/ (rec.exp <= start[r] /\ rec \in Rows)
    /\ \/ effect' = effect
       \/ pc[r] = "exec" /\ pc'[r] = "ok" /\ effect' = effect \cup {r}

\* The row is claimed; the request runs, or does not know that it has the row.
Taken(r) ==
    /\ pc[r] \in Claiming /\ start'[r] = start[r]
    /\ \/ rec = NoRec /\ rec' = NewRec(r) /\ lastId' = lastId + 1
       \/ /\ pc[r] \in Taking /\ rec \in Rows /\ rec.id = seen[r].id /\ rec.lock <= start[r]
          /\ rec.status = "failed_retryable" \/ pc[r] = "reclaim"
          /\ rec' = Retaken(r) /\ lastId' = lastId
    /\ lost' = lost \cup Overwritten /\ effect' = effect
    /\ \/ /\ pc'[r] = "exec" /\ own'[r] = rec'.id /\ claimedAt'[r] = clock
          /\ renewedAt'[r] = clock /\ misses'[r] = misses[r]
       \/ pc'[r] = "end" /\ own'[r] = own[r] /\ claimedAt'[r] = claimedAt[r]

\* The outcome of an execution is recorded.
Marked(r) ==
    /\ pc'[r] = "end" /\ start'[r] = start[r] /\ own'[r] = own[r]
    /\ claimedAt'[r] = claimedAt[r]
    /\ \/ pc[r] = "ok" /\ rec' = Succeeded(r)
       \/ pc[r] = "failed" /\ rec' = FailedRetryable(r)
    /\ lastId' = lastId /\ lost' = lost /\ effect' = effect

\* The lease is extended.
Extended(r) ==
    /\ pc[r] = "exec" /\ pc'[r] = "exec" /\ start'[r] = start[r] /\ own'[r] = own[r]
    /\ claimedAt'[r] = claimedAt[r]
    /\ rec' = [rec EXCEPT !.lock = clock + Lease, !.exp = clock + Ttl]
    /\ renewedAt'[r] = clock /\ misses'[r] = 0
    /\ lastId' = lastId /\ lost' = lost /\ effect' = effect

\* Where the row is read the request returns or goes for a takeover.
LEMMA DecideShape ==
    ASSUME Types, NEW r \in Requests, rec \in Rows, Decide(r, rec)
    PROVE  /\ pc'[r] \in {"end", "retake"} /\ pc' = [pc EXCEPT ![r] = pc'[r]]
           /\ pc'[r] = "retake" => UNCHANGED reply
           /\ \/ reply' = reply
              \/ \E k \in Replies \ {"replay"} :
                    reply' = [reply EXCEPT ![r] = [kind |-> k, body |-> NoBody]]
              \/ /\ rec.status = "succeeded"
                 /\ reply' = [reply EXCEPT ![r] = [kind |-> "replay", body |-> rec.body]]
<1>1. rec.status \in Statuses
  BY DEF Rows
<1>2. CASE rec.status = "succeeded"
  BY <1>2 DEF Decide, Return, Types, TypeOK, Replies
<1>3. CASE rec.status = "processing"
  BY <1>3 DEF Decide, Return, Types, TypeOK, Replies
<1>4. CASE rec.status = "failed_retryable"
  BY <1>4 DEF Decide, Return, Types, TypeOK, Replies
<1> QED BY <1>1, <1>2, <1>3, <1>4 DEF Statuses

\* A request writes to nobody's state but its own.
LEMMA OnlyStep ==
    ASSUME Types, NEW r \in Requests, RequestStep(r)
    PROVE  Only(r)
<1> USE DEF Only, Types, TypeOK, Return, Claim
<1>1. CASE Begin(r)
  BY <1>1 DEF Begin
<1>2. CASE CreateProcessing(r)
  BY <1>2 DEF CreateProcessing
<1>3. CASE GetExisting(r)
  <2>1. CASE rec \in Rows /\ Decide(r, rec)
    BY <1>3, <2>1, DecideShape DEF GetExisting
  <2>2. CASE ~ (rec \in Rows /\ Decide(r, rec))
    BY <1>3, <2>2 DEF GetExisting
  <2> QED BY <2>1, <2>2
<1>4. CASE ReclaimExpired(r)
  BY <1>4 DEF ReclaimExpired
<1>5. CASE GetLatest(r)
  <2>1. CASE rec \in Rows /\ Decide(r, rec)
    BY <1>5, <2>1, DecideShape DEF GetLatest
  <2>2. CASE ~ (rec \in Rows /\ Decide(r, rec))
    BY <1>5, <2>2 DEF GetLatest
  <2> QED BY <2>1, <2>2
<1>6. CASE ReclaimFailed(r)
  BY <1>6 DEF ReclaimFailed
<1>7. CASE Executed(r)
  BY <1>7 DEF Executed
<1>8. CASE MarkSucceeded(r) \/ MarkFailedRetryable(r)
  BY <1>8 DEF MarkSucceeded, MarkFailedRetryable
<1>9. CASE Renew(r)
  BY <1>9 DEF Renew
<1>10. CASE Fault(r)
  BY <1>10 DEF Fault, StoreError, Disconnect, Crash
<1> QED BY <1>1, <1>2, <1>3, <1>4, <1>5, <1>6, <1>7, <1>8, <1>9, <1>10 DEF RequestStep, Step

RowMove(r) == Quiet(r) \/ Taken(r) \/ Marked(r) \/ Extended(r)

LEMMA Reads ==
    ASSUME IInv, NEW r \in Requests, GetExisting(r) \/ GetLatest(r)
    PROVE  /\ Quiet(r) /\ UNCHANGED <<effect, misses, start>>
           /\ seen' = [seen EXCEPT ![r] = rec]
           /\ pc' = [pc EXCEPT ![r] = pc'[r]] /\ pc'[r] \in {"end"} \cup Taking
           /\ pc'[r] \in Taking => rec \in Rows /\ rec.fp = Fingerprint(r)
           /\ \/ reply' = reply
              \/ \E k \in Replies \ {"replay"} :
                    reply' = [reply EXCEPT ![r] = [kind |-> k, body |-> NoBody]]
              \/ /\ rec.status = "succeeded" /\ rec.fp = Fingerprint(r) /\ rec \in Rows
                 /\ reply' = [reply EXCEPT ![r] = [kind |-> "replay", body |-> rec.body]]
<1>1. Types /\ (rec = NoRec \/ rec \in Rows) /\ pc[r] \in {"get", "reget"}
  BY DEF IInv, Types, TypeOK, GetExisting, GetLatest
<1>2. /\ seen' = [seen EXCEPT ![r] = rec]
      /\ UNCHANGED <<clock, rec, lastId, start, own, misses, effect, claimedAt, lost>>
  BY DEF GetExisting, GetLatest
<1>3. \/ Return(r, "unavailable", NoBody) \/ Return(r, "mismatch", NoBody)
      \/ /\ rec \in Rows /\ rec.fp = Fingerprint(r) /\ rec.exp <= start[r]
         /\ pc' = [pc EXCEPT ![r] = "reclaim"] /\ UNCHANGED reply
      \/ rec \in Rows /\ rec.fp = Fingerprint(r) /\ Decide(r, rec)
  BY <1>1 DEF GetExisting, GetLatest
<1>4. CASE Return(r, "unavailable", NoBody) \/ Return(r, "mismatch", NoBody)
  BY <1>1, <1>2, <1>4 DEF Return, Types, TypeOK, Quiet, Running, Replies, Taking
<1>5. CASE /\ rec \in Rows /\ rec.fp = Fingerprint(r) /\ rec.exp <= start[r]
           /\ pc' = [pc EXCEPT ![r] = "reclaim"] /\ UNCHANGED reply
  BY <1>1, <1>2, <1>5 DEF Types, TypeOK, Quiet, Running, Taking
<1>6. CASE rec \in Rows /\ rec.fp = Fingerprint(r) /\ Decide(r, rec)
  <2>1. /\ pc'[r] \in {"end", "retake"} /\ pc' = [pc EXCEPT ![r] = pc'[r]]
        /\ \/ reply' = reply
           \/ \E k \in Replies \ {"replay"} :
                 reply' = [reply EXCEPT ![r] = [kind |-> k, body |-> NoBody]]
           \/ /\ rec.status = "succeeded"
              /\ reply' = [reply EXCEPT ![r] = [kind |-> "replay", body |-> rec.body]]
    BY <1>1, <1>6, DecideShape
  <2> QED BY <1>1, <1>2, <1>6, <2>1 DEF Quiet, Running, Taking
<1> QED BY <1>3, <1>4, <1>5, <1>6

\* Claims come with a takeover of what was read, or of nothing.
LEMMA Claims ==
    ASSUME TimingAssumption, IInv, NEW r \in Requests,
           CreateProcessing(r) \/ ReclaimExpired(r) \/ ReclaimFailed(r)
    PROVE  Quiet(r) \/ Taken(r)
<1>1. /\ Types /\ (rec = NoRec \/ rec \in Rows) /\ start[r] \in Nat
      /\ pc[r] \in Taking => seen[r] \in Rows
      /\ rec \in Rows => rec.lock \in Nat
  BY Constants DEF IInv, Types, TypeOK, ClaimInv, Rows
<1>2. CASE CreateProcessing(r)
  <2>1. rec = NoRec => Overwritten = {}
    BY DEF Overwritten, NoRec
  <2> QED BY <1>1, <1>2, <2>1
             DEF CreateProcessing, Claim, Types, TypeOK, Quiet, Taken, Running, Claiming, NewRec
<1>3. CASE ReclaimExpired(r)
  <2>1. rec.id = seen[r].id => rec \in Rows
    BY <1>1, <1>3 DEF ReclaimExpired, Taking, Rows, NoRec
  <2>2. CASE Reclaimable(seen[r].id, seen[r].status, start[r])
    <3>1. rec \in Rows /\ rec.lock <= start[r] /\ rec' = Retaken(r)
      BY <1>1, <1>3, <2>1, <2>2 DEF ReclaimExpired, Reclaimable, Null
    <3>2. rec'.id = rec.id
      BY <3>1 DEF Retaken, Rows
    <3> QED BY <1>1, <1>3, <2>2, <3>1, <3>2
               DEF ReclaimExpired, Reclaimable, Claim, Types, TypeOK, Taken, Claiming, Taking
  <2>3. CASE ~ Reclaimable(seen[r].id, seen[r].status, start[r])
    BY <1>1, <1>3, <2>3 DEF ReclaimExpired, Types, TypeOK, Quiet, Running
  <2> QED BY <2>2, <2>3
<1>4. CASE ReclaimFailed(r)
  <2>1. rec.id = seen[r].id => rec \in Rows
    BY <1>1, <1>4 DEF ReclaimFailed, Taking, Rows, NoRec
  <2>2. CASE Reclaimable(seen[r].id, "failed_retryable", start[r])
    <3>1. Overwritten = {}
      BY <2>2 DEF Overwritten, Reclaimable
    <3>2. rec \in Rows /\ rec.lock <= start[r] /\ rec' = Retaken(r)
      BY <1>1, <1>4, <2>1, <2>2 DEF ReclaimFailed, Reclaimable, Null
    <3>3. rec'.id = rec.id
      BY <3>2 DEF Retaken, Rows
    <3> QED BY <1>1, <1>4, <2>2, <3>1, <3>2, <3>3
               DEF ReclaimFailed, Reclaimable, Claim, Types, TypeOK, Taken, Claiming, Taking
  <2>3. CASE ~ Reclaimable(seen[r].id, "failed_retryable", start[r])
    BY <1>1, <1>4, <2>3 DEF ReclaimFailed, Return, Types, TypeOK, Quiet, Running
  <2> QED BY <2>2, <2>3
<1> QED BY <1>2, <1>3, <1>4

LEMMA Executes ==
    ASSUME TimingAssumption, IInv, NEW r \in Requests,
           Executed(r) \/ MarkSucceeded(r) \/ MarkFailedRetryable(r) \/ Renew(r)
    PROVE  Quiet(r) \/ Marked(r) \/ Extended(r)
<1>1. Types /\ pc[r] \in Running /\ Holds(r)
  BY DEF IInv, Executed, MarkSucceeded, MarkFailedRetryable, Renew, Running
<1>2. CASE Executed(r)
  BY <1>1, <1>2 DEF Executed, Types, TypeOK, Quiet, Running
<1>3. CASE MarkSucceeded(r) \/ MarkFailedRetryable(r)
  BY <1>1, <1>3 DEF MarkSucceeded, MarkFailedRetryable, Return, Holds, Types, TypeOK, Marked
<1>4. CASE Renew(r)
  <2>1. \/ /\ rec' = [rec EXCEPT !.lock = clock + Lease, !.exp = clock + Ttl]
           /\ misses' = [misses EXCEPT ![r] = 0]
        \/ UNCHANGED rec
    BY <1>1, <1>4 DEF Renew, Holds
  <2> QED BY <1>1, <1>4, <2>1 DEF Renew, Types, TypeOK, Quiet, Extended, Running
<1> QED BY <1>2, <1>3, <1>4

\* A call that failed wrote nothing, or what the call would have written.
LEMMA Faults ==
    ASSUME TimingAssumption, IInv, NEW r \in Requests, Fault(r)
    PROVE  Quiet(r) \/ Taken(r) \/ Marked(r)
<1>1. /\ Types /\ (rec = NoRec \/ rec \in Rows) /\ start[r] \in Nat /\ lastId \in Nat
      /\ rec.id \in Nat /\ rec.id <= lastId
      /\ pc[r] \in Taking => seen[r] \in Rows
      /\ rec \in Rows => rec.lock \in Nat
      /\ pc[r] \in Running => Holds(r)
  BY Constants DEF IInv, Types, TypeOK, ClaimInv, Rows, NoRec
<1>2. CASE Disconnect(r) \/ Crash(r)
  BY <1>1, <1>2 DEF Disconnect, Crash, Return, Types, TypeOK, Quiet, Running
<1>3. CASE StoreError(r)
  <2>1. /\ pc'[r] = "end" /\ UNCHANGED <<clock, start, own, claimedAt, effect>>
        /\ rec' \in {rec, Writes(r)} /\ lastId' = Max({lastId, rec'.id})
        /\ lost' = IF rec' = rec THEN lost ELSE lost \cup Overwritten
        /\ pc[r] \in Claiming \cup {"ok", "failed"}
    BY <1>1, <1>3 DEF StoreError, Return, Types, TypeOK
  <2>2. CASE rec' = rec
    <3>1. lastId' = lastId
      BY <1>1, <2>1, <2>2, LargerOfTwo
    <3> QED BY <1>1, <2>1, <2>2, <3>1 DEF Quiet, Running
  <2>3. CASE rec' # rec
    <3>1. rec' = Writes(r) /\ lost' = lost \cup Overwritten
      BY <2>1, <2>3
    <3>2. \/ pc[r] = "create" /\ rec = NoRec /\ rec' = NewRec(r)
          \/ /\ pc[r] = "reclaim" /\ Reclaimable(seen[r].id, seen[r].status, start[r])
             /\ rec' = Retaken(r)
          \/ /\ pc[r] = "retake" /\ Reclaimable(seen[r].id, "failed_retryable", start[r])
             /\ rec' = Retaken(r)
          \/ pc[r] = "ok" /\ rec.id = own[r] /\ rec' = Succeeded(r)
          \/ pc[r] = "failed" /\ rec.id = own[r] /\ rec' = FailedRetryable(r)
      BY <2>3, <3>1 DEF Writes
    <3>3. CASE pc[r] = "create" /\ rec = NoRec /\ rec' = NewRec(r)
      <4>1. rec'.id = lastId + 1
        BY <3>3 DEF NewRec
      <4>2. lastId' = lastId + 1
        BY <1>1, <2>1, <4>1, LargerOfTwo
      <4> QED BY <2>1, <3>1, <3>3, <4>2 DEF Taken, Claiming
    <3>4. CASE /\ pc[r] \in Taking /\ rec' = Retaken(r) /\ rec.id = seen[r].id
               /\ rec.lock = Null \/ rec.lock <= start[r]
               /\ rec.status = "failed_retryable" \/ pc[r] = "reclaim"
      <4>1. rec \in Rows /\ rec.lock <= start[r]
        BY <1>1, <3>4 DEF Rows, NoRec, Null
      <4>2. rec'.id = rec.id
        BY <3>4, <4>1 DEF Retaken, Rows
      <4>3. lastId' = lastId
        BY <1>1, <2>1, <4>2, LargerOfTwo
      <4> QED BY <2>1, <3>1, <3>4, <4>1, <4>3 DEF Taken, Claiming, Taking
    <3>5. CASE /\ pc[r] \in {"ok", "failed"} /\ rec' # rec
               /\ rec' = IF pc[r] = "ok" THEN Succeeded(r) ELSE FailedRetryable(r)
      <4>1. rec \in Rows /\ rec.status = "processing"
        BY <1>1, <3>5 DEF Holds, Running
      <4>2. rec'.id = rec.id
        BY <3>5, <4>1 DEF Succeeded, FailedRetryable, Rows
      <4>3. lastId' = lastId
        BY <1>1, <2>1, <4>2, LargerOfTwo
      <4>4. Overwritten = {}
        BY <4>1 DEF Overwritten
      <4> QED BY <2>1, <3>1, <3>5, <4>3, <4>4 DEF Marked
    <3> QED BY <2>3, <3>2, <3>3, <3>4, <3>5 DEF Reclaimable, Taking
  <2> QED BY <2>2, <2>3
<1> QED BY <1>2, <1>3 DEF Fault

LEMMA RowMoves ==
    ASSUME TimingAssumption, IInv, NEW r \in Requests, RequestStep(r)
    PROVE  Only(r) /\ RowMove(r)
<1>1. Only(r)
  BY OnlyStep DEF IInv
<1>2. CASE Begin(r)
  BY <1>1, <1>2 DEF Begin, IInv, Types, TypeOK, Quiet, RowMove, Running
<1>3. CASE Step(r) \/ Renew(r) \/ Fault(r)
  BY <1>1, <1>3, Reads, Claims, Executes, Faults DEF Step, RowMove
<1> QED BY <1>1, <1>2, <1>3 DEF RequestStep

-----------------------------------------------------------------------------
(* What a step of a request preserves.                                       *)

\* The row after it was claimed, renewed or marked.
LEMMA RowShapes ==
    ASSUME TimingAssumption, IInv, NEW r \in Requests
    PROVE  /\ /\ NewRec(r) \in Rows /\ NewRec(r).id = lastId + 1
              /\ NewRec(r).fp = Fingerprint(r) /\ NewRec(r).status = "processing"
              /\ NewRec(r).lock = start[r] + Lease /\ NewRec(r).exp = start[r] + Ttl
           /\ rec \in Rows =>
                /\ Retaken(r) \in Rows /\ Retaken(r).id = rec.id /\ Retaken(r).fp = rec.fp
                /\ Retaken(r).status = "processing"
                /\ Retaken(r).lock = start[r] + Lease /\ Retaken(r).exp = start[r] + Ttl
           /\ rec \in Rows =>
                /\ Succeeded(r) \in Rows /\ Succeeded(r).id = rec.id /\ Succeeded(r).fp = rec.fp
                /\ Succeeded(r).status = "succeeded" /\ Succeeded(r).body = r
                /\ Succeeded(r).exp >= start[r] + Ttl
           /\ rec \in Rows =>
                /\ FailedRetryable(r) \in Rows /\ FailedRetryable(r).id = rec.id
                /\ FailedRetryable(r).fp = rec.fp
                /\ FailedRetryable(r).status = "failed_retryable"
<1>1. /\ start[r] \in Nat /\ clock \in Nat /\ lastId \in Nat /\ start[r] <= clock
      /\ Ttl \in Nat /\ Lease \in Nat /\ Backoff \in Nat
  BY Constants DEF IInv, Types, TypeOK, ClaimInv
<1>2. OutcomeExpiry(r) \in Nat /\ OutcomeExpiry(r) >= start[r] + Ttl
  BY <1>1 DEF OutcomeExpiry
<1>3. /\ NewRec(r) \in Rows /\ NewRec(r).id = lastId + 1
      /\ NewRec(r).fp = Fingerprint(r) /\ NewRec(r).status = "processing"
      /\ NewRec(r).lock = start[r] + Lease /\ NewRec(r).exp = start[r] + Ttl
  BY <1>1 DEF NewRec, Rows, Statuses, Fingerprint
<1>4. ASSUME rec \in Rows
      PROVE  /\ Retaken(r) \in Rows /\ Retaken(r).id = rec.id /\ Retaken(r).fp = rec.fp
             /\ Retaken(r).status = "processing"
             /\ Retaken(r).lock = start[r] + Lease /\ Retaken(r).exp = start[r] + Ttl
  <2> DEFINE lk == start[r] + Lease
             ex == start[r] + Ttl
  <2>1. lk \in Nat /\ ex \in Nat /\ "processing" \in Statuses
    BY <1>1 DEF Statuses
  <2>2. Retaken(r) = [rec EXCEPT !.status = "processing", !.lock = lk, !.exp = ex]
    BY DEF Retaken
  <2> HIDE DEF lk, ex
  <2>3. /\ Retaken(r) \in Rows /\ Retaken(r).id = rec.id /\ Retaken(r).fp = rec.fp
        /\ Retaken(r).status = "processing" /\ Retaken(r).lock = lk /\ Retaken(r).exp = ex
    BY <1>4, <2>1, <2>2 DEF Rows
  <2> QED BY <2>3 DEF lk, ex
<1>5. ASSUME rec \in Rows
      PROVE  /\ Succeeded(r) \in Rows /\ Succeeded(r).id = rec.id /\ Succeeded(r).fp = rec.fp
             /\ Succeeded(r).status = "succeeded" /\ Succeeded(r).body = r
             /\ Succeeded(r).exp >= start[r] + Ttl
  BY <1>1, <1>2, <1>5 DEF Succeeded, Rows, Statuses, Null
<1>6. ASSUME rec \in Rows
      PROVE  /\ FailedRetryable(r) \in Rows /\ FailedRetryable(r).id = rec.id
             /\ FailedRetryable(r).fp = rec.fp
             /\ FailedRetryable(r).status = "failed_retryable"
  <2> DEFINE lk == clock + Backoff
             ex == OutcomeExpiry(r)
  <2>1. lk \in Nat /\ ex \in Nat /\ "failed_retryable" \in Statuses
    BY <1>1, <1>2 DEF Statuses
  <2>2. FailedRetryable(r) = [rec EXCEPT !.status = "failed_retryable", !.lock = lk, !.exp = ex]
    BY DEF FailedRetryable
  <2> HIDE DEF lk, ex
  <2>3. /\ FailedRetryable(r) \in Rows /\ FailedRetryable(r).id = rec.id
        /\ FailedRetryable(r).fp = rec.fp /\ FailedRetryable(r).status = "failed_retryable"
    BY <1>6, <2>1, <2>2 DEF Rows
  <2> QED BY <2>3
<1> QED BY <1>3, <1>4, <1>5, <1>6

\* A row keeps its payload as long as it keeps its id, and ids are not reused.
LEMMA RowIdentity ==
    ASSUME TimingAssumption, IInv, NEW r \in Requests, RowMove(r), Only(r)
    PROVE  /\ rec' = NoRec \/ rec' \in Rows
           /\ rec'.id <= lastId' /\ lastId' \in Nat /\ lastId <= lastId'
           /\ \/ rec'.id = lastId + 1 \/ rec' = rec
              \/ (rec \in Rows /\ rec'.id = rec.id /\ rec'.fp = rec.fp)
<1>1. /\ rec = NoRec \/ rec \in Rows
      /\ rec.id \in Nat /\ rec.id <= lastId /\ lastId \in Nat /\ clock \in Nat
      /\ pc[r] \in Running => rec \in Rows
      /\ Ttl \in Nat /\ Lease \in Nat
  BY Constants DEF IInv, Types, TypeOK, Rows, NoRec, Holds
<1>2. CASE Quiet(r)
  BY <1>1, <1>2 DEF Quiet
<1>3. CASE Taken(r)
  BY <1>1, <1>3, RowShapes DEF Taken
<1>4. CASE Marked(r)
  BY <1>1, <1>4, RowShapes DEF Marked, Running
<1>5. CASE Extended(r)
  <2>1. rec \in Rows /\ rec' = [rec EXCEPT !.lock = clock + Lease, !.exp = clock + Ttl]
    BY <1>1, <1>5 DEF Extended, Running
  <2>2. rec' = [id |-> rec.id, fp |-> rec.fp, status |-> rec.status, lock |-> clock + Lease,
                exp |-> clock + Ttl, body |-> rec.body]
    BY <2>1 DEF Rows
  <2>4. rec' \in Rows /\ rec'.id = rec.id /\ rec'.fp = rec.fp
    BY <1>1, <2>1, <2>2 DEF Rows
  <2>3. lastId' = lastId
    BY <1>5 DEF Extended
  <2> QED BY <1>1, <2>1, <2>3, <2>4
<1> QED BY <1>2, <1>3, <1>4, <1>5 DEF RowMove

\* The row of a request that runs is not free, and nobody else runs.
LEMMA RunningKeepsRow ==
    ASSUME TimingAssumption, IInv, NEW r \in Requests, RowMove(r), NEW t \in Requests \ {r},
           pc[t] \in Running
    PROVE  Quiet(r) /\ rec \in Rows
<1>1. /\ rec \in Rows /\ rec.status = "processing" /\ Locked
      /\ pc[r] \notin Running /\ start[r] \in Nat /\ rec.lock \in Nat
  BY Constants DEF IInv, Holds, NoOverlap, Types, TypeOK, Rows
<1>2. ~ Taken(r)
  BY <1>1 DEF Taken, Locked, Rows, NoRec
<1>3. ~ Marked(r) /\ ~ Extended(r)
  BY <1>1 DEF Marked, Extended, Running
<1> QED BY <1>1, <1>2, <1>3 DEF RowMove

\* In a quiet step nobody goes for a takeover of a row that lives.
LEMMA LockedStays ==
    ASSUME TimingAssumption, IInv, NEW r \in Requests, Quiet(r), Only(r), Locked, rec \in Rows,
           rec.exp > clock
    PROVE  Locked'
<1>1. clock \in Nat /\ start[r] \in Nat /\ rec.exp \in Nat /\ start[r] <= clock
  BY Constants DEF IInv, Types, TypeOK, Rows, ClaimInv
<1>2. ASSUME NEW s \in Requests, pc'[s] = "reclaim"
      PROVE  pc[s] = "reclaim" /\ start'[s] = start[s]
  <2>1. CASE s = r
    BY <1>1, <1>2, <2>1 DEF Quiet
  <2>2. CASE s # r
    BY <1>2, <2>2 DEF Only
  <2> QED BY <2>1, <2>2
<1> QED BY <1>2 DEF Locked, Quiet

LEMMA OthersHold ==
    ASSUME TimingAssumption, IInv, NEW r \in Requests, RowMove(r), Only(r),
           NEW t \in Requests \ {r}, pc'[t] \in Running
    PROVE  Holds(t)'
<1>1. pc[t] \in Running /\ Holds(t)
  BY DEF Only, IInv
<1>2. Quiet(r) /\ rec \in Rows /\ rec.exp > clock
  BY <1>1, RunningKeepsRow DEF Holds
<1>3. Locked'
  BY <1>1, <1>2, LockedStays DEF Holds
<1>4. LeaseInv(t)'
  BY <1>1, <1>2 DEF Holds, LeaseInv, Only, Quiet
<1> QED BY <1>1, <1>2, <1>3, <1>4 DEF Holds, Only, Quiet

\* The effect of another request is remembered: the row can be taken over only
\* after its lifetime, or as a success, which is then counted as lost.
LEMMA OthersEffect ==
    ASSUME TimingAssumption, IInv, NEW r \in Requests, RowMove(r), Only(r),
           NEW t \in Requests \ {r}
    PROVE  EffectInv(t)'
<1>1. /\ EffectInv(t) /\ clock \in Nat /\ start[t] \in Nat /\ start[r] \in Nat
      /\ clock' = clock /\ pc'[t] = pc[t] /\ start'[t] = start[t] /\ own'[t] = own[t]
      /\ start[r] <= clock /\ Ttl \in Nat
      /\ rec \in Rows => rec.lock \in Nat /\ rec.exp \in Nat
  BY Constants DEF IInv, Types, TypeOK, Only, ClaimInv, Rows
<1>2. lost \subseteq lost' /\ (t \in effect' <=> t \in effect)
  BY DEF RowMove, Quiet, Taken, Marked, Extended
<1>3. ASSUME t \in effect, RowKept(t), ~ (clock >= start[t] + Ttl), t \notin lost'
      PROVE  RowKept(t)'
  <2>1. rec \in Rows /\ rec.exp > clock /\ pc[r] \notin Running
    BY <1>1, <1>3 DEF RowKept
  <2>2. ~ Taken(r)
    <3>1. CASE rec.status = "processing" /\ Locked
      BY <1>1, <2>1, <3>1 DEF Taken, Locked, Rows, NoRec
    <3>2. CASE rec.status = "succeeded" /\ rec.body = t
      <4>1. t \in Overwritten
        BY <2>1, <3>2 DEF Overwritten
      <4> QED BY <1>3, <4>1 DEF Taken
    <3> QED BY <1>3, <3>1, <3>2 DEF RowKept
  <2>3. Quiet(r)
    BY <2>1, <2>2 DEF RowMove, Marked, Extended, Running
  <2>4. Locked => Locked'
    BY <2>1, <2>3, LockedStays
  <2>5. \A s \in Requests : pc'[s] \in Running => s = t
    <3>1. \A s \in Requests : pc'[s] \in Running => pc[s] \in Running
      BY <2>3 DEF Quiet, Only
    <3> QED BY <1>3, <3>1 DEF RowKept
  <2> QED BY <1>1, <1>3, <2>3, <2>4, <2>5 DEF RowKept, Quiet
<1> QED BY <1>1, <1>2, <1>3 DEF EffectInv

LEMMA OthersClaim ==
    ASSUME TimingAssumption, IInv, NEW r \in Requests, RowMove(r), Only(r),
           NEW t \in Requests \ {r}
    PROVE  ClaimInv(t)'
<1>1. /\ ClaimInv(t) /\ clock' = clock /\ pc'[t] = pc[t] /\ start'[t] = start[t]
      /\ misses'[t] = misses[t] /\ seen'[t] = seen[t] /\ lastId \in Nat
      /\ seen[t] \in Rows => seen[t].id \in Nat
  BY DEF IInv, Only, Types, TypeOK, Rows
<1>2. t \in effect' <=> t \in effect
  BY DEF RowMove, Quiet, Taken, Marked, Extended
<1>3. /\ lastId' \in Nat /\ lastId <= lastId'
      /\ \/ rec'.id = lastId + 1 \/ rec' = rec
         \/ (rec \in Rows /\ rec'.id = rec.id /\ rec'.fp = rec.fp)
  BY RowIdentity
<1>4. ASSUME pc[t] \in Taking, rec'.id = seen[t].id PROVE rec'.fp = Fingerprint(t)
  BY <1>1, <1>3, <1>4 DEF ClaimInv
<1> QED BY <1>1, <1>2, <1>3, <1>4 DEF ClaimInv

\* A request that has just claimed the row holds it: those that wait to take it
\* over read the clock before its lock ends.
LEMMA ClaimHolds ==
    ASSUME TimingAssumption, IInv, NEW r \in Requests, Taken(r), Only(r), pc'[r] = "exec"
    PROVE  Holds(r)'
<1>1. /\ clock \in Nat /\ start[r] \in Nat /\ Ttl \in Nat /\ Lease \in Nat /\ MaxClaim \in Nat
      /\ start[r] <= clock /\ clock <= start[r] + MaxClaim /\ misses[r] = 0
      /\ MaxClaim < Lease /\ MaxClaim < Ttl /\ MaxMisses \in Nat /\ Interval \in Nat
      /\ clock' = clock /\ start'[r] = start[r]
  BY Constants DEF IInv, Types, TypeOK, ClaimInv, Taken, Only
<1>2. /\ rec' \in Rows /\ rec'.fp = Fingerprint(r) /\ rec'.status = "processing"
      /\ rec'.lock = start[r] + Lease /\ rec'.exp = start[r] + Ttl
  <2>1. CASE rec = NoRec /\ rec' = NewRec(r)
    BY <2>1, RowShapes
  <2>2. CASE pc[r] \in Taking /\ rec \in Rows /\ rec.id = seen[r].id /\ rec' = Retaken(r)
    <3>1. rec.fp = Fingerprint(r)
      BY <2>2 DEF IInv, ClaimInv
    <3> QED BY <2>2, <3>1, RowShapes
  <2> QED BY <2>1, <2>2 DEF Taken
<1>3. /\ own'[r] = rec'.id /\ misses'[r] = 0 /\ renewedAt'[r] = clock
  BY <1>1 DEF Taken
<1>4. Locked'
  <2> SUFFICES ASSUME NEW s \in Requests, pc'[s] = "reclaim" PROVE start'[s] < rec'.lock
    BY DEF Locked
  <2>1. s # r /\ start'[s] = start[s] /\ start[s] \in Nat /\ start[s] <= clock
    BY Constants DEF Only, IInv, Types, TypeOK, ClaimInv
  <2> QED BY <1>1, <1>2, <2>1
<1>5. LeaseInv(r)'
  <2>1. Cost(0) = 0
    BY <1>1, MissCost
  <2> QED BY <1>1, <1>2, <1>3, <2>1 DEF LeaseInv
<1> QED BY <1>1, <1>2, <1>3, <1>4, <1>5 DEF Holds

\* A renewal that gets through gives the row its whole lifetime again.
LEMMA RenewHolds ==
    ASSUME TimingAssumption, IInv, NEW r \in Requests, Extended(r), Only(r)
    PROVE  Holds(r)'
<1>1. /\ clock \in Nat /\ start[r] \in Nat /\ Ttl \in Nat /\ Lease \in Nat /\ MaxClaim \in Nat
      /\ start[r] <= clock /\ MaxMisses \in Nat /\ Interval \in Nat /\ Ttl > 0 /\ Lease > 0
      /\ clock' = clock /\ start'[r] = start[r] /\ own'[r] = own[r]
      /\ misses'[r] = 0 /\ renewedAt'[r] = clock
      /\ Holds(r)
  BY Constants DEF IInv, Types, TypeOK, ClaimInv, Extended, Only, Running
<1>2. /\ rec' \in Rows /\ rec'.id = own[r] /\ rec'.fp = Fingerprint(r)
      /\ rec'.status = "processing"
      /\ rec'.lock = clock + Lease /\ rec'.exp = clock + Ttl
  <2> DEFINE lk == clock + Lease
             ex == clock + Ttl
  <2>1. lk \in Nat /\ ex \in Nat /\ rec' = [rec EXCEPT !.lock = lk, !.exp = ex]
    BY <1>1 DEF Extended
  <2> HIDE DEF lk, ex
  <2>2. /\ rec' \in Rows /\ rec'.id = own[r] /\ rec'.fp = Fingerprint(r)
        /\ rec'.status = "processing" /\ rec'.lock = lk /\ rec'.exp = ex
    BY <1>1, <2>1 DEF Holds, Rows
  <2> QED BY <2>2 DEF lk, ex
<1>3. Locked'
  <2> SUFFICES ASSUME NEW s \in Requests, pc'[s] = "reclaim" PROVE start'[s] < rec'.lock
    BY DEF Locked
  <2>1. s # r /\ start'[s] = start[s] /\ start[s] \in Nat /\ start[s] <= clock
    BY Constants DEF Only, IInv, Types, TypeOK, ClaimInv, Extended
  <2> QED BY <1>1, <1>2, <2>1
<1>4. LeaseInv(r)'
  <2>1. Cost(0) = 0
    BY <1>1, MissCost
  <2> QED BY <1>1, <1>2, <2>1 DEF LeaseInv
<1> QED BY <1>1, <1>2, <1>3, <1>4 DEF Holds

\* A renewal that fails costs one interval, and comes when one has passed.
LEMMA MissHolds ==
    ASSUME TimingAssumption, IInv, NEW r \in Requests, Only(r), Quiet(r), pc[r] = "exec",
           pc'[r] = "exec", r \in Renewed, misses[r] < MaxMisses,
           clock >= renewedAt[r] + Interval, renewedAt'[r] = clock,
           misses'[r] = misses[r] + 1
    PROVE  LeaseInv(r)'
<1>1. /\ clock \in Nat /\ Ttl \in Nat /\ MaxClaim \in Nat /\ MaxMisses \in Nat
      /\ Interval \in Nat /\ misses[r] \in Nat /\ renewedAt[r] \in Nat /\ rec.exp \in Nat
      /\ LeaseInv(r) /\ clock' = clock /\ rec' = rec
  BY Constants DEF IInv, Types, TypeOK, Stopped, Holds, Rows, Running, Only, Quiet
<1>2. /\ Cost(misses[r]) \in Nat
      /\ Cost(misses[r] + 1) = Cost(misses[r]) + Interval
  BY <1>1, MissCost
<1>3. clock = renewedAt[r] + Interval
  BY <1>1 DEF LeaseInv
<1>4. clock + Ttl <= rec.exp + MaxClaim + Cost(misses[r] + 1)
  BY <1>1, <1>2, <1>3 DEF LeaseInv
<1> QED BY <1>1, <1>4 DEF LeaseInv

LEMMA OwnHolds ==
    ASSUME TimingAssumption, IInv, NEW r \in Requests, RequestStep(r), pc'[r] \in Running
    PROVE  Holds(r)'
<1>1. Only(r) /\ RowMove(r)
  BY RowMoves
<1>2. CASE Taken(r)
  BY <1>1, <1>2, ClaimHolds DEF Taken, Running
<1>3. CASE Extended(r)
  BY <1>1, <1>3, RenewHolds
<1>4. CASE Quiet(r) /\ ~ Extended(r)
  <2>1. pc[r] \in Running /\ Holds(r) /\ rec' = rec /\ own'[r] = own[r]
    BY <1>4 DEF Quiet, IInv
  <2>2. start'[r] = start[r]
    BY <1>4, <2>1 DEF Quiet, Running
  <2>3. Locked'
    BY <1>1, <1>4, <2>1, LockedStays DEF Holds
  <2>4. LeaseInv(r)'
    <3> SUFFICES ASSUME pc'[r] = "exec", r \in Renewed PROVE LeaseInv(r)'
      BY DEF LeaseInv
    <3>1. CASE Renew(r)
      <4>1. /\ pc[r] = "exec" /\ clock >= renewedAt[r] + Interval
            /\ renewedAt' = [renewedAt EXCEPT ![r] = clock]
            /\ \/ /\ rec' = [rec EXCEPT !.lock = clock + Lease, !.exp = clock + Ttl]
                  /\ misses' = [misses EXCEPT ![r] = 0]
               \/ misses[r] < MaxMisses /\ misses' = [misses EXCEPT ![r] = @ + 1]
            /\ UNCHANGED <<claimedAt, lastId, lost, effect>>
        BY <2>1, <3>1 DEF Renew, Holds
      <4>2. renewedAt'[r] = clock
        BY <4>1 DEF IInv, Types
      <4>3. CASE misses[r] < MaxMisses /\ misses' = [misses EXCEPT ![r] = @ + 1]
        <5>1. misses'[r] = misses[r] + 1
          BY <4>3 DEF IInv, Types, TypeOK
        <5> QED BY <1>1, <1>4, <4>1, <4>2, <4>3, <5>1, MissHolds
      <4>4. CASE /\ rec' = [rec EXCEPT !.lock = clock + Lease, !.exp = clock + Ttl]
                 /\ misses' = [misses EXCEPT ![r] = 0]
        BY <1>4, <2>1, <2>2, <4>1, <4>2, <4>4 DEF Extended, IInv, Types, TypeOK
      <4> QED BY <4>1, <4>3, <4>4
    <3>2. CASE Disconnect(r)
      BY <2>1, <3>2 DEF Disconnect, Holds, LeaseInv
    <3>3. CASE ~ Renew(r) /\ ~ Disconnect(r)
      <4>1. pc[r] # "idle" /\ pc[r] \notin Claiming
        BY <2>1 DEF Running, Claiming
      <4>2. Executed(r) \/ pc'[r] = "end"
        BY <3>3, <4>1
           DEF RequestStep, Begin, Step, CreateProcessing, GetExisting, ReclaimExpired, GetLatest,
               ReclaimFailed, MarkSucceeded, MarkFailedRetryable, Fault, StoreError, Crash,
               Return, IInv, Types, TypeOK, Claiming
      <4> QED BY <4>2 DEF Executed, IInv, Types, TypeOK
    <3> QED BY <3>1, <3>2, <3>3
  <2> QED BY <1>1, <2>1, <2>2, <2>3, <2>4 DEF Holds, Only
<1>5. CASE Marked(r)
  BY <1>5 DEF Marked, Running
<1> QED BY <1>1, <1>2, <1>3, <1>4, <1>5 DEF RowMove

\* What a request that claims knows of the row it read stays true.
LEMMA OwnClaim ==
    ASSUME TimingAssumption, IInv, NEW r \in Requests, RequestStep(r)
    PROVE  ClaimInv(r)'
<1>1. /\ Types /\ ClaimInv(r) /\ Only(r) /\ RowMove(r) /\ clock \in Nat /\ start[r] \in Nat
      /\ clock' = clock /\ MaxClaim \in Nat
  BY RowMoves, Constants DEF IInv, Types, TypeOK, Only
<1>2. \/ pc[r] # "idle" /\ start'[r] = start[r]
      \/ pc[r] = "idle" /\ start'[r] = clock
  <2>1. CASE Begin(r)
    BY <1>1, <2>1 DEF Begin, Types, TypeOK
  <2>2. CASE ~ Begin(r)
    BY <2>2 DEF RequestStep, Step, CreateProcessing, GetExisting, ReclaimExpired, GetLatest,
                ReclaimFailed, Executed, MarkSucceeded, MarkFailedRetryable, Renew, Fault,
                StoreError, Disconnect, Crash, Claiming, Running
  <2> QED BY <2>1, <2>2
<1>3. start'[r] <= clock'
  BY <1>1, <1>2 DEF ClaimInv
<1>4. CASE pc'[r] \notin {"idle"} \cup Claiming
  BY <1>3, <1>4 DEF ClaimInv, Claiming, Taking
<1>5. CASE pc'[r] \in {"idle"} \cup Claiming
  <2>1. pc[r] \in {"idle"} \cup Claiming /\ misses' = misses /\ effect' = effect
    <3>1. CASE Begin(r)
      BY <3>1 DEF Begin
    <3>2. CASE GetExisting(r) \/ GetLatest(r)
      BY <3>2, Reads DEF GetExisting, GetLatest, Claiming
    <3>3. CASE CreateProcessing(r) \/ ReclaimExpired(r) \/ ReclaimFailed(r)
      BY <1>1, <1>5, <3>3 DEF CreateProcessing, ReclaimExpired, ReclaimFailed, Claim, Return,
                              Claiming, Types, TypeOK
    <3>4. CASE Executed(r) \/ MarkSucceeded(r) \/ MarkFailedRetryable(r) \/ Renew(r)
      BY <1>1, <1>5, <3>4 DEF Executed, MarkSucceeded, MarkFailedRetryable, Renew, Return,
                              Claiming, Types, TypeOK
    <3>5. CASE Fault(r)
      BY <1>1, <1>5, <3>5 DEF Fault, StoreError, Disconnect, Crash, Return, Claiming, Running,
                              Types, TypeOK
    <3> QED BY <3>1, <3>2, <3>3, <3>4, <3>5 DEF RequestStep, Step
  <2>2. pc'[r] \in Claiming => clock' <= start'[r] + MaxClaim
    BY <1>1, <1>2, <2>1 DEF ClaimInv
  <2>3. ASSUME pc'[r] \in Taking
        PROVE  /\ seen'[r] \in Rows /\ seen'[r].id <= lastId'
               /\ rec'.id = seen'[r].id => rec'.fp = Fingerprint(r)
    <3>1. CASE GetExisting(r) \/ GetLatest(r)
      BY <1>1, <2>3, <3>1, Reads DEF Quiet, Types, TypeOK
    <3>2. CASE ~ (GetExisting(r) \/ GetLatest(r))
      <4>1. Disconnect(r)
        BY <1>1, <2>3, <3>2
           DEF RequestStep, Begin, Step, CreateProcessing, ReclaimExpired, ReclaimFailed, Claim,
               Executed, MarkSucceeded, MarkFailedRetryable, Renew, Fault, StoreError, Crash,
               Return, Taking, Types, TypeOK
      <4> QED BY <1>1, <2>3, <4>1 DEF Disconnect, ClaimInv
    <3> QED BY <3>1, <3>2
  <2> QED BY <1>1, <1>3, <2>1, <2>2, <2>3 DEF ClaimInv
<1> QED BY <1>4, <1>5

LEMMA OwnEffect ==
    ASSUME TimingAssumption, IInv, NEW r \in Requests, RequestStep(r)
    PROVE  EffectInv(r)'
<1>1. /\ Types /\ EffectInv(r) /\ ClaimInv(r) /\ Only(r) /\ RowMove(r) /\ clock' = clock
      /\ clock \in Nat /\ start[r] \in Nat /\ Ttl \in Nat
      /\ pc[r] \in Running => Holds(r) /\ \A s \in Requests : pc[s] \in Running => s = r
  BY RowMoves, Constants DEF IInv, Types, TypeOK, Only, NoOverlap
<1>2. CASE Quiet(r) /\ effect' = effect
  <2>1. r \in effect => pc[r] \in {"ok", "end"}
    BY <1>1 DEF EffectInv
  <2>2. pc'[r] = "ok" => pc[r] = "ok"
    BY <1>1, <1>2
       DEF RequestStep, Begin, Step, CreateProcessing, ReclaimExpired, ReclaimFailed, Claim,
           Executed, MarkSucceeded, MarkFailedRetryable, Renew, Fault, StoreError, Disconnect,
           Crash, Return, Types, TypeOK, EffectInv, Quiet, Running, GetExisting, GetLatest
  <2>3. pc[r] \in {"ok", "end"} => pc'[r] \in {"ok", "end"}
    BY <1>1
       DEF RequestStep, Begin, Step, CreateProcessing, ReclaimExpired, ReclaimFailed,
           Executed, MarkSucceeded, MarkFailedRetryable, Renew, Fault, StoreError, Disconnect,
           Crash, Return, Types, TypeOK, GetExisting, GetLatest, Claiming, Running
  <2>4. ASSUME r \in effect, RowKept(r), ~ (clock >= start[r] + Ttl)
        PROVE  RowKept(r)'
    <3>1. pc[r] # "idle" /\ start'[r] = start[r] /\ rec' = rec /\ own'[r] = own[r]
      BY <1>2, <2>1, <2>4 DEF Quiet
    <3>2. rec \in Rows /\ rec.exp > clock
      BY <1>1, <2>4 DEF RowKept, Rows
    <3>3. Locked => Locked'
      BY <1>1, <1>2, <3>2, LockedStays
    <3>4. \A s \in Requests : pc'[s] \in Running => s = r
      BY <1>1, <2>4 DEF RowKept, Only
    <3> QED BY <2>4, <3>1, <3>3, <3>4 DEF RowKept
  <2>5. r \in effect => start'[r] = start[r] /\ lost' = lost
    BY <1>2, <2>1 DEF Quiet
  <2> QED BY <1>1, <1>2, <2>1, <2>2, <2>3, <2>4, <2>5 DEF EffectInv
<1>3. CASE Quiet(r) /\ pc[r] = "exec" /\ pc'[r] = "ok" /\ effect' = effect \cup {r}
  <2>1. Holds(r) /\ start'[r] = start[r] /\ rec' = rec /\ own'[r] = own[r]
    BY <1>1, <1>3 DEF Quiet, Running
  <2>2. Locked'
    BY <1>1, <1>3, <2>1, LockedStays DEF Holds
  <2>3. \A s \in Requests : pc'[s] \in Running => s = r
    BY <1>1, <1>3 DEF Only, Running
  <2>4. RowKept(r)'
    BY <2>1, <2>2, <2>3 DEF RowKept, Holds
  <2> QED BY <1>3, <2>4 DEF EffectInv
<1>4. CASE Taken(r)
  <2>1. r \notin effect' /\ pc'[r] # "ok"
    BY <1>1, <1>4 DEF Taken, ClaimInv
  <2> QED BY <2>1 DEF EffectInv
<1>5. CASE Marked(r)
  <2>1. /\ pc'[r] = "end" /\ effect' = effect /\ start'[r] = start[r] /\ own'[r] = own[r]
        /\ pc[r] \in {"ok", "failed"}
    BY <1>5 DEF Marked
  <2>2. CASE pc[r] = "failed"
    BY <1>1, <2>1, <2>2 DEF EffectInv
  <2>3. CASE pc[r] = "ok"
    <3>1. rec' = Succeeded(r) /\ rec \in Rows /\ rec.id = own[r]
      BY <1>1, <1>5, <2>3 DEF Marked, Holds, Running
    <3>2. /\ rec' \in Rows /\ rec'.id = own[r] /\ rec'.status = "succeeded" /\ rec'.body = r
          /\ rec'.exp >= start[r] + Ttl
      BY <3>1, RowShapes
    <3>3. \A s \in Requests : pc'[s] \in Running => s = r
      BY <1>1, <2>3 DEF Only, Running
    <3>4. RowKept(r)'
      BY <2>1, <3>2, <3>3 DEF RowKept
    <3> QED BY <2>1, <3>4 DEF EffectInv
  <2> QED BY <2>1, <2>2, <2>3
<1>6. CASE Extended(r)
  <2>1. r \notin effect' /\ pc'[r] # "ok"
    BY <1>1, <1>6 DEF Extended, EffectInv
  <2> QED BY <2>1 DEF EffectInv
<1>7. Quiet(r) => effect' = effect \/ (pc[r] = "exec" /\ pc'[r] = "ok" /\ effect' = effect \cup {r})
  BY DEF Quiet
<1> QED BY <1>1, <1>2, <1>3, <1>4, <1>5, <1>6, <1>7 DEF RowMove

\* A claim finds the row free, so nobody runs.
LEMMA NoOverlapStep ==
    ASSUME TimingAssumption, IInv, NEW r \in Requests, RequestStep(r)
    PROVE  NoOverlap'
<1>1. Only(r) /\ RowMove(r)
  BY RowMoves
<1>2. ASSUME NEW t \in Requests \ {r}, pc'[t] \in Running PROVE pc'[r] \notin Running
  <2>1. pc[t] \in Running
    BY <1>1, <1>2 DEF Only
  <2>2. Quiet(r)
    BY <1>1, <2>1, RunningKeepsRow
  <2>3. pc[r] \notin Running
    BY <2>1 DEF IInv, NoOverlap
  <2> QED BY <2>2, <2>3 DEF Quiet
<1>3. ASSUME NEW s \in Requests \ {r}, NEW t \in Requests \ {r}, pc'[s] \in Running,
             pc'[t] \in Running
      PROVE  s = t
  BY <1>1, <1>3 DEF Only, IInv, NoOverlap
<1> QED BY <1>2, <1>3 DEF NoOverlap

LEMMA SuccessStep ==
    ASSUME TimingAssumption, IInv, NEW r \in Requests, RequestStep(r)
    PROVE  SuccessInv'
<1>1. /\ RowMove(r) /\ SuccessInv /\ EffectInv(r) /\ (pc[r] \in Running => Holds(r))
      /\ clock' = clock
  BY RowMoves DEF IInv, Only
<1>2. CASE Quiet(r)
  BY <1>1, <1>2 DEF Quiet, SuccessInv
<1>3. CASE Taken(r)
  BY <1>3, RowShapes DEF Taken, SuccessInv
<1>4. CASE Marked(r)
  <2>1. rec \in Rows /\ rec.fp = Fingerprint(r)
    BY <1>1, <1>4 DEF Marked, Running, Holds
  <2> QED BY <1>1, <1>4, <2>1, RowShapes DEF Marked, SuccessInv, EffectInv
<1>5. CASE Extended(r)
  <2>1. Only(r)
    BY RowMoves
  <2>2. rec'.status = "processing"
    BY <1>5, <2>1, RenewHolds DEF Holds
  <2> QED BY <2>2 DEF SuccessInv
<1> QED BY <1>1, <1>2, <1>3, <1>4, <1>5 DEF RowMove

\* Two requests that took effect, or may still, are a lifetime apart.
LEMMA PairStep ==
    ASSUME TimingAssumption, IInv, NEW r \in Requests, RequestStep(r),
           \A t \in Requests : EffectInv(t)'
    PROVE  PairInv'
<1>1. /\ Only(r) /\ RowMove(r) /\ PairInv /\ NoOverlap /\ effect \subseteq Requests
      /\ EffectInv(r) /\ ClaimInv(r)
      /\ clock' = clock /\ Ttl \in Nat /\ clock \in Nat
  BY RowMoves, Constants DEF IInv, Types, TypeOK, Only
<1>2. lost \subseteq lost' /\ effect \subseteq effect' /\ effect' \subseteq effect \cup {r}
  BY <1>1 DEF RowMove, Quiet, Taken, Marked, Extended
<1>3. r \in effect' => r \in effect \/ pc[r] \in Running
  BY <1>1 DEF RowMove, Quiet, Taken, Marked, Extended, Running
<1>4. r \in effect \/ pc[r] \in Running => start'[r] = start[r] /\ claimedAt'[r] = claimedAt[r]
  BY <1>1 DEF RowMove, Quiet, Taken, Marked, Extended, Running, EffectInv, Claiming, ClaimInv
<1>5. NoOverlap'
  BY NoOverlapStep
<1>6. ASSUME NEW x \in Requests, NEW y \in Requests, x # y,
             x \in effect \/ pc[x] \in Running, y \in effect \/ pc[y] \in Running,
             x \in effect' , y \in effect' \/ pc'[y] \in Running
      PROVE  Apart(x, y)' \/ x \in lost' \/ y \in lost'
  <2>1. /\ start'[x] = start[x] /\ claimedAt'[x] = claimedAt[x]
        /\ start'[y] = start[y] /\ claimedAt'[y] = claimedAt[y]
    BY <1>1, <1>4, <1>6 DEF Only
  <2>2. x \in effect \/ y \in effect
    BY <1>1, <1>6 DEF NoOverlap
  <2>3. Apart(x, y) \/ x \in lost \/ y \in lost
    BY <1>1, <1>6, <2>2 DEF PairInv, Apart
  <2> QED BY <1>2, <2>1, <2>3 DEF Apart
<1>7. ASSUME NEW x \in effect', x # r, pc'[r] \in Running, pc[r] \notin Running
      PROVE  Apart(x, r)' \/ x \in lost'
  <2>1. x \in Requests /\ EffectInv(x)'
    BY <1>1, <1>2, <1>7
  <2>2. claimedAt'[r] = clock
    BY <1>1, <1>7 DEF RowMove, Quiet, Taken, Marked, Extended, Running
  <2>3. clock' >= start'[x] + Ttl \/ x \in lost'
    BY <1>7, <2>1 DEF EffectInv, RowKept
  <2> QED BY <1>1, <2>2, <2>3 DEF Apart
<1>8. ASSUME NEW x \in effect', NEW y \in Requests, y \in effect' \/ pc'[y] \in Running, x # y
      PROVE  Apart(x, y)' \/ x \in lost' \/ y \in lost'
  <2>1. x \in Requests /\ (x \in effect \/ pc[x] \in Running)
    BY <1>1, <1>2, <1>3
  <2>2. CASE y \in effect \/ pc[y] \in Running
    BY <1>6, <1>8, <2>1, <2>2
  <2>3. CASE ~ (y \in effect \/ pc[y] \in Running)
    <3>1. y = r /\ pc'[r] \in Running
      BY <1>1, <1>2, <1>3, <1>8, <2>3 DEF Only
    <3> QED BY <1>7, <1>8, <2>3, <3>1
  <2> QED BY <2>2, <2>3
<1> QED BY <1>8 DEF PairInv

\* A replay answers with the success recorded for the request's own payload.
LEMMA ReplayStep ==
    ASSUME TimingAssumption, IInv, NEW r \in Requests, RequestStep(r)
    PROVE  ReplayIsResult'
<1>1. /\ Types /\ Only(r) /\ RowMove(r) /\ ReplayIsResult /\ SuccessInv
  BY RowMoves DEF IInv
<1>2. effect \subseteq effect'
  BY <1>1 DEF RowMove, Quiet, Taken, Marked, Extended
<1>3. \/ reply'[r] = reply[r] \/ reply'[r].kind # "replay"
      \/ rec.status = "succeeded" /\ rec.fp = Fingerprint(r) /\ reply'[r].body = rec.body
  <2>1. CASE GetExisting(r) \/ GetLatest(r)
    BY <1>1, <2>1, Reads DEF Types, TypeOK
  <2>2. CASE ~ (GetExisting(r) \/ GetLatest(r))
    BY <1>1, <2>2
       DEF RequestStep, Begin, Step, CreateProcessing, ReclaimExpired, ReclaimFailed, Claim,
           Executed, MarkSucceeded, MarkFailedRetryable, Renew, Fault, StoreError, Disconnect,
           Crash, Return, Types, TypeOK
  <2> QED BY <2>1, <2>2
<1>4. ASSUME NEW t \in Requests, reply'[t].kind = "replay"
      PROVE  reply'[t].body \in effect' /\ Fingerprint(reply'[t].body) = Fingerprint(t)
  <2>1. CASE reply'[t] = reply[t]
    BY <1>1, <1>2, <1>4, <2>1 DEF ReplayIsResult
  <2>2. CASE reply'[t] # reply[t]
    <3>1. t = r /\ rec.status = "succeeded" /\ rec.fp = Fingerprint(r) /\ reply'[r].body = rec.body
      BY <1>1, <1>3, <1>4, <2>2 DEF Only
    <3> QED BY <1>1, <1>2, <3>1 DEF SuccessInv
  <2> QED BY <2>1, <2>2
<1> QED BY <1>4 DEF ReplayIsResult

LEMMA TypesStep ==
    ASSUME TimingAssumption, IInv, NEW r \in Requests, RequestStep(r)
    PROVE  Types'
<1>1. /\ Types /\ Only(r) /\ RowMove(r) /\ clock' = clock /\ clock \in 1..MaxTime
      /\ clock \in Nat /\ MaxMisses \in Nat /\ MaxTime \in Nat /\ lastId \in Nat
      /\ rec.id \in Nat /\ rec.id <= lastId
      /\ rec = NoRec \/ rec \in Rows
  BY RowMoves, Constants DEF IInv, Types, TypeOK, Only, Rows, NoRec
<1>2. /\ rec' = NoRec \/ rec' \in Rows
      /\ rec'.id <= lastId' /\ lastId' \in Nat /\ lastId <= lastId'
  BY <1>1, RowIdentity
<1>3. CASE Begin(r)
  BY <1>1, <1>2, <1>3 DEF Begin, Types, TypeOK, Claiming
<1>4. CASE GetExisting(r) \/ GetLatest(r)
  <2>1. /\ UNCHANGED <<effect, misses, start, clock, gone, own, renewedAt, claimedAt, lastId>>
        /\ seen' = [seen EXCEPT ![r] = rec]
        /\ pc' = [pc EXCEPT ![r] = pc'[r]] /\ pc'[r] \in {"end"} \cup Taking
    BY <1>1, <1>4, Reads DEF GetExisting, GetLatest
  <2>2. reply' \in [Requests -> [kind : Replies, body : Requests \cup {NoBody}]]
    <3>1. \/ reply' = reply
          \/ \E k \in Replies : reply' = [reply EXCEPT ![r] = [kind |-> k, body |-> NoBody]]
          \/ /\ rec \in Rows
             /\ reply' = [reply EXCEPT ![r] = [kind |-> "replay", body |-> rec.body]]
      BY <1>4, Reads
    <3> QED BY <1>1, <3>1 DEF Types, TypeOK, Replies, Rows
  <2> QED BY <1>1, <1>2, <2>1, <2>2 DEF Types, TypeOK, Claiming, Taking
<1>5. CASE CreateProcessing(r) \/ ReclaimExpired(r) \/ ReclaimFailed(r)
  <2>1. /\ UNCHANGED <<clock, start, seen, gone, effect>>
        /\ pc' \in [Requests -> {"idle", "end"} \cup Claiming \cup Running]
    BY <1>1, <1>5 DEF CreateProcessing, ReclaimExpired, ReclaimFailed, Claim, Return, Types,
                      TypeOK, Claiming, Running
  <2>2. reply' \in [Requests -> [kind : Replies, body : Requests \cup {NoBody}]]
    BY <1>1, <1>5 DEF CreateProcessing, ReclaimExpired, ReclaimFailed, Claim, Return, Types,
                      TypeOK, Replies
  <2>3. /\ misses' = misses
        /\ renewedAt' \in [Requests -> Nat] /\ claimedAt' \in [Requests -> Nat]
    BY <1>1, <1>5 DEF CreateProcessing, ReclaimExpired, ReclaimFailed, Claim, Types
  <2>4. own' \in [Requests -> 0..lastId']
    <3>1. own' = own \/ \E i \in 0..lastId' : own' = [own EXCEPT ![r] = i]
      <4>1. CASE CreateProcessing(r)
        BY <1>1, <4>1 DEF CreateProcessing, Claim
      <4>2. CASE ReclaimExpired(r) \/ ReclaimFailed(r)
        BY <1>1, <4>2 DEF ReclaimExpired, ReclaimFailed, Claim
      <4> QED BY <1>5, <4>1, <4>2
    <3>2. own \in [Requests -> 0..lastId']
      BY <1>1, <1>2 DEF Types, TypeOK
    <3> QED BY <3>1, <3>2
  <2> QED BY <1>1, <1>2, <2>1, <2>2, <2>3, <2>4 DEF Types, TypeOK
<1>6. CASE Executed(r) \/ MarkSucceeded(r) \/ MarkFailedRetryable(r)
  BY <1>1, <1>2, <1>6 DEF Executed, MarkSucceeded, MarkFailedRetryable, Return, Types, TypeOK,
                          Running, Replies
<1>7. CASE Renew(r)
  <2>1. misses' \in [Requests -> 0..Stopped]
    BY <1>1, <1>7 DEF Renew, Types, TypeOK, Stopped
  <2> QED BY <1>1, <1>2, <1>7, <2>1 DEF Renew, Types, TypeOK
<1>8. CASE Disconnect(r) \/ Crash(r)
  BY <1>1, <1>2, <1>8 DEF Disconnect, Crash, Return, Types, TypeOK, Replies
<1>9. CASE StoreError(r)
  <2>1. own \in [Requests -> 0..lastId']
    BY <1>1, <1>2 DEF Types, TypeOK
  <2> QED BY <1>1, <1>2, <1>9, <2>1 DEF StoreError, Return, Types, TypeOK, Replies
<1> QED BY <1>3, <1>4, <1>5, <1>6, <1>7, <1>8, <1>9 DEF RequestStep, Step, Fault

LEMMA RequestKeeps ==
    ASSUME TimingAssumption, IInv, NEW r \in Requests, RequestStep(r)
    PROVE  IInv'
<1>1. Only(r) /\ RowMove(r)
  BY RowMoves
<1>2. ASSUME NEW t \in Requests
      PROVE  ClaimInv(t)' /\ EffectInv(t)' /\ (pc'[t] \in Running => Holds(t)')
  BY <1>1, OthersHold, OthersEffect, OthersClaim, OwnHolds, OwnClaim, OwnEffect
<1>3. Types' /\ NoOverlap' /\ SuccessInv' /\ ReplayIsResult'
  BY TypesStep, NoOverlapStep, SuccessStep, ReplayStep
<1>4. PairInv'
  BY <1>2, PairStep
<1> QED BY <1>2, <1>3, <1>4 DEF IInv

\* Time does not outrun a request: what bounds its run, or the next renewal,
\* comes before the row expires.
LEMMA TickKeeps ==
    ASSUME TimingAssumption, IInv, Tick
    PROVE  IInv'
<1>1. /\ Types /\ clock \in Nat /\ clock' = clock + 1 /\ clock < MaxTime /\ MaxTime \in Nat
      /\ MaxClaim \in Nat /\ MaxExec \in Nat /\ Ttl \in Nat /\ MaxMisses \in Nat
      /\ Interval \in Nat /\ MaxExec < Ttl
      /\ \A r \in Requests : /\ MayTick(r) /\ start[r] \in Nat /\ misses[r] \in Nat
                             /\ renewedAt[r] \in Nat
      /\ UNCHANGED <<rec, lastId, pc, start, own, seen, reply, gone, renewedAt, misses, effect,
                     claimedAt, lost>>
  BY Constants DEF Tick, IInv, Types, TypeOK, Stopped
<1>2. Types'
  BY <1>1 DEF Types, TypeOK
<1>3. ASSUME NEW r \in Requests PROVE ClaimInv(r)'
  BY <1>1, <1>3 DEF IInv, ClaimInv, MayTick
<1>4. ASSUME NEW r \in Requests PROVE EffectInv(r)'
  <2>1. RowKept(r) => RowKept(r)'
    BY <1>1 DEF RowKept, Locked
  <2> QED BY <1>1, <1>4, <2>1 DEF IInv, EffectInv
<1>5. ASSUME NEW r \in Requests, pc'[r] \in Running PROVE Holds(r)'
  <2>1. Holds(r) /\ MayTick(r) /\ rec.exp \in Nat /\ pc[r] \in Running
    BY <1>1, <1>5 DEF IInv, Holds, Rows
  <2>2. Locked'
    BY <1>1, <2>1 DEF Holds, Locked
  <2>3. LeaseInv(r)' /\ rec'.exp > clock'
    <3>1. CASE r \notin Renewed
      BY <1>1, <1>5, <2>1, <3>1 DEF Holds, LeaseInv, MayTick
    <3>2. CASE r \in Renewed
      <4>1. /\ pc[r] = "exec" /\ misses[r] <= MaxMisses /\ misses[r] # Stopped
            /\ clock < renewedAt[r] + Interval
            /\ renewedAt[r] + Ttl <= rec.exp + MaxClaim + Cost(misses[r])
        BY <1>1, <1>5, <2>1, <3>2 DEF Holds, LeaseInv, MayTick, Running, Stopped
      <4>2. /\ Cost(misses[r]) \in Nat
            /\ MaxClaim + Cost(misses[r]) + Interval < Ttl
        BY <1>1, <3>2, <4>1, MissCost
      <4>3. clock + 1 < rec.exp
        BY <1>1, <1>5, <2>1, <4>1, <4>2
      <4> QED BY <1>1, <1>5, <4>1, <4>3 DEF LeaseInv
    <3> QED BY <3>1, <3>2
  <2> QED BY <1>1, <2>1, <2>2, <2>3 DEF Holds
<1>6. NoOverlap' /\ SuccessInv' /\ ReplayIsResult' /\ PairInv'
  BY <1>1 DEF IInv, NoOverlap, SuccessInv, ReplayIsResult, PairInv, Apart
<1> QED BY <1>2, <1>3, <1>4, <1>5, <1>6 DEF IInv

\* The clean-up finds neither the row of a request that runs nor one that has to
\* remember an effect.
LEMMA CleanupKeeps ==
    ASSUME TimingAssumption, IInv, DeleteExpired
    PROVE  IInv'
<1>1. /\ Types /\ clock \in Nat /\ rec \in Rows /\ rec.exp \in Nat /\ rec.exp <= clock
      /\ rec' = NoRec /\ Ttl \in Nat
      /\ \A r \in Requests : start[r] \in Nat
      /\ UNCHANGED <<clock, lastId, pc, start, own, seen, reply, gone, renewedAt, misses, effect,
                     claimedAt, lost>>
  BY Constants DEF DeleteExpired, IInv, Types, TypeOK, Rows
<1>2. Types'
  BY <1>1 DEF Types, TypeOK, NoRec
<1>3. ASSUME NEW r \in Requests PROVE ClaimInv(r)'
  BY <1>1, <1>3 DEF IInv, ClaimInv, NoRec, Rows
<1>4. ASSUME NEW r \in Requests PROVE EffectInv(r)'
  <2>1. RowKept(r) => clock >= start[r] + Ttl
    BY <1>1 DEF RowKept
  <2> QED BY <1>1, <1>4, <2>1 DEF IInv, EffectInv
<1>5. ASSUME NEW r \in Requests PROVE pc'[r] \notin Running
  BY <1>1, <1>5 DEF IInv, Holds
<1>6. NoOverlap' /\ SuccessInv' /\ ReplayIsResult' /\ PairInv'
  BY <1>1 DEF IInv, NoOverlap, SuccessInv, ReplayIsResult, PairInv, Apart, NoRec
<1> QED BY <1>2, <1>3, <1>4, <1>5, <1>6 DEF IInv

LEMMA InvInit ==
    ASSUME TimingAssumption, Init
    PROVE  IInv
<1>1. MaxTime \in Nat /\ MaxTime >= 1 /\ MaxMisses \in Nat /\ MaxClaim \in Nat
  BY Constants
<1>2. Types
  BY <1>1 DEF Init, Types, TypeOK, NoRec, Stopped, Replies
<1>3. ASSUME NEW r \in Requests
      PROVE  ClaimInv(r) /\ EffectInv(r) /\ pc[r] \notin Running
  BY <1>1 DEF Init, ClaimInv, EffectInv, Claiming, Taking, Running
<1>4. NoOverlap /\ SuccessInv /\ ReplayIsResult /\ PairInv
  BY <1>3 DEF Init, NoOverlap, SuccessInv, ReplayIsResult, PairInv, NoRec
<1> QED BY <1>2, <1>3, <1>4 DEF IInv

LEMMA InvStep ==
    ASSUME TimingAssumption, IInv, [Next]_vars
    PROVE  IInv'
<1>1. ASSUME NEW r \in Requests, RequestStep(r) PROVE IInv'
  BY <1>1, RequestKeeps
<1>2. CASE Tick \/ DeleteExpired
  BY <1>2, TickKeeps, CleanupKeeps
<1>3. CASE UNCHANGED vars
  BY <1>3
     DEF vars, IInv, Types, TypeOK, ClaimInv, EffectInv, RowKept, Holds, LeaseInv, Locked,
         NoOverlap, SuccessInv, ReplayIsResult, PairInv, Apart, Rows
<1> QED BY <1>1, <1>2, <1>3 DEF Next, RequestStep

LEMMA Invariance ==
    ASSUME TimingAssumption
    PROVE  Spec => []IInv
<1>1. Init => IInv
  BY InvInit
<1>2. IInv /\ [Next]_vars => IInv'
  BY InvStep
<1> QED BY <1>1, <1>2, PTL DEF Spec

-----------------------------------------------------------------------------

\* The row and the requests keep their shape.
THEOREM IdempotencyTypeCorrect ==
    ASSUME TimingAssumption
    PROVE  Spec => []TypeOK
<1>1. IInv => TypeOK
  BY DEF IInv, Types
<1> QED BY <1>1, Invariance, PTL

\* Two requests with one key never execute at the same time (Execute,
\* renewProcessingLease, TryReclaim): for any number of requests, faults and
\* renewals, as long as claiming is quicker than the lease and the lifetime, a
\* request that does not renew is quicker than the lifetime, and not too many
\* renewals fail in a row.
THEOREM NoOverlapHolds ==
    ASSUME TimingAssumption
    PROVE  Spec => []NoOverlap
<1>1. IInv => NoOverlap
  BY DEF IInv
<1> QED BY <1>1, Invariance, PTL

\* Two executions with one key that took effect are a record lifetime apart,
\* unless the success of one was overwritten; and a replay answers with the result
\* of an execution with the same payload.
THEOREM OneResultHolds ==
    ASSUME TimingAssumption
    PROVE  Spec => []OneResult
<1>1. IInv => OneResult
  <2> SUFFICES ASSUME IInv PROVE OnceUnlessOverwritten
    BY DEF OneResult, IInv
  <2>1. effect \subseteq Requests /\ PairInv
    BY DEF IInv, Types, TypeOK
  <2> QED BY <2>1 DEF PairInv, OnceUnlessOverwritten
<1> QED BY <1>1, Invariance, PTL

\* Within its lifetime a recorded success is touched by nobody but a request that
\* had read an expired one: marks and renewals come from requests that hold a
\* claim, and then the row is no success.
THEOREM SuccessKeptHolds ==
    ASSUME TimingAssumption
    PROVE  Spec => SuccessKept
<1>1. IInv /\ [Next]_vars => [KeepsSuccess]_vars
  <2> SUFFICES ASSUME IInv, Next, rec.status = "succeeded", rec.exp > clock, rec' # rec
               PROVE  \E r \in Requests :
                        pc[r] = "reclaim" /\ pc'[r] # "reclaim" /\ TakesOverSuccess(r)
    BY DEF KeepsSuccess
  <2>1. clock \in Nat /\ rec \in Rows /\ rec.exp \in Nat
    BY Constants DEF IInv, Types, TypeOK, Rows, NoRec
  <2>2. PICK r \in Requests : RequestStep(r)
    BY <2>1 DEF Next, RequestStep, Tick, DeleteExpired
  <2>3. pc[r] \notin Running
    BY DEF IInv, Holds
  <2>4. Taken(r)
    BY <2>2, <2>3, RowMoves DEF RowMove, Quiet, Marked, Extended, Running
  <2>5. pc[r] = "reclaim" /\ pc'[r] # "reclaim"
    BY <2>1, <2>4 DEF Taken, Rows, NoRec
  <2>6. seen[r].status = "succeeded"
    <3>1. ReclaimExpired(r) \/ StoreError(r)
      BY <2>2, <2>5
         DEF RequestStep, Begin, Step, CreateProcessing, GetExisting, GetLatest, ReclaimFailed,
             Executed, MarkSucceeded, MarkFailedRetryable, Renew, Fault, Disconnect, Crash,
             IInv, Types, TypeOK
    <3>2. Reclaimable(seen[r].id, seen[r].status, start[r])
      BY <2>5, <3>1 DEF ReclaimExpired, StoreError, Writes
    <3> QED BY <3>2 DEF Reclaimable
  <2> QED BY <2>5, <2>6 DEF TakesOverSuccess
<1> QED BY <1>1, Invariance, PTL DEF Spec, SuccessKept
=============================================================================
