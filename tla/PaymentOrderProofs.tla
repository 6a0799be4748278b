------------------------- MODULE PaymentOrderProofs -------------------------
(***************************************************************************)
(* What holds of a recharge order for any number of workers, any amount and  *)
(* any number of failing calls and deaths.  Three arguments, one on the      *)
(* other: a refund claims the order by a conditional UPDATE, so at most one  *)
(* worker is between the claim and its end; the state of the redeem code     *)
(* tells how often the user was credited; and what a refund took is either   *)
(* in the plan of that one worker, or in the pending audit, or nothing.      *)
(***************************************************************************)
EXTENDS PaymentOrder, TLAPS

Refunding(p) == worker[p].pc \in {"deduct", "gateway", "ok", "pending", "gwfail", "restore", "refundfailed"}
Deducted(p) == worker[p].pc \in {"gateway", "ok", "pending", "gwfail"}
RollbackFailed == "REFUND_ROLLBACK_FAILED" \in audits

\* One worker refunds, and the order says so.
OneRefund ==
    /\ \A p \in Workers : Refunding(p) => status = "REFUNDING"
    /\ \A p, q \in Workers : Refunding(p) /\ Refunding(q) => p = q

\* The code is used once, the rebate follows, the completion comes last.
CreditInv ==
    /\ credits = IF code = "used" THEN 1 ELSE 0
    /\ rebates \in {0, 1} /\ (rebates = 1 => code = "used")
    /\ \A p \in Workers :
         /\ worker[p].pc \in {"rebate", "complete"} => code = "used"
         /\ worker[p].pc = "complete" => rebates = 1
    /\ status \in Fulfilled => rebates = 1

\* A refund that is called made was made.
ProviderInv ==
    /\ \A p \in Workers : worker[p].pc \in {"ok", "finok"} => gw = "done"
    /\ status \in Refunded => gw = "done"

\* Who accounts for the net deduction.
HeldInv ==
    /\ held \in 0..Amount
    /\ status \notin Refunded \cup {"REFUNDING", "REFUND_PENDING"} => RollbackFailed \/ held = 0
    /\ status = "REFUND_PENDING" => IF RollbackFailed THEN pend.deduct = 0 ELSE held = pend.deduct
    /\ \A p \in Workers :
         /\ worker[p].pc \in {"deduct", "restore"} => RollbackFailed \/ held = 0
         /\ worker[p].pc = "refundfailed" => RollbackFailed
         /\ Deducted(p) => IF RollbackFailed THEN worker[p].plan.deduct = 0
                                             ELSE held = worker[p].plan.deduct

IInv == TypeOK /\ OneRefund /\ CreditInv /\ ProviderInv /\ HeldInv
-----------------------------------------------------------------------------
\* The least of two numbers.
LEMMA MinOfTwo ==
    ASSUME NEW x \in Nat, NEW y \in Nat
    PROVE  Min({x, y}) \in Nat /\ Min({x, y}) <= x /\ Min({x, y}) <= y
<1>1. \E m \in {x, y} : \A n \in {x, y} : m <= n
  OBVIOUS
<1>2. QED
  BY <1>1 DEF Min

\* What a refund takes is within the amount and the balance.
LEMMA DeductType ==
    ASSUME TypeOK, NEW p \in Workers
    PROVE  ToDeduct(p) \in 0..Amount /\ ToDeduct(p) <= balance
<1>1. worker[p].plan.deduct \in 0..Amount /\ balance \in Nat
  BY DEF TypeOK, Doing, Plans
<1>2. QED
  BY <1>1, MinOfTwo, PaymentAssumption DEF ToDeduct

\* Type correctness, without the workers.
RestTyped ==
    /\ status \in Statuses /\ owners \subseteq Workers
    /\ fresh \in BOOLEAN /\ tradeNo \in BOOLEAN /\ due \in BOOLEAN /\ paid \in BOOLEAN /\ acked \in BOOLEAN
    /\ pend \in Plans
    /\ audits \subseteq {"PAYMENT_AFTER_EXPIRY", "REFUND_PENDING", "REFUND_FAILED",
                         "REFUND_ROLLBACK_FAILED"}
    /\ code \in {"none", "unused", "used"}
    /\ balance \in Nat /\ credits \in Nat /\ rebates \in Nat /\ held \in Int
    /\ gw \in {"none", "pending", "done", "failed"}
    /\ faults \in 0..Faults /\ crashes \in 0..Crashes
WorkerTyped == worker \in [Workers -> Doing]

\* The thirteen statuses of an order.
LEMMA StatusNames ==
    Statuses = {"PENDING", "CANCELLED", "EXPIRED", "PAID", "FAILED", "RECHARGING", "COMPLETED", "REFUND_REQUESTED",
                "REFUND_FAILED", "REFUNDED", "PARTIALLY_REFUNDED", "REFUNDING", "REFUND_PENDING"}
BY DEF Statuses, Payable, Fulfillable, Fulfilled, Refundable, Refunded

\* The type invariant in two parts: the workers and the rest.
LEMMA TypeParts == /\ TypeOK <=> RestTyped /\ WorkerTyped
                   /\ TypeOK' <=> RestTyped' /\ WorkerTyped'
BY DEF TypeOK, RestTyped, WorkerTyped

\* What workers do keeps its type.
LEMMA GotoType == ASSUME WorkerTyped, NEW p \in Workers, NEW s \in Steps, Goto(p, s)
                  PROVE  WorkerTyped'
BY DEF Goto, WorkerTyped, Doing

\* A worker at rest has its type ...
LEMMA IdleType == NoPlan \in Plans /\ Idle \in Doing
BY PaymentAssumption DEF Idle, NoPlan, Plans, Steps, Refundable, Doing

\* ... and one that returns.
LEMMA LeaveType == ASSUME WorkerTyped, NEW p \in Workers, Leave(p)
                   PROVE  WorkerTyped'
BY IdleType DEF Leave, WorkerTyped

\* A request starts with the trade number it read.
LEMMA StartType == ASSUME TypeOK, NEW p \in Workers, NEW s \in Steps,
                          NEW j \in {"notify", "verify", "cancel", "expire", "retry", "refund"},
                          Start(p, j, s)
                   PROVE  TypeOK'
<1>1. [Idle EXCEPT !.pc = s, !.job = j, !.trade = tradeNo] \in Doing
  BY IdleType DEF Doing, TypeOK
<1>2. WorkerTyped'
  BY <1>1 DEF Start, TypeOK, WorkerTyped
<1>3. RestTyped'
  BY TypeParts DEF Start, RestTyped, order, money, outside
<1> QED
  BY <1>2, <1>3, TypeParts
\* What a worker does keeps the types, of its own state ...
LEMMA WorkerTypeStep == ASSUME TypeOK, NEW p \in Workers, Progress(p)
                        PROVE  WorkerTyped'
<1> USE TypeParts, GotoType, LeaveType DEF Steps
<1>1. CASE QueryOrder(p)
  BY <1>1 DEF QueryOrder
<1>2. CASE PersistTradeNo(p)
  BY <1>2 DEF PersistTradeNo
<1>3. CASE DropOrder(p)
  BY <1>3 DEF DropOrder
<1>4. CASE ToPaid(p)
  BY <1>4 DEF ToPaid
<1>5. CASE AlreadyProcessed(p)
  BY <1>5 DEF AlreadyProcessed, Return
<1>6. CASE ExecuteBalanceFulfillment(p)
  BY <1>6 DEF ExecuteBalanceFulfillment, Return
<1>7. CASE AcquireLease(p)
  BY <1>7 DEF AcquireLease, Return
<1>8. CASE ReloadLease(p)
  BY <1>8 DEF ReloadLease, Return
<1>9. CASE LookupCode(p)
  BY <1>9 DEF LookupCode, Resolve, TypeOK
<1>10. CASE CreateCode(p)
  BY <1>10 DEF CreateCode
<1>11. CASE Redeem(p)
  BY <1>11 DEF Redeem
<1>12. CASE ApplyRebate(p)
  BY <1>12 DEF ApplyRebate
<1>13. CASE MarkCompleted(p)
  BY <1>13 DEF MarkCompleted, Return
<1>14. CASE MarkFailed(p)
  BY <1>14 DEF MarkFailed, Return
<1>15. CASE FulfilmentFails(p)
  BY <1>15 DEF FulfilmentFails
<1>16. CASE ClaimRefund(p)
  BY <1>16 DEF ClaimRefund
<1>17. CASE DeductBalance(p)
  <2>1. CASE worker' = [worker EXCEPT ![p].pc = "gateway", ![p].plan.deduct = ToDeduct(p)]
    <3>1. worker[p] \in Doing /\ worker[p].plan \in Plans
      BY DEF TypeOK, Doing
    <3>2. [worker[p].plan EXCEPT !.deduct = ToDeduct(p)] \in Plans
      BY <3>1, DeductType DEF Plans
    <3>3. [worker[p] EXCEPT !.pc = "gateway", !.plan = [worker[p].plan EXCEPT !.deduct = ToDeduct(p)]] \in Doing
      BY <3>1, <3>2 DEF Doing
    <3> QED
      BY <2>1, <3>1, <3>3 DEF WorkerTyped
  <2> QED
    BY <1>17, <2>1 DEF DeductBalance
<1>18. CASE GatewayRefund(p)
  BY <1>18 DEF GatewayRefund
<1>19. CASE MarkRefundOk(p)
  BY <1>19 DEF MarkRefundOk
<1>20. CASE MarkRefundPending(p)
  BY <1>20 DEF MarkRefundPending
<1>21. CASE RollbackRefund(p)
  BY <1>21 DEF RollbackRefund
<1>22. CASE RestoreStatus(p)
  BY <1>22 DEF RestoreStatus
<1>23. CASE HandleGwFail(p)
  BY <1>23 DEF HandleGwFail
<1>24. CASE FinalizePendingRefundSuccess(p)
  BY <1>24 DEF FinalizePendingRefundSuccess
<1>25. CASE FinalizeRefundFailed(p)
  BY <1>25 DEF FinalizeRefundFailed
<1> QED
  BY <1>1, <1>2, <1>3, <1>4, <1>5, <1>6, <1>7, <1>8, <1>9, <1>10, <1>11, <1>12, <1>13, <1>14, <1>15, <1>16, <1>17, <1>18, <1>19, <1>20, <1>21, <1>22, <1>23, <1>24, <1>25 DEF Progress

\* ... and of the rest.
LEMMA RestTypeStep == ASSUME TypeOK, NEW p \in Workers, Progress(p)
                      PROVE  RestTyped'
<1>0. worker[p] \in Doing /\ worker[p].plan \in Plans /\ worker[p].plan.deduct \in 0..Amount /\ pend.deduct \in 0..Amount
  BY DEF TypeOK, Doing, Plans
<1> USE TypeParts, StatusNames, PaymentAssumption
    DEF RestTyped, SetStatus, Return, Fault, order, money, outside
<1>1. CASE QueryOrder(p)
  BY <1>1 DEF QueryOrder
<1>2. CASE PersistTradeNo(p)
  BY <1>2 DEF PersistTradeNo
<1>3. CASE DropOrder(p)
  BY <1>3 DEF DropOrder
<1>4. CASE ToPaid(p)
  BY <1>4 DEF ToPaid
<1>5. CASE AlreadyProcessed(p)
  BY <1>5 DEF AlreadyProcessed
<1>6. CASE ExecuteBalanceFulfillment(p)
  BY <1>6 DEF ExecuteBalanceFulfillment
<1>7. CASE AcquireLease(p)
  BY <1>7 DEF AcquireLease
<1>8. CASE ReloadLease(p)
  BY <1>8 DEF ReloadLease
<1>9. CASE LookupCode(p)
  BY <1>9 DEF LookupCode
<1>10. CASE CreateCode(p)
  BY <1>10 DEF CreateCode
<1>11. CASE Redeem(p)
  BY <1>11 DEF Redeem
<1>12. CASE ApplyRebate(p)
  BY <1>12 DEF ApplyRebate
<1>13. CASE MarkCompleted(p)
  BY <1>13 DEF MarkCompleted
<1>14. CASE MarkFailed(p)
  BY <1>14 DEF MarkFailed
<1>15. CASE FulfilmentFails(p)
  BY <1>15 DEF FulfilmentFails
<1>16. CASE ClaimRefund(p)
  BY <1>16 DEF ClaimRefund
<1>17. CASE DeductBalance(p)
  BY <1>17, DeductType DEF DeductBalance
<1>18. CASE GatewayRefund(p)
  BY <1>18 DEF GatewayRefund
<1>19. CASE MarkRefundOk(p)
  BY <1>19 DEF MarkRefundOk, MarkedRefunded
<1>20. CASE MarkRefundPending(p)
  BY <1>20, <1>0 DEF MarkRefundPending, GiveBack
<1>21. CASE RollbackRefund(p)
  BY <1>21, <1>0 DEF RollbackRefund, GiveBack
<1>22. CASE RestoreStatus(p)
  BY <1>22 DEF RestoreStatus
<1>23. CASE HandleGwFail(p)
  BY <1>23 DEF HandleGwFail
<1>24. CASE FinalizePendingRefundSuccess(p)
  BY <1>24 DEF FinalizePendingRefundSuccess, MarkedRefunded
<1>25. CASE FinalizeRefundFailed(p)
  <2>0. UNCHANGED <<code, credits, rebates, outside, crashes>>
    BY <1>25 DEF FinalizeRefundFailed
  <2>1. CASE UNCHANGED <<order, balance, held, faults>>
    BY <2>0, <2>1
  <2>2. CASE /\ SetStatus("REFUND_FAILED") /\ GiveBack(pend.deduct)
             /\ audits' = audits \cup {"REFUND_FAILED"} /\ UNCHANGED <<tradeNo, pend, faults>>
    BY <1>0, <2>0, <2>2 DEF GiveBack
  <2>3. CASE /\ SetStatus("REFUND_FAILED") /\ Fault
             /\ audits' = audits \cup {"REFUND_FAILED", "REFUND_ROLLBACK_FAILED"}
             /\ UNCHANGED <<tradeNo, pend, balance, held>>
    BY <2>0, <2>3
  <2> QED
    BY <1>25, <2>1, <2>2, <2>3 DEF FinalizeRefundFailed
<1> QED
  BY <1>1, <1>2, <1>3, <1>4, <1>5, <1>6, <1>7, <1>8, <1>9, <1>10, <1>11, <1>12, <1>13, <1>14, <1>15, <1>16, <1>17, <1>18, <1>19, <1>20, <1>21, <1>22, <1>23, <1>24, <1>25 DEF Progress

\* Every step keeps the types.
LEMMA TypeStep == TypeOK /\ [Next]_vars => TypeOK'
<1> SUFFICES ASSUME TypeOK, [Next]_vars PROVE TypeOK'
  OBVIOUS
<1> USE TypeParts
<1>1. ASSUME NEW p \in Workers, Progress(p) PROVE TypeOK'
  BY <1>1, WorkerTypeStep, RestTypeStep
<1>2. ASSUME NEW p \in Workers, HandlePaymentNotification(p) PROVE TypeOK'
  BY <1>2, StartType DEF HandlePaymentNotification, Steps
<1>3. ASSUME NEW p \in Workers, Crash(p) PROVE TypeOK'
  <2>1. WorkerTyped'
    BY <1>3, LeaveType DEF Crash
  <2>2. RestTyped'
    BY <1>3, PaymentAssumption DEF Crash, RestTyped, order, money, outside
  <2> QED
    BY <2>1, <2>2
<1>4. ASSUME NEW p \in Clerks, Requested(p) PROVE TypeOK'
  <2>1. CASE PrepareRefund(p)
    <3>1. PICK amt \in 1..Amount, deduct \in BOOLEAN :
            worker' = [worker EXCEPT ![p] =
                [Idle EXCEPT !.pc = "claim", !.job = "refund",
                             !.plan = [amt |-> amt, from |-> status,
                                       deduct |-> IF deduct THEN Min({amt, balance}) ELSE 0]]]
      BY <2>1 DEF PrepareRefund
    <3>2. balance \in Nat /\ amt \in Nat /\ Amount \in Nat
      BY PaymentAssumption DEF TypeOK
    <3>3. [amt |-> amt, from |-> status, deduct |-> IF deduct THEN Min({amt, balance}) ELSE 0] \in Plans
      <4>1. (IF deduct THEN Min({amt, balance}) ELSE 0) \in 0..Amount
        BY <3>2, MinOfTwo
      <4>2. amt \in 0..Amount /\ status \in Refundable
        BY <2>1 DEF PrepareRefund
      <4> QED
        BY <4>1, <4>2 DEF Plans
    <3> DEFINE d == [Idle EXCEPT !.pc = "claim", !.job = "refund",
                           !.plan = [amt |-> amt, from |-> status,
                                     deduct |-> IF deduct THEN Min({amt, balance}) ELSE 0]]
    <3>4. d \in Doing
      BY <3>3, IdleType DEF Doing, Steps
    <3>6. worker' = [worker EXCEPT ![p] = d]
      BY <3>1
    <3> HIDE DEF d
    <3>7. WorkerTyped'
      BY <3>4, <3>6 DEF WorkerTyped
    <3>5. RestTyped'
      BY <2>1 DEF PrepareRefund, RestTyped, order, money, outside
    <3> QED
      BY <3>5, <3>7
  <2> QED
    BY <1>4, <2>1, StartType
    DEF Requested, VerifyOrder, CancelOrder, ExpireTimedOutOrders, RetryFulfillment, QueryAndFinalizeRefund,
        Steps, Workers
<1>5. CASE Pay \/ Age \/ FallDue \/ GatewaySettles \/ Spend \/ RequestRefund \/ UNCHANGED vars
  <2>1. WorkerTyped'
    BY <1>5 DEF Pay, Age, FallDue, GatewaySettles, Spend, RequestRefund, WorkerTyped, vars
  <2>2. CASE Pay \/ Age \/ FallDue \/ GatewaySettles
    BY <2>1, <2>2 DEF Pay, Age, FallDue, GatewaySettles, RestTyped, order, money, outside
  <2>3. CASE Spend \/ UNCHANGED vars
    BY <2>1, <2>3 DEF Spend, RestTyped, order, outside, vars
  <2>4. CASE RequestRefund
    BY <2>1, <2>4, StatusNames DEF RequestRefund, RestTyped, SetStatus, money, outside
  <2> QED
    BY <1>5, <2>2, <2>3, <2>4
<1> QED
  BY <1>1, <1>2, <1>3, <1>4, <1>5 DEF Next

\* The types hold initially.
LEMMA PaymentTypeInit == Init => TypeOK
<1>1. Init => RestTyped
  <2> SUFFICES ASSUME Init PROVE RestTyped
    OBVIOUS
  <2>1. status \in Statuses /\ owners \subseteq Workers /\ pend \in Plans
    BY IdleType, StatusNames DEF Init
  <2>2. balance \in Nat /\ faults \in 0..Faults /\ crashes \in 0..Crashes
    BY PaymentAssumption DEF Init
  <2>3. fresh \in BOOLEAN /\ tradeNo \in BOOLEAN /\ due \in BOOLEAN /\ paid \in BOOLEAN /\ acked \in BOOLEAN
    BY DEF Init
  <2>4. credits \in Nat /\ rebates \in Nat /\ held \in Int
    BY DEF Init
  <2> QED
    BY <2>1, <2>2, <2>3, <2>4, Zenon DEF Init, RestTyped
<1>2. Init => WorkerTyped
  BY IdleType DEF Init, WorkerTyped
<1> QED
  BY <1>1, <1>2, TypeParts

\* Every variable keeps its type, whatever the workers do.
THEOREM PaymentTypeCorrect == Spec => []TypeOK
BY PaymentTypeInit, TypeStep, PTL DEF Spec

-----------------------------------------------------------------------------
\* A worker that goes on, leaves or starts leaves the others alone.
LEMMA Moves ==
    ASSUME WorkerTyped, NEW p \in Workers
    PROVE  /\ \A s \in Steps : Goto(p, s) => /\ worker'[p].pc = s /\ worker'[p].plan = worker[p].plan
                                            /\ \A q \in Workers \ {p} : worker'[q] = worker[q]
           /\ Leave(p) => /\ worker'[p].pc = "idle"
                          /\ \A q \in Workers \ {p} : worker'[q] = worker[q]
           /\ \A j, s : Start(p, j, s) => /\ worker'[p].pc = s
                                          /\ \A q \in Workers \ {p} : worker'[q] = worker[q]
<1>1. worker \in [Workers -> Doing] /\ worker[p] \in Doing
  BY DEF WorkerTyped
<1>2. ASSUME NEW s \in Steps, Goto(p, s)
      PROVE  /\ worker'[p].pc = s /\ worker'[p].plan = worker[p].plan
             /\ \A q \in Workers \ {p} : worker'[q] = worker[q]
  BY <1>1, <1>2 DEF Goto, Doing
<1>3. ASSUME Leave(p) PROVE worker'[p].pc = "idle" /\ \A q \in Workers \ {p} : worker'[q] = worker[q]
  BY <1>1, <1>3 DEF Leave, Idle
<1>4. ASSUME NEW j, NEW s, Start(p, j, s)
      PROVE  worker'[p].pc = s /\ \A q \in Workers \ {p} : worker'[q] = worker[q]
  BY <1>1, <1>4 DEF Start, Idle
<1> QED
  BY <1>2, <1>3, <1>4

\* The deduction moves its worker to the gateway and changes nothing of the others.
LEMMA DeductMoves ==
    ASSUME WorkerTyped, NEW p \in Workers,
           worker' = [worker EXCEPT ![p].pc = "gateway", ![p].plan.deduct = ToDeduct(p)]
    PROVE  /\ worker'[p].pc = "gateway" /\ worker'[p].plan.deduct = ToDeduct(p)
           /\ \A q \in Workers \ {p} : worker'[q] = worker[q]
<1>1. worker \in [Workers -> Doing] /\ worker[p] \in Doing /\ worker[p].plan \in Plans
  BY DEF WorkerTyped, Doing
<1> QED
  BY <1>1 DEF Doing, Plans

\* Requests begin outside of every guarded section, and a crash leaves it.
LEMMA Begins ==
    ASSUME WorkerTyped, NEW p \in Workers, HandlePaymentNotification(p) \/ Requested(p) \/ Crash(p)
    PROVE  /\ worker'[p].pc \in {"idle", "topaid", "query", "fulfil", "claim", "finok", "finfail"}
           /\ worker'[p].pc = "finok" => gw = "done"
           /\ \A q \in Workers \ {p} : worker'[q] = worker[q]
           /\ UNCHANGED <<order, money, gw>>
<1>1. CASE PrepareRefund(p)
  <2>1. worker \in [Workers -> Doing]
    BY DEF WorkerTyped
  <2> QED
    BY <1>1, <2>1 DEF PrepareRefund, Idle, outside
<1>2. CASE HandlePaymentNotification(p) \/ VerifyOrder(p) \/ CancelOrder(p) \/ ExpireTimedOutOrders(p) \/ RetryFulfillment(p)
  <2>1. \E j \in {"notify", "verify", "cancel", "expire", "retry"}, s \in {"topaid", "query", "fulfil"} : Start(p, j, s)
    BY <1>2 DEF HandlePaymentNotification, VerifyOrder, CancelOrder, ExpireTimedOutOrders, RetryFulfillment
  <2>2. PICK j \in {"notify", "verify", "cancel", "expire", "retry"}, s \in {"topaid", "query", "fulfil"} : Start(p, j, s)
    BY <2>1
  <2>3. worker'[p].pc = s /\ \A q \in Workers \ {p} : worker'[q] = worker[q]
    BY <2>2, Moves
  <2>4. UNCHANGED <<order, money, gw>>
    BY <2>2 DEF Start, outside
  <2> QED
    BY <2>3, <2>4
<1>3. CASE QueryAndFinalizeRefund(p)
  <2> DEFINE s == IF gw = "done" THEN "finok" ELSE "finfail"
  <2>1. Start(p, "refund", s)
    BY <1>3 DEF QueryAndFinalizeRefund
  <2>2. worker'[p].pc = s /\ \A q \in Workers \ {p} : worker'[q] = worker[q]
    BY <2>1, Moves
  <2>3. UNCHANGED <<order, money, gw>>
    BY <2>1 DEF Start, outside
  <2> QED
    BY <2>2, <2>3
<1>4. CASE Crash(p)
  BY <1>4, Moves DEF Crash, outside
<1> QED
  BY <1>1, <1>2, <1>3, <1>4 DEF Requested

\* Only the claim makes a refunding worker, and no other step moves the status under it.
LEMMA OneRefundStep == ASSUME TypeOK, OneRefund, NEW p \in Workers, Progress(p)
                    PROVE  OneRefund'
<1> USE TypeParts, Moves DEF OneRefund, Refunding, At, SetStatus, Steps, order, Refundable
<1>1. CASE QueryOrder(p)
  BY <1>1 DEF QueryOrder
<1>2. CASE PersistTradeNo(p)
  BY <1>2 DEF PersistTradeNo
<1>3. CASE DropOrder(p)
  BY <1>3 DEF DropOrder, Dropped
<1>4. CASE ToPaid(p)
  BY <1>4 DEF ToPaid, Confirmable
<1>5. CASE AlreadyProcessed(p)
  BY <1>5 DEF AlreadyProcessed, Return
<1>6. CASE ExecuteBalanceFulfillment(p)
  BY <1>6 DEF ExecuteBalanceFulfillment, Return
<1>7. CASE AcquireLease(p)
  BY <1>7 DEF AcquireLease, Leasable, Return
<1>8. CASE ReloadLease(p)
  BY <1>8 DEF ReloadLease, Return
<1>9. CASE LookupCode(p)
  BY <1>9 DEF LookupCode, Resolve, TypeOK
<1>10. CASE CreateCode(p)
  BY <1>10 DEF CreateCode
<1>11. CASE Redeem(p)
  BY <1>11 DEF Redeem
<1>12. CASE ApplyRebate(p)
  BY <1>12 DEF ApplyRebate
<1>13. CASE MarkCompleted(p)
  BY <1>13 DEF MarkCompleted, LeaseHeld, Return
<1>14. CASE MarkFailed(p)
  BY <1>14 DEF MarkFailed, LeaseHeld, Return
<1>15. CASE FulfilmentFails(p)
  BY <1>15 DEF FulfilmentFails
<1>16. CASE ClaimRefund(p)
  BY <1>16 DEF ClaimRefund, Claimable
<1>17. CASE DeductBalance(p)
  BY <1>17, DeductMoves DEF DeductBalance
<1>18. CASE GatewayRefund(p)
  BY <1>18 DEF GatewayRefund
<1>19. CASE MarkRefundOk(p)
  BY <1>19 DEF MarkRefundOk, MarkedRefunded
<1>20. CASE MarkRefundPending(p)
  BY <1>20 DEF MarkRefundPending, Auditable
<1>21. CASE RollbackRefund(p)
  BY <1>21 DEF RollbackRefund
<1>22. CASE RestoreStatus(p)
  BY <1>22 DEF RestoreStatus
<1>23. CASE HandleGwFail(p)
  BY <1>23 DEF HandleGwFail
<1>24. CASE FinalizePendingRefundSuccess(p)
  BY <1>24 DEF FinalizePendingRefundSuccess, MarkedRefunded, Finalizable
<1>25. CASE FinalizeRefundFailed(p)
  BY <1>25 DEF FinalizeRefundFailed, Finalizable, Auditable
<1> QED
  BY <1>1, <1>2, <1>3, <1>4, <1>5, <1>6, <1>7, <1>8, <1>9, <1>10, <1>11, <1>12, <1>13, <1>14, <1>15, <1>16, <1>17, <1>18, <1>19, <1>20, <1>21, <1>22, <1>23, <1>24, <1>25 DEF Progress

\* The code is used up before the rebate, the rebate claimed before the completion.
LEMMA CreditStep == ASSUME TypeOK, OneRefund, CreditInv, NEW p \in Workers, Progress(p)
                 PROVE  CreditInv'
<1> USE TypeParts, Moves DEF OneRefund, Refunding, CreditInv, At, SetStatus, Steps, order, money, Fulfilled, Refundable, Refunded
<1>1. CASE QueryOrder(p)
  BY <1>1 DEF QueryOrder
<1>2. CASE PersistTradeNo(p)
  BY <1>2 DEF PersistTradeNo
<1>3. CASE DropOrder(p)
  BY <1>3 DEF DropOrder, Dropped
<1>4. CASE ToPaid(p)
  BY <1>4 DEF ToPaid, Confirmable
<1>5. CASE AlreadyProcessed(p)
  BY <1>5 DEF AlreadyProcessed, Return
<1>6. CASE ExecuteBalanceFulfillment(p)
  BY <1>6 DEF ExecuteBalanceFulfillment, Return
<1>7. CASE AcquireLease(p)
  BY <1>7 DEF AcquireLease, Leasable, Return
<1>8. CASE ReloadLease(p)
  BY <1>8 DEF ReloadLease, Return
<1>9. CASE LookupCode(p)
  BY <1>9 DEF LookupCode, Resolve, TypeOK
<1>10. CASE CreateCode(p)
  BY <1>10 DEF CreateCode
<1>11. CASE Redeem(p)
  BY <1>11 DEF Redeem, Redeemable
<1>12. CASE ApplyRebate(p)
  BY <1>12 DEF ApplyRebate, RebateClaimed
<1>13. CASE MarkCompleted(p)
  BY <1>13 DEF MarkCompleted, LeaseHeld, Return
<1>14. CASE MarkFailed(p)
  BY <1>14 DEF MarkFailed, LeaseHeld, Return
<1>15. CASE FulfilmentFails(p)
  BY <1>15 DEF FulfilmentFails
<1>16. CASE ClaimRefund(p)
  BY <1>16 DEF ClaimRefund, Claimable
<1>17. CASE DeductBalance(p)
  BY <1>17, DeductMoves DEF DeductBalance
<1>18. CASE GatewayRefund(p)
  BY <1>18 DEF GatewayRefund
<1>19. CASE MarkRefundOk(p)
  BY <1>19 DEF MarkRefundOk, MarkedRefunded
<1>20. CASE MarkRefundPending(p)
  BY <1>20 DEF MarkRefundPending, Auditable
<1>21. CASE RollbackRefund(p)
  BY <1>21 DEF RollbackRefund
<1>22. CASE RestoreStatus(p)
  BY <1>22 DEF RestoreStatus
<1>23. CASE HandleGwFail(p)
  BY <1>23 DEF HandleGwFail
<1>24. CASE FinalizePendingRefundSuccess(p)
  BY <1>24 DEF FinalizePendingRefundSuccess, MarkedRefunded, Finalizable
<1>25. CASE FinalizeRefundFailed(p)
  BY <1>25 DEF FinalizeRefundFailed, Finalizable, Auditable
<1> QED
  BY <1>1, <1>2, <1>3, <1>4, <1>5, <1>6, <1>7, <1>8, <1>9, <1>10, <1>11, <1>12, <1>13, <1>14, <1>15, <1>16, <1>17, <1>18, <1>19, <1>20, <1>21, <1>22, <1>23, <1>24, <1>25 DEF Progress

\* A refund the provider made stays made.
LEMMA ProviderStep == ASSUME TypeOK, OneRefund, ProviderInv, NEW p \in Workers, Progress(p)
                   PROVE  ProviderInv'
<1> USE TypeParts, Moves DEF OneRefund, Refunding, ProviderInv, At, SetStatus, Steps, order, outside, Refunded, Refundable
<1>1. CASE QueryOrder(p)
  BY <1>1 DEF QueryOrder
<1>2. CASE PersistTradeNo(p)
  BY <1>2 DEF PersistTradeNo
<1>3. CASE DropOrder(p)
  BY <1>3 DEF DropOrder, Dropped
<1>4. CASE ToPaid(p)
  BY <1>4 DEF ToPaid, Confirmable
<1>5. CASE AlreadyProcessed(p)
  BY <1>5 DEF AlreadyProcessed, Return
<1>6. CASE ExecuteBalanceFulfillment(p)
  BY <1>6 DEF ExecuteBalanceFulfillment, Return
<1>7. CASE AcquireLease(p)
  BY <1>7 DEF AcquireLease, Leasable, Return
<1>8. CASE ReloadLease(p)
  BY <1>8 DEF ReloadLease, Return
<1>9. CASE LookupCode(p)
  BY <1>9 DEF LookupCode, Resolve, TypeOK
<1>10. CASE CreateCode(p)
  BY <1>10 DEF CreateCode
<1>11. CASE Redeem(p)
  BY <1>11 DEF Redeem, Redeemable
<1>12. CASE ApplyRebate(p)
  BY <1>12 DEF ApplyRebate, RebateClaimed
<1>13. CASE MarkCompleted(p)
  BY <1>13 DEF MarkCompleted, LeaseHeld, Return
<1>14. CASE MarkFailed(p)
  BY <1>14 DEF MarkFailed, LeaseHeld, Return
<1>15. CASE FulfilmentFails(p)
  BY <1>15 DEF FulfilmentFails
<1>16. CASE ClaimRefund(p)
  BY <1>16 DEF ClaimRefund, Claimable
<1>17. CASE DeductBalance(p)
  BY <1>17, DeductMoves DEF DeductBalance
<1>18. CASE GatewayRefund(p)
  BY <1>18 DEF GatewayRefund
<1>19. CASE MarkRefundOk(p)
  BY <1>19 DEF MarkRefundOk, MarkedRefunded
<1>20. CASE MarkRefundPending(p)
  BY <1>20 DEF MarkRefundPending, Auditable
<1>21. CASE RollbackRefund(p)
  BY <1>21 DEF RollbackRefund
<1>22. CASE RestoreStatus(p)
  BY <1>22 DEF RestoreStatus
<1>23. CASE HandleGwFail(p)
  BY <1>23 DEF HandleGwFail
<1>24. CASE FinalizePendingRefundSuccess(p)
  BY <1>24 DEF FinalizePendingRefundSuccess, MarkedRefunded, Finalizable
<1>25. CASE FinalizeRefundFailed(p)
  BY <1>25 DEF FinalizeRefundFailed, Finalizable, Auditable
<1> QED
  BY <1>1, <1>2, <1>3, <1>4, <1>5, <1>6, <1>7, <1>8, <1>9, <1>10, <1>11, <1>12, <1>13, <1>14, <1>15, <1>16, <1>17, <1>18, <1>19, <1>20, <1>21, <1>22, <1>23, <1>24, <1>25 DEF Progress

\* What is deducted moves into the plan, from there into the pending audit, and back.
LEMMA HeldStep == ASSUME TypeOK, OneRefund, HeldInv, NEW p \in Workers, Progress(p)
               PROVE  HeldInv'
<1> USE TypeParts, Moves DEF OneRefund, Refunding, HeldInv, Deducted, RollbackFailed, At, SetStatus, Steps, order, money, Refunded, Refundable
<1>1. CASE QueryOrder(p)
  BY <1>1 DEF QueryOrder
<1>2. CASE PersistTradeNo(p)
  BY <1>2 DEF PersistTradeNo
<1>3. CASE DropOrder(p)
  BY <1>3 DEF DropOrder, Dropped
<1>4. CASE ToPaid(p)
  BY <1>4 DEF ToPaid, Confirmable
<1>5. CASE AlreadyProcessed(p)
  BY <1>5 DEF AlreadyProcessed, Return
<1>6. CASE ExecuteBalanceFulfillment(p)
  BY <1>6 DEF ExecuteBalanceFulfillment, Return
<1>7. CASE AcquireLease(p)
  BY <1>7 DEF AcquireLease, Leasable, Return
<1>8. CASE ReloadLease(p)
  BY <1>8 DEF ReloadLease, Return
<1>9. CASE LookupCode(p)
  BY <1>9 DEF LookupCode, Resolve, TypeOK
<1>10. CASE CreateCode(p)
  BY <1>10 DEF CreateCode
<1>11. CASE Redeem(p)
  BY <1>11 DEF Redeem, Redeemable
<1>12. CASE ApplyRebate(p)
  BY <1>12 DEF ApplyRebate, RebateClaimed
<1>13. CASE MarkCompleted(p)
  BY <1>13 DEF MarkCompleted, LeaseHeld, Return
<1>14. CASE MarkFailed(p)
  BY <1>14 DEF MarkFailed, LeaseHeld, Return
<1>15. CASE FulfilmentFails(p)
  BY <1>15 DEF FulfilmentFails
<1>16. CASE ClaimRefund(p)
  BY <1>16 DEF ClaimRefund, Claimable
<1>17. CASE DeductBalance(p)
  <2>1. RollbackFailed => ToDeduct(p) = 0
    BY DEF ToDeduct
  <2>2. ToDeduct(p) \in 0..Amount /\ UNCHANGED <<status, pend, audits>>
    BY <1>17, DeductType DEF DeductBalance
  <2>3. (\A q \in Workers \ {p} : ~Refunding(q)) /\ status = "REFUNDING"
    BY <1>17 DEF DeductBalance
  <2>4. CASE /\ worker' = [worker EXCEPT ![p].pc = "gateway", ![p].plan.deduct = ToDeduct(p)]
             /\ held' = held + ToDeduct(p)
    <3>1. held' \in 0..Amount /\ IF RollbackFailed THEN ToDeduct(p) = 0 ELSE held' = ToDeduct(p)
      <4>1. held \in 0..Amount /\ (RollbackFailed \/ held = 0)
        BY <1>17 DEF DeductBalance
      <4>2. held' = held + ToDeduct(p) /\ ToDeduct(p) \in 0..Amount /\ Amount \in Nat
        BY <2>2, <2>4, PaymentAssumption
      <4>3. CASE RollbackFailed
        <5>1. ToDeduct(p) = 0
          BY <2>1, <4>3
        <5> QED
          BY <4>1, <4>2, <4>3, <5>1
      <4>4. CASE ~RollbackFailed
        <5>1. held = 0
          BY <4>1, <4>4
        <5>2. held' = ToDeduct(p)
          BY <4>2, <5>1
        <5> QED
          BY <4>2, <4>4, <5>2
      <4> QED
        BY <4>3, <4>4
    <3>2. /\ worker'[p].pc = "gateway" /\ worker'[p].plan.deduct = ToDeduct(p)
          /\ \A q \in Workers \ {p} : worker'[q] = worker[q]
      BY <2>4, DeductMoves
    <3> QED
      BY <2>2, <2>3, <3>1, <3>2
  <2>5. CASE Goto(p, "restore") /\ UNCHANGED held
    BY <1>17, <2>2, <2>3, <2>5 DEF DeductBalance
  <2> QED
    BY <1>17, <2>4, <2>5 DEF DeductBalance
<1>18. CASE GatewayRefund(p)
  BY <1>18 DEF GatewayRefund
<1>19. CASE MarkRefundOk(p)
  BY <1>19 DEF MarkRefundOk, MarkedRefunded
<1>20. CASE MarkRefundPending(p)
  BY <1>20 DEF MarkRefundPending, Auditable
<1>21. CASE RollbackRefund(p)
  <2>1. (\A q \in Workers \ {p} : ~Refunding(q)) /\ status = "REFUNDING"
    BY <1>21 DEF RollbackRefund
  <2>2. UNCHANGED <<status, pend>> /\ worker[p].plan.deduct \in 0..Amount
    BY <1>21 DEF RollbackRefund, TypeOK, Doing, Plans
  <2>3. CASE GiveBack(worker[p].plan.deduct) /\ Goto(p, "restore") /\ UNCHANGED audits
    <3>1. held' \in 0..Amount /\ (RollbackFailed \/ held' = 0)
      BY <1>21, <2>2, <2>3, PaymentAssumption DEF RollbackRefund, GiveBack
    <3> QED
      BY <2>1, <2>2, <2>3, <3>1
  <2>4. CASE /\ audits' = audits \cup {"REFUND_ROLLBACK_FAILED"}
             /\ Goto(p, "refundfailed") /\ UNCHANGED <<balance, held>>
    BY <2>1, <2>2, <2>4
  <2> QED
    BY <1>21, <2>3, <2>4 DEF RollbackRefund
<1>22. CASE RestoreStatus(p)
  BY <1>22 DEF RestoreStatus
<1>23. CASE HandleGwFail(p)
  BY <1>23 DEF HandleGwFail
<1>24. CASE FinalizePendingRefundSuccess(p)
  BY <1>24 DEF FinalizePendingRefundSuccess, MarkedRefunded, Finalizable
<1>25. CASE FinalizeRefundFailed(p)
  <2>0. Leave(p)
    BY <1>25 DEF FinalizeRefundFailed
  <2>1. CASE UNCHANGED <<order, balance, held, faults>>
    BY <2>0, <2>1
  <2>2. CASE Finalizable /\ SetStatus("REFUND_FAILED") /\ UNCHANGED pend
    <3>1. (\A q \in Workers : ~Refunding(q)) /\ status = "REFUND_PENDING" /\ pend.deduct \in 0..Amount
      BY <2>2 DEF Finalizable, TypeOK, Plans
    <3>2. CASE GiveBack(pend.deduct) /\ audits' = audits \cup {"REFUND_FAILED"}
      <4>1. held' \in 0..Amount /\ (RollbackFailed \/ held' = 0)
        BY <3>1, <3>2, PaymentAssumption DEF GiveBack
      <4> QED
        BY <2>0, <2>2, <3>1, <3>2, <4>1
    <3>3. CASE /\ audits' = audits \cup {"REFUND_FAILED", "REFUND_ROLLBACK_FAILED"}
               /\ UNCHANGED <<balance, held>>
      BY <2>0, <2>2, <3>1, <3>3
    <3> QED
      BY <1>25, <2>2, <3>2, <3>3 DEF FinalizeRefundFailed
  <2> QED
    BY <1>25, <2>1, <2>2 DEF FinalizeRefundFailed
<1> QED
  BY <1>1, <1>2, <1>3, <1>4, <1>5, <1>6, <1>7, <1>8, <1>9, <1>10, <1>11, <1>12, <1>13, <1>14, <1>15, <1>16, <1>17, <1>18, <1>19, <1>20, <1>21, <1>22, <1>23, <1>24, <1>25 DEF Progress

-----------------------------------------------------------------------------
\* The invariant is inductive.
LEMMA InvInit == Init => IInv
<1> SUFFICES ASSUME Init PROVE IInv
  OBVIOUS
<1>1. TypeOK
  BY PaymentTypeInit
<1>2. \A p \in Workers : worker[p].pc = "idle"
  BY DEF Init, Idle
<1>3. OneRefund /\ ProviderInv
  BY <1>2 DEF Init, OneRefund, Refunding, ProviderInv, Refunded
<1>4. CreditInv
  BY <1>2 DEF Init, CreditInv, Fulfilled, Refundable, Refunded
<1>5. HeldInv
  BY <1>2, PaymentAssumption DEF Init, HeldInv, Deducted, RollbackFailed
<1> QED
  BY <1>1, <1>3, <1>4, <1>5 DEF IInv

\* Every step keeps the invariant: one case per kind of step.
LEMMA InvStep == IInv /\ [Next]_vars => IInv'
<1> SUFFICES ASSUME IInv, [Next]_vars PROVE IInv'
  OBVIOUS
<1>0. TypeOK /\ TypeOK' /\ WorkerTyped
  BY TypeStep, TypeParts DEF IInv
<1>1. ASSUME NEW p \in Workers, Progress(p) PROVE IInv'
  BY <1>0, <1>1, OneRefundStep, CreditStep, ProviderStep, HeldStep DEF IInv
<1>2. ASSUME NEW p \in Workers, HandlePaymentNotification(p) \/ Requested(p) \/ Crash(p) PROVE IInv'
  <2> USE <1>0, <1>2, Begins DEF IInv, order, money
  <2>1. OneRefund'
    BY DEF OneRefund, Refunding
  <2>2. CreditInv'
    BY DEF CreditInv
  <2>3. ProviderInv'
    BY DEF ProviderInv
  <2>4. HeldInv'
    BY DEF HeldInv, Deducted, RollbackFailed
  <2> QED
    BY <2>1, <2>2, <2>3, <2>4
<1>3. CASE Pay \/ Age \/ FallDue \/ Spend \/ UNCHANGED vars
  <2>1. UNCHANGED <<status, pend, audits, code, credits, rebates, held, gw, worker>>
    BY <1>3 DEF Pay, Age, FallDue, Spend, vars, order, money, outside
  <2> QED
    BY <1>0, <2>1 DEF IInv, OneRefund, Refunding, CreditInv, ProviderInv, HeldInv, Deducted, RollbackFailed
<1>4. CASE GatewaySettles
  <2>1. UNCHANGED <<status, pend, audits, code, credits, rebates, held, worker>> /\ gw = "pending"
    BY <1>4 DEF GatewaySettles, order, money
  <2> QED
    BY <1>0, <2>1 DEF IInv, OneRefund, Refunding, CreditInv, ProviderInv, HeldInv, Deducted, RollbackFailed
<1>5. CASE RequestRefund
  <2>1. /\ UNCHANGED <<pend, audits, code, credits, rebates, held, gw, worker>>
        /\ status = "COMPLETED" /\ status' = "REFUND_REQUESTED"
    BY <1>5 DEF RequestRefund, SetStatus, money, outside
  <2> QED
    BY <1>0, <2>1 DEF IInv, OneRefund, Refunding, CreditInv, ProviderInv, HeldInv, Deducted, RollbackFailed,
                      Fulfilled, Refundable, Refunded
<1> QED
  BY <1>1, <1>2, <1>3, <1>4, <1>5 DEF Next, Workers

\* The invariant holds throughout.
LEMMA InvHolds == Spec => []IInv
BY InvInit, InvStep, PTL DEF Spec

\* However often the provider notifies, whoever takes a lease over and whoever dies,
\* the user is credited once, the inviter once, and both before the order is completed
\* (Redeem in one transaction, the rebate's unique audit row).
THEOREM CreditedOnceHolds == Spec => []CreditedOnce
<1>1. IInv => CreditedOnce
  BY DEF IInv, CreditInv, CreditedOnce
<1> QED
  BY <1>1, InvHolds, PTL

\* Any number of concurrent, failing and resumed refunds takes at most the amount, keeps
\* it only while a refund is open, was made or could not be given back, and none is
\* called made that the provider did not make.
THEOREM RefundsAccountedHolds == Spec => []RefundsAccounted
<1>1. IInv => RefundsAccounted
  BY PaymentAssumption DEF IInv, HeldInv, ProviderInv, RefundsAccounted, RollbackFailed
<1> QED
  BY <1>1, InvHolds, PTL

\* The status never goes back: from paid to payable, from fulfilled to unfulfilled, or
\* from refunded to anything.
THEOREM OrderOnlyAdvancesHolds == Spec => OrderOnlyAdvances
<1>1. IInv /\ [Next]_vars => [OnlyAdvances]_vars
  <2> SUFFICES ASSUME IInv, Next PROVE OnlyAdvances
    BY DEF OnlyAdvances, vars
  <2> USE DEF OnlyAdvances, Payable, Fulfilled, Refundable, Refunded, SetStatus, order
  <2>0. TypeOK /\ OneRefund /\ WorkerTyped
    BY TypeParts DEF IInv
  <2>1. ASSUME NEW p \in Workers, HandlePaymentNotification(p) \/ Requested(p) \/ Crash(p) PROVE OnlyAdvances
    BY <2>0, <2>1, Begins
  <2>2. ASSUME NEW p \in Workers, Progress(p) PROVE OnlyAdvances
    <3>1. CASE Refunding(p)
      BY <2>0, <2>2, <3>1
      DEF OneRefund, Refunding, At, Progress, QueryOrder, PersistTradeNo, DropOrder, ToPaid, AlreadyProcessed,
          ExecuteBalanceFulfillment, AcquireLease, ReloadLease, LookupCode, CreateCode, Redeem, ApplyRebate,
          MarkCompleted, MarkFailed, FulfilmentFails, ClaimRefund, DeductBalance, GatewayRefund, MarkRefundOk,
          MarkedRefunded, MarkRefundPending, RollbackRefund, RestoreStatus, HandleGwFail,
          FinalizePendingRefundSuccess, FinalizeRefundFailed
    <3>2. CASE ~Refunding(p)
      BY <2>0, <2>2, <3>2
      DEF Refunding, At, Progress, QueryOrder, PersistTradeNo, DropOrder, Dropped, ToPaid, Confirmable,
          AlreadyProcessed, ExecuteBalanceFulfillment, AcquireLease, Leasable, ReloadLease, LookupCode, CreateCode,
          Redeem, ApplyRebate, MarkCompleted, MarkFailed, LeaseHeld, FulfilmentFails, ClaimRefund, Claimable,
          DeductBalance, GatewayRefund, MarkRefundOk, MarkRefundPending, RollbackRefund, RestoreStatus, HandleGwFail,
          FinalizePendingRefundSuccess, MarkedRefunded, FinalizeRefundFailed, Finalizable
    <3> QED
      BY <3>1, <3>2
  <2>3. CASE Pay \/ Age \/ FallDue \/ GatewaySettles \/ Spend \/ RequestRefund
    BY <2>3 DEF Pay, Age, FallDue, GatewaySettles, Spend, RequestRefund
  <2> QED
    BY <2>1, <2>2, <2>3 DEF Next, Workers
<1> QED
  BY <1>1, InvHolds, PTL DEF Spec, OrderOnlyAdvances
=============================================================================
