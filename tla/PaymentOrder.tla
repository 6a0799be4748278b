---------------------------- MODULE PaymentOrder ----------------------------
(***************************************************************************)
(* One balance recharge order: payment_fulfillment.go,                      *)
(* payment_order_lifecycle.go and payment_refund.go.  Workers are the        *)
(* goroutines of webhooks, user requests, administrators and the expiry      *)
(* sweep, of one or several server instances; each action is one statement   *)
(* or one transaction of the database, or one call of the provider.          *)
(*                                                                         *)
(* updated_at is kept as two facts: the workers whose lease carries its       *)
(* present value, and whether it is less than five minutes old, the length    *)
(* of both the fulfilment lease and the grace period after expiry.            *)
(***************************************************************************)
EXTENDS Integers, FiniteSetsExt

CONSTANTS Webhooks,   \* workers that serve the provider's notifications
          Clerks,     \* workers that serve everything else
          Jobs,       \* what clerks do: "verify", "cancel", "expire", "retry", "refund"
          Amount,     \* the amount recharged
          Faults,     \* bound: failing calls
          Crashes     \* bound: workers that die

ASSUME PaymentAssumption ==
    /\ Webhooks \cap Clerks = {}
    /\ Jobs \subseteq {"verify", "cancel", "expire", "retry", "refund"}
    /\ Amount \in Nat \ {0}
    /\ {Faults, Crashes} \subseteq Nat

VARIABLES status, owners, fresh, tradeNo, pend,   \* the order row and its pending audit
          audits,                                 \* actions in payment_audit_logs
          code, balance,                          \* the redeem code; users.balance
          due, paid, acked, gw,                   \* the clock, the provider
          worker,                                 \* what each worker is doing
          credits, rebates, held,                 \* history: grants, net deduction
          faults, crashes

order == <<status, owners, fresh, tradeNo, pend, audits>>
money == <<code, balance, credits, rebates, held>>
outside == <<due, paid, acked, gw>>
vars == <<status, owners, fresh, tradeNo, pend, audits, code, balance, due, paid, acked, gw,
          worker, credits, rebates, held, faults, crashes>>

Workers == Webhooks \cup Clerks
Payable == {"PENDING", "CANCELLED", "EXPIRED"}
Fulfillable == {"PAID", "FAILED", "RECHARGING"}
Refundable == {"COMPLETED", "REFUND_REQUESTED", "REFUND_FAILED"}
Refunded == {"REFUNDED", "PARTIALLY_REFUNDED"}
Fulfilled == Refundable \cup Refunded \cup {"REFUNDING", "REFUND_PENDING"}
Statuses == Payable \cup Fulfillable \cup Fulfilled

NoPlan == [amt |-> 0, from |-> "COMPLETED", deduct |-> 0]
Plans == [amt: 0..Amount, from: Refundable, deduct: 0..Amount]
Idle == [pc |-> "idle", job |-> "none", trade |-> FALSE, plan |-> NoPlan]
Steps == {"idle", "query", "persist", "topaid", "processed", "drop", "fulfil", "lease", "reload",
          "code", "create", "redeem", "rebate", "complete", "failed", "claim", "deduct",
          "gateway", "ok", "pending", "gwfail", "restore", "refundfailed", "finok", "finfail"}
Doing == [pc: Steps, trade: BOOLEAN, plan: Plans,
          job: {"none", "notify", "verify", "cancel", "expire", "retry", "refund"}]

TypeOK ==
    /\ status \in Statuses
    /\ owners \subseteq Workers
    /\ {fresh, tradeNo, due, paid, acked} \subseteq BOOLEAN
    /\ pend \in Plans
    /\ audits \subseteq {"PAYMENT_AFTER_EXPIRY", "REFUND_PENDING", "REFUND_FAILED",
                         "REFUND_ROLLBACK_FAILED"}
    /\ code \in {"none", "unused", "used"}
    /\ {balance, credits, rebates} \subseteq Nat /\ held \in Int
    /\ gw \in {"none", "pending", "done", "failed"}
    /\ worker \in [Workers -> Doing]
    /\ faults \in 0..Faults /\ crashes \in 0..Crashes

Init ==
    /\ status = "PENDING" /\ owners = {} /\ fresh = TRUE /\ tradeNo = FALSE
    /\ pend = NoPlan /\ audits = {}
    /\ code = "none" /\ balance = Amount
    /\ due = FALSE /\ paid = FALSE /\ acked = FALSE /\ gw = "none"
    /\ worker = [p \in Workers |-> Idle]
    /\ credits = 0 /\ rebates = 0 /\ held = 0
    /\ faults = 0 /\ crashes = 0

At(p, pc) == worker[p].pc = pc
Goto(p, pc) == worker' = [worker EXCEPT ![p].pc = pc]
Leave(p) == worker' = [worker EXCEPT ![p] = Idle]

\* A handler returns; the provider stops notifying once it is told success.
Return(p, ok) ==
    /\ Leave(p)
    /\ acked' = (acked \/ (ok /\ worker[p].job = "notify"))
    /\ UNCHANGED <<due, paid, gw>>

\* Every UPDATE of the row moves updated_at.
SetStatus(s) == status' = s /\ owners' = {} /\ fresh' = TRUE
Fault == faults < Faults /\ faults' = faults + 1

----------------------------------------------------------------------------
(* The world outside: the user pays, time passes, a pending refund ends,    *)
(* the user spends.                                                         *)

Pay == /\ ~paid /\ paid' = TRUE
       /\ UNCHANGED <<order, money, due, acked, gw, worker, faults, crashes>>

Age == /\ fresh /\ fresh' = FALSE
       /\ UNCHANGED <<status, owners, tradeNo, pend, audits, money, outside, worker, faults, crashes>>

FallDue == /\ ~due /\ due' = TRUE
           /\ UNCHANGED <<order, money, paid, acked, gw, worker, faults, crashes>>

GatewaySettles ==
    /\ gw = "pending" /\ gw' \in {"done", "failed"}
    /\ UNCHANGED <<order, money, due, paid, acked, worker, faults, crashes>>

Spend == /\ "refund" \in Jobs /\ balance > 0 /\ balance' = balance - 1
         /\ UNCHANGED <<order, code, credits, rebates, held, outside, worker, faults, crashes>>

Crash(p) ==
    /\ ~At(p, "idle") /\ crashes < Crashes
    /\ crashes' = crashes + 1
    /\ Leave(p)
    /\ UNCHANGED <<order, money, outside, faults>>

----------------------------------------------------------------------------
(* Requests.                                                                *)

Start(p, job, pc) ==
    /\ At(p, "idle")
    /\ worker' = [worker EXCEPT ![p] = [Idle EXCEPT !.pc = pc, !.job = job, !.trade = tradeNo]]
    /\ UNCHANGED <<order, money, outside, faults, crashes>>

HandlePaymentNotification(p) ==
    /\ p \in Webhooks /\ paid /\ ~acked
    /\ Start(p, "notify", "topaid")

VerifyOrder(p) ==
    /\ "verify" \in Jobs
    /\ status \in {"PENDING", "EXPIRED"}
    /\ Start(p, "verify", "query")

CancelOrder(p) ==
    /\ "cancel" \in Jobs
    /\ status = "PENDING"
    /\ Start(p, "cancel", "query")

ExpireTimedOutOrders(p) ==
    /\ "expire" \in Jobs
    /\ status = "PENDING" /\ due
    /\ Start(p, "expire", "query")

RetryFulfillment(p) ==
    /\ "retry" \in Jobs
    /\ status \in Fulfillable
    /\ Start(p, "retry", "fulfil")

\* checkPaidWithOptions: a failing query cancels all the same.
QueryOrder(p) ==
    /\ At(p, "query")
    /\ LET Unpaid == IF worker[p].job = "verify" THEN Leave(p) ELSE Goto(p, "drop") IN
       \/ /\ paid
          /\ Goto(p, IF worker[p].trade THEN "topaid" ELSE "persist")
          /\ UNCHANGED faults
       \/ ~paid /\ Unpaid /\ UNCHANGED faults
       \/ paid /\ Fault /\ Unpaid
    /\ UNCHANGED <<order, money, outside, crashes>>

PersistTradeNo(p) ==
    /\ At(p, "persist")
    /\ tradeNo' = TRUE /\ SetStatus(status)
    /\ Goto(p, "topaid")
    /\ UNCHANGED <<pend, audits, money, outside, faults, crashes>>

\* Mutant of Dropped: the update does not compare the status.
DroppedUnchecked == TRUE

\* cancelCore's conditional update
Dropped == status = "PENDING"
DropOrder(p) ==
    /\ At(p, "drop")
    /\ IF Dropped
         THEN SetStatus(IF worker[p].job = "expire" THEN "EXPIRED" ELSE "CANCELLED")
         ELSE UNCHANGED <<status, owners, fresh>>
    /\ Leave(p)
    /\ UNCHANGED <<tradeNo, pend, audits, money, outside, faults, crashes>>

----------------------------------------------------------------------------
(* Fulfilment.                                                              *)

Confirmable == status \in {"PENDING", "CANCELLED"} \/ (status = "EXPIRED" /\ fresh)

ToPaid(p) ==
    /\ At(p, "topaid")
    /\ IF Confirmable
         THEN SetStatus("PAID") /\ tradeNo' = TRUE /\ Goto(p, "fulfil")
         ELSE Goto(p, "processed") /\ UNCHANGED <<status, owners, fresh, tradeNo>>
    /\ UNCHANGED <<pend, audits, money, outside, faults, crashes>>

AlreadyProcessed(p) ==
    /\ At(p, "processed")
    /\ IF status \in Fulfillable
         THEN Goto(p, "fulfil") /\ UNCHANGED <<audits, outside>>
         ELSE /\ Return(p, TRUE)
              /\ audits' = IF status = "EXPIRED" THEN audits \cup {"PAYMENT_AFTER_EXPIRY"} ELSE audits
    /\ UNCHANGED <<status, owners, fresh, tradeNo, pend, money, faults, crashes>>

ExecuteBalanceFulfillment(p) ==
    /\ At(p, "fulfil")
    /\ IF status \in Fulfillable
         THEN Goto(p, "lease") /\ UNCHANGED outside
         ELSE Return(p, status = "COMPLETED")
    /\ UNCHANGED <<order, money, faults, crashes>>

Leasable == status \in {"PAID", "FAILED"} \/ (status = "RECHARGING" /\ ~fresh)

AcquireLease(p) ==
    /\ At(p, "lease")
    /\ IF Leasable
         THEN SetStatus("RECHARGING") /\ Goto(p, "reload") /\ UNCHANGED outside
         ELSE Return(p, status = "COMPLETED") /\ UNCHANGED <<status, owners, fresh>>
    /\ UNCHANGED <<tradeNo, pend, audits, money, faults, crashes>>

ReloadLease(p) ==
    /\ At(p, "reload")
    /\ IF status = "RECHARGING"
         THEN owners' = owners \cup {p} /\ Goto(p, "code") /\ UNCHANGED outside
         ELSE Return(p, FALSE) /\ UNCHANGED owners
    /\ UNCHANGED <<status, fresh, tradeNo, pend, audits, money, faults, crashes>>

\* resolveRedeemAction
Resolve == CASE code = "none" -> "create" [] code = "unused" -> "redeem" [] code = "used" -> "rebate"

LookupCode(p) ==
    /\ At(p, "code")
    /\ Goto(p, Resolve)
    /\ UNCHANGED <<order, money, outside, faults, crashes>>

CreateCode(p) ==
    /\ At(p, "create")
    /\ IF code = "none" THEN code' = "unused" /\ Goto(p, "redeem")
                        ELSE UNCHANGED code /\ Goto(p, "failed")
    /\ UNCHANGED <<order, balance, credits, rebates, held, outside, faults, crashes>>

\* Mutant of Redeemable: a used code is redeemed again.
RedeemableTwice == code # "none"

\* Use and UpdateBalance in one transaction; a used code is refused.
Redeemable == code = "unused"
Redeem(p) ==
    /\ At(p, "redeem")
    /\ IF Redeemable
         THEN /\ code' = "used" /\ balance' = balance + Amount /\ credits' = credits + 1
              /\ Goto(p, "rebate")
         ELSE UNCHANGED <<code, balance, credits>> /\ Goto(p, "failed")
    /\ UNCHANGED <<order, rebates, held, outside, faults, crashes>>

\* The unique audit row of the order is the claim.
RebateClaimed == rebates = 0
ApplyRebate(p) ==
    /\ At(p, "rebate")
    /\ rebates' = IF RebateClaimed THEN rebates + 1 ELSE rebates
    /\ Goto(p, "complete")
    /\ UNCHANGED <<order, code, balance, credits, held, outside, faults, crashes>>

LeaseHeld(p) == status = "RECHARGING" /\ p \in owners

MarkCompleted(p) ==
    /\ At(p, "complete")
    /\ IF LeaseHeld(p) THEN SetStatus("COMPLETED") /\ Return(p, TRUE)
       ELSE /\ UNCHANGED <<status, owners, fresh>>
            /\ IF status = "COMPLETED" THEN Return(p, TRUE)
                                       ELSE Goto(p, "failed") /\ UNCHANGED outside
    /\ UNCHANGED <<tradeNo, pend, audits, money, faults, crashes>>

MarkFailed(p) ==
    /\ At(p, "failed")
    /\ IF LeaseHeld(p) THEN SetStatus("FAILED") ELSE UNCHANGED <<status, owners, fresh>>
    /\ Return(p, FALSE)
    /\ UNCHANGED <<tradeNo, pend, audits, money, faults, crashes>>

FulfilmentFails(p) ==
    /\ worker[p].pc \in {"code", "create", "redeem", "rebate", "complete"}
    /\ Fault /\ Goto(p, "failed")
    /\ UNCHANGED <<order, money, outside, crashes>>

----------------------------------------------------------------------------
(* Refunds.                                                                 *)

RequestRefund ==
    /\ "refund" \in Jobs
    /\ status = "COMPLETED" /\ balance >= Amount
    /\ SetStatus("REFUND_REQUESTED")
    /\ UNCHANGED <<tradeNo, pend, audits, money, outside, worker, faults, crashes>>

\* An administrator may ask for no deduction, and force one the balance cannot cover.
PrepareRefund(p) ==
    /\ "refund" \in Jobs /\ At(p, "idle")
    /\ status \in Refundable
    /\ \E amt \in 1..Amount, deduct \in BOOLEAN :
         worker' = [worker EXCEPT ![p] =
             [Idle EXCEPT !.pc = "claim", !.job = "refund",
                          !.plan = [amt |-> amt, from |-> status,
                                    deduct |-> IF deduct THEN Min({amt, balance}) ELSE 0]]]
    /\ UNCHANGED <<order, money, outside, faults, crashes>>

Claimable == status \in Refundable
ClaimRefund(p) ==
    /\ At(p, "claim")
    /\ IF Claimable THEN SetStatus("REFUNDING") /\ Goto(p, "deduct")
       ELSE Leave(p) /\ UNCHANGED <<status, owners, fresh>>
    /\ UNCHANGED <<tradeNo, pend, audits, money, outside, faults, crashes>>

\* What an earlier attempt could not give back is not taken again.
ToDeduct(p) ==
    IF "REFUND_ROLLBACK_FAILED" \in audits THEN 0 ELSE Min({worker[p].plan.deduct, balance})

DeductBalance(p) ==
    /\ At(p, "deduct")
    /\ \/ /\ worker' = [worker EXCEPT ![p].pc = "gateway", ![p].plan.deduct = ToDeduct(p)]
          /\ balance' = balance - ToDeduct(p) /\ held' = held + ToDeduct(p)
          /\ UNCHANGED faults
       \/ Fault /\ Goto(p, "restore") /\ UNCHANGED <<balance, held>>
    /\ UNCHANGED <<order, code, credits, rebates, outside, crashes>>

\* The provider knows the refund by the order: one it has made is not made twice.
GatewayRefund(p) ==
    /\ At(p, "gateway")
    /\ \/ gw' = "done" /\ Goto(p, "ok")
       \/ gw # "done" /\ gw' = "pending" /\ Goto(p, "pending")
       \/ gw \in {"none", "failed"} /\ UNCHANGED gw /\ Goto(p, "gwfail")
    /\ UNCHANGED <<order, money, due, paid, acked, faults, crashes>>

MarkedRefunded(amt) == SetStatus(IF amt < Amount THEN "PARTIALLY_REFUNDED" ELSE "REFUNDED")

MarkRefundOk(p) ==
    /\ At(p, "ok")
    /\ MarkedRefunded(worker[p].plan.amt) /\ Leave(p)
    /\ UNCHANGED <<tradeNo, pend, audits, money, outside, faults, crashes>>

\* payment_audit_logs has a unique index on (order_id, action).
Auditable(action) == action \notin audits

MarkRefundPending(p) ==
    /\ At(p, "pending")
    /\ IF Auditable("REFUND_PENDING")
         THEN /\ SetStatus("REFUND_PENDING")
              /\ pend' = worker[p].plan /\ audits' = audits \cup {"REFUND_PENDING"}
         ELSE UNCHANGED <<status, owners, fresh, pend, audits>>
    /\ Leave(p)
    /\ UNCHANGED <<tradeNo, money, outside, faults, crashes>>

\* Mutant of GiveBack: the deducted balance is not given back.
GiveBackNothing(amount) == UNCHANGED <<balance, held>>

GiveBack(amount) == balance' = balance + amount /\ held' = held - amount

RollbackRefund(p) ==
    /\ At(p, "gwfail")
    /\ \/ GiveBack(worker[p].plan.deduct) /\ Goto(p, "restore") /\ UNCHANGED <<faults, audits>>
       \/ /\ worker[p].plan.deduct > 0 /\ Fault
          /\ audits' = audits \cup {"REFUND_ROLLBACK_FAILED"}
          /\ Goto(p, "refundfailed") /\ UNCHANGED <<balance, held>>
    /\ UNCHANGED <<status, owners, fresh, tradeNo, pend, code, credits, rebates, outside, crashes>>

RestoreStatus(p) ==
    /\ At(p, "restore")
    /\ SetStatus(IF worker[p].plan.from = "REFUND_REQUESTED" THEN "REFUND_REQUESTED" ELSE "COMPLETED")
    /\ Leave(p)
    /\ UNCHANGED <<tradeNo, pend, audits, money, outside, faults, crashes>>

HandleGwFail(p) ==
    /\ At(p, "refundfailed")
    /\ SetStatus("REFUND_FAILED") /\ audits' = audits \cup {"REFUND_FAILED"}
    /\ Leave(p)
    /\ UNCHANGED <<tradeNo, pend, money, outside, faults, crashes>>

QueryAndFinalizeRefund(p) ==
    /\ "refund" \in Jobs
    /\ status = "REFUND_PENDING" /\ gw # "pending"
    /\ Start(p, "refund", IF gw = "done" THEN "finok" ELSE "finfail")

Finalizable == status = "REFUND_PENDING"

FinalizePendingRefundSuccess(p) ==
    /\ At(p, "finok")
    /\ IF Finalizable THEN MarkedRefunded(pend.amt) ELSE UNCHANGED <<status, owners, fresh>>
    /\ Leave(p)
    /\ UNCHANGED <<tradeNo, pend, audits, money, outside, faults, crashes>>

FinalizeRefundFailed(p) ==
    /\ At(p, "finfail")
    /\ Leave(p)
    /\ IF ~Finalizable \/ ~Auditable("REFUND_FAILED")
         THEN UNCHANGED <<order, balance, held, faults>>
         ELSE /\ SetStatus("REFUND_FAILED")
              /\ \/ /\ GiveBack(pend.deduct)
                    /\ audits' = audits \cup {"REFUND_FAILED"} /\ UNCHANGED faults
                 \/ /\ pend.deduct > 0 /\ Fault
                    /\ audits' = audits \cup {"REFUND_FAILED", "REFUND_ROLLBACK_FAILED"}
                    /\ UNCHANGED <<balance, held>>
              /\ UNCHANGED <<tradeNo, pend>>
    /\ UNCHANGED <<code, credits, rebates, outside, crashes>>

----------------------------------------------------------------------------
Requested(p) ==
    \/ VerifyOrder(p) \/ CancelOrder(p) \/ ExpireTimedOutOrders(p) \/ RetryFulfillment(p)
    \/ PrepareRefund(p) \/ QueryAndFinalizeRefund(p)

Progress(p) ==
    \/ QueryOrder(p) \/ PersistTradeNo(p) \/ DropOrder(p)
    \/ ToPaid(p) \/ AlreadyProcessed(p) \/ ExecuteBalanceFulfillment(p)
    \/ AcquireLease(p) \/ ReloadLease(p) \/ LookupCode(p) \/ CreateCode(p) \/ Redeem(p)
    \/ ApplyRebate(p) \/ MarkCompleted(p) \/ MarkFailed(p) \/ FulfilmentFails(p)
    \/ ClaimRefund(p) \/ DeductBalance(p) \/ GatewayRefund(p) \/ MarkRefundOk(p)
    \/ MarkRefundPending(p) \/ RollbackRefund(p) \/ RestoreStatus(p) \/ HandleGwFail(p)
    \/ FinalizePendingRefundSuccess(p) \/ FinalizeRefundFailed(p)

Next ==
    \/ Pay \/ Age \/ FallDue \/ GatewaySettles \/ Spend \/ RequestRefund
    \/ \E p \in Workers : HandlePaymentNotification(p) \/ Progress(p) \/ Crash(p)
    \/ \E p \in Clerks : Requested(p)

Spec == Init /\ [][Next]_vars

----------------------------------------------------------------------------
\* Webhooks, reconciliation, lease takeovers and dead workers grant one order
\* once: the balance once, the inviter's rebate once, and before it is completed
\* (payment_fulfillment.go).
CreditedOnce ==
    /\ credits <= 1 /\ rebates <= 1
    /\ status \in Fulfilled => credits = 1 /\ rebates = 1

\* A paid order is never cancelled or expired under the worker fulfilling it, a
\* worker that lost its lease never takes a fulfilled order back, and a refunded
\* order stays refunded: the conditions of the UPDATEs of all three files.
OnlyAdvances ==
    /\ status \notin Payable => status' \notin Payable
    /\ status \in Fulfilled => status' \in Fulfilled
    /\ status \in Refunded => status' = status
OrderOnlyAdvances == [][OnlyAdvances]_vars

\* Retried, concurrent and finalized refunds never take more than the order gave;
\* what a refund took is kept only while the refund is open or was made, or the
\* order says that it could not be given back; and an order says refunded only
\* when the provider made the refund (payment_refund.go).
RefundsAccounted ==
    /\ held <= Amount
    /\ held > 0 => \/ status \in Refunded \cup {"REFUNDING", "REFUND_PENDING"}
                   \/ "REFUND_ROLLBACK_FAILED" \in audits
    /\ status \in Refunded => gw = "done"

\* A payment the provider reports is granted, unless it came after the grace
\* period and the order says so.
PaymentSettles == paid ~> (status \in Fulfilled \/ "PAYMENT_AFTER_EXPIRY" \in audits)
=============================================================================
