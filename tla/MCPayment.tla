------------------------------ MODULE MCPayment ------------------------------
(***************************************************************************)
(* Payment for TLC: the order on the server (PaymentOrder) and its pages in  *)
(* the browser (PaymentCheckout).  The pages know of an order only the       *)
(* status they are answered with, so the two share no variable and what one  *)
(* does never depends on the other: it is enough to let one run at a time.   *)
(* part says which runs, and with which parameters: "partial" has those of   *)
(* the configuration, partial refunds of a user who spends meanwhile.        *)
(***************************************************************************)
EXTENDS PaymentOrder, TLC

CONSTANTS h, one, a, b, None   \* a and b are interchangeable clerks, tabs or orders

VARIABLES part,
          server, paidOrders, late, snapshot, page, shown, push, panel, making, sheet, loop, visit,
          lost, settled, crossed

\* A webhook, two more requests or expiry sweeps: three workers on one order.
Fulfil == INSTANCE PaymentOrder WITH
    Webhooks <- {h}, Clerks <- {a, b}, Jobs <- {"verify", "expire"},
    Amount <- 1, Faults <- 0, Crashes <- 0
\* Two administrators refund it while the provider fails and a worker dies.
Refunds == INSTANCE PaymentOrder WITH
    Webhooks <- {h}, Clerks <- {a, b}, Jobs <- {"refund"}, Amount <- 1, Faults <- 1, Crashes <- 1
\* Two workers, calls that fail and one of the workers dies.
Takeover == INSTANCE PaymentOrder WITH
    Webhooks <- {h}, Clerks <- {one}, Jobs <- {"verify", "cancel", "expire", "retry"},
    Amount <- 1, Faults <- 1, Crashes <- 1

\* One tab, two orders; with failing requests, and with the result page.
Panels == INSTANCE PaymentCheckout WITH
    Tabs <- {one}, Orders <- {a, b}, Verifies <- 1, Refreshes <- 1, Visits <- 0, Faults <- 1,
    paid <- paidOrders, faults <- lost
Results == INSTANCE PaymentCheckout WITH
    Tabs <- {one}, Orders <- {a, b}, Verifies <- 0, Refreshes <- 0, Visits <- 1, Faults <- 0,
    paid <- paidOrders, faults <- lost
\* Two tabs on one order.
Twin == INSTANCE PaymentCheckout WITH
    Tabs <- {a, b}, Orders <- {one}, Verifies <- 1, Refreshes <- 0, Visits <- 0, Faults <- 0,
    paid <- paidOrders, faults <- lost

ASSUME /\ Fulfil!PaymentAssumption /\ Takeover!PaymentAssumption
       /\ Refunds!PaymentAssumption
       /\ Panels!CheckoutAssumption /\ Results!CheckoutAssumption /\ Twin!CheckoutAssumption

checkout == <<server, paidOrders, late, snapshot, page, shown, push, panel, making, sheet, loop,
              visit, lost, settled, crossed>>
allVars == <<part, vars, checkout>>

MCInit ==
    \/ part = "fulfil" /\ Fulfil!Init /\ Panels!Init
    \/ part = "takeover" /\ Takeover!Init /\ Panels!Init
    \/ part = "refund" /\ Refunds!Init /\ Panels!Init
    \/ part = "partial" /\ Init /\ Panels!Init
    \/ part = "panels" /\ Fulfil!Init /\ Panels!Init
    \/ part = "results" /\ Fulfil!Init /\ Results!Init
    \/ part = "twin" /\ Fulfil!Init /\ Twin!Init

MCNext ==
    \/ part = "fulfil" /\ Fulfil!Next /\ UNCHANGED <<part, checkout>>
    \/ part = "takeover" /\ Takeover!Next /\ UNCHANGED <<part, checkout>>
    \/ part = "refund" /\ Refunds!Next /\ UNCHANGED <<part, checkout>>
    \/ part = "partial" /\ Next /\ UNCHANGED <<part, checkout>>
    \/ part = "panels" /\ Panels!Next /\ UNCHANGED <<part, vars>>
    \/ part = "results" /\ Results!Next /\ UNCHANGED <<part, vars>>
    \/ part = "twin" /\ Twin!Next /\ UNCHANGED <<part, vars>>

MCSpec == MCInit /\ [][MCNext]_allVars

Symmetry == Permutations({a, b})

-----------------------------------------------------------------------------
(* Properties of the pages; those of the order are PaymentOrder's.           *)

\* Panels tell the user the truth: of a success only when the provider has been paid
\* for the order, and of a cancellation only when no order is left that the user
\* could still be asked to pay (PaymentStatusPanel.vue, handleCancel).
PanelsTruthful ==
    IF part = "twin" THEN Twin!TypeOK /\ Twin!SuccessIsPaid /\ Twin!CancelledIsClosed
    ELSE Panels!SuccessIsPaid /\ Panels!CancelledIsClosed

\* An order some panel settled is never offered for recovery again, in any tab; and in
\* one tab, while a panel waits for an open order, a reload would find the order again:
\* the snapshot is its own, unless another order's result page has removed it
\* (writePaymentRecoverySnapshot, clearPaymentRecoverySnapshot).  Tabs share the
\* snapshot, and of several the last one that writes keeps it.
RecoveryRight ==
    /\ Panels!SettledForgotten
    /\ part = "panels" => Panels!TypeOK /\ Panels!RecoveryKept
    /\ part = "results" => Results!TypeOK /\ Panels!RecoveryKept
=============================================================================
