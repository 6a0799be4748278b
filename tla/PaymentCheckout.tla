-------------------------- MODULE PaymentCheckout --------------------------
(***************************************************************************)
(* The browser's side of a payment: PaymentView.vue, PaymentStatusPanel.vue *)
(* and PaymentResultView.vue, in the tabs of one browser.  The tabs share    *)
(* one recovery snapshot in localStorage; each tab shows one page, and its   *)
(* requests outlive the page that sent them.                                 *)
(*                                                                         *)
(* The order service is kept to the status it answers with; PaymentOrder      *)
(* models how it gets there.  PAID stands for the three statuses the pages    *)
(* call a success (PAID, RECHARGING, COMPLETED).                              *)
(***************************************************************************)
EXTENDS Integers, FiniteSets

CONSTANTS Tabs, Orders,
          None,        \* no order
          Verifies,    \* VERIFY_RETRY_MAX_ATTEMPTS
          Refreshes,   \* STATUS_REFRESH_MAX_ATTEMPTS
          Visits,      \* bound: openings of the result page in each tab
          Faults       \* bound: requests that fail, and reloads

CheckoutAssumption ==
    /\ None \notin Orders
    /\ {Verifies, Refreshes, Visits, Faults} \subseteq Nat

VARIABLES server, paid, late,     \* the order service, the provider, the clock
          snapshot,               \* localStorage: PAYMENT_RECOVERY_STORAGE_KEY
          page, shown, push,      \* each tab's route, paymentState.orderId, router.push under way
          panel,                  \* the mounted PaymentStatusPanel
          making, sheet,          \* createOrder under way; the open WeChat payment sheet
          loop, visit,            \* PaymentResultView's refresh, one for each opening
          faults,
          settled, crossed        \* history: orders a panel settled; a foreign snapshot removed

backend == <<server, paid, late>>
route == <<page, shown, push>>
vars == <<server, paid, late, snapshot, page, shown, push, panel, making, sheet, loop, visit,
          faults, settled, crossed>>

Statuses == {"PENDING", "PAID", "FAILED", "CANCELLED", "EXPIRED"}
Outcomes == {"success", "cancelled", "expired"}
NewPanel == [outcome |-> "none", poll |-> "idle", seen |-> "PENDING", cancel |-> "idle",
             left |-> Verifies]
NotMaking == [at |-> "idle", order |-> None, live |-> TRUE, fallback |-> FALSE]
NoSheet == [order |-> None, live |-> TRUE, fallback |-> FALSE]
NoLoop == [at |-> "off", order |-> None, pending |-> FALSE, seen |-> "PENDING", left |-> 0]

TypeOK ==
    /\ server \in [Orders -> Statuses \cup {"new"}]
    /\ paid \subseteq Orders /\ late \subseteq Orders /\ settled \subseteq Orders
    /\ snapshot \in Orders \cup {None}
    /\ page \in [Tabs -> {"away", "loading", "select", "paying", "result"}]
    /\ shown \in [Tabs -> Orders \cup {None}] /\ push \in [Tabs -> Orders \cup {None}]
    /\ panel \in [Tabs -> [outcome: Outcomes \cup {"none"}, poll: {"idle", "get", "got", "verify", "done"},
                           seen: Statuses, cancel: {"idle", "sent", "ok", "refused"}, left: 0..Verifies]]
    /\ making \in [Tabs -> [at: {"idle", "sent", "made"}, order: Orders \cup {None}, live: BOOLEAN,
                            fallback: BOOLEAN]]
    /\ sheet \in [Tabs -> [order: Orders \cup {None}, live: BOOLEAN, fallback: BOOLEAN]]
    /\ loop \in [Tabs -> [1..Visits -> [at: {"off", "timer", "sent", "read"}, order: Orders \cup {None},
                                        pending: BOOLEAN, seen: Statuses, left: 0..Refreshes]]]
    /\ visit \in [Tabs -> 0..Visits] /\ faults \in 0..Faults /\ crossed \in BOOLEAN

Init ==
    /\ server = [o \in Orders |-> "new"] /\ paid = {} /\ late = {} /\ settled = {}
    /\ snapshot = None /\ crossed = FALSE /\ faults = Faults
    /\ page = [t \in Tabs |-> "away"]
    /\ shown = [t \in Tabs |-> None] /\ push = [t \in Tabs |-> None]
    /\ panel = [t \in Tabs |-> NewPanel]
    /\ making = [t \in Tabs |-> NotMaking] /\ sheet = [t \in Tabs |-> NoSheet]
    /\ loop = [t \in Tabs |-> [v \in 1..Visits |-> NoLoop]] /\ visit = [t \in Tabs |-> 0]

Fault == faults > 0 /\ faults' = faults - 1

-----------------------------------------------------------------------------
(* The order service, the provider and the clock.                            *)

Become(o, s) == server' = [server EXCEPT ![o] = s]

\* The user pays at the provider, which accepts money for an order it has not closed.
Pay(o) ==
    /\ server[o] # "new" /\ o \notin paid /\ \A t \in Tabs : making[t].order # o
    /\ paid' = paid \cup {o}
    /\ UNCHANGED <<server, late, snapshot, route, panel, making, sheet, loop, visit, faults, settled, crossed>>

\* The order's expires_at passes.
Deadline(o) ==
    /\ server[o] # "new" /\ o \notin late
    /\ late' = late \cup {o}
    /\ UNCHANGED <<server, paid, snapshot, route, panel, making, sheet, loop, visit, faults, settled, crossed>>

\* toPaid: a notification also revives a cancelled order, and an expired one for a while.
Webhook(o) ==
    /\ o \in paid /\ server[o] \in {"PENDING", "CANCELLED", "EXPIRED"}
    /\ Become(o, "PAID")
    /\ UNCHANGED <<paid, late, snapshot, route, panel, making, sheet, loop, visit, faults, settled, crossed>>

\* Crediting fails, or a retry of it succeeds.
Fulfil(o) ==
    /\ server[o] \in {"PAID", "FAILED"}
    /\ Become(o, IF server[o] = "PAID" THEN "FAILED" ELSE "PAID")
    /\ UNCHANGED <<paid, late, snapshot, route, panel, making, sheet, loop, visit, faults, settled, crossed>>

\* cancelCore of a pending order: the provider is asked first; when it cannot tell, the order closes.
Close(o, s) ==
    /\ server[o] = "PENDING"
    /\ \/ o \in paid /\ Become(o, "PAID")
       \/ Become(o, s)

\* An administrator (or a page that is gone) cancels the order, or the sweep expires it.
CloseOrder(o) ==
    /\ Close(o, "CANCELLED") \/ (o \in late /\ Close(o, "EXPIRED"))
    /\ UNCHANGED <<paid, late, snapshot, route, panel, making, sheet, loop, visit, faults, settled, crossed>>

Service(o) == Pay(o) \/ Deadline(o) \/ Webhook(o) \/ Fulfil(o) \/ CloseOrder(o)

-----------------------------------------------------------------------------
(* Pages of a tab.                                                           *)

\* The payment sheet covers the page: the user touches nothing under it.
Touchable(t) == sheet[t].order = None

\* Leaving PaymentView or PaymentResultView: their timers stop, their requests do not.
Leave(t) ==
    /\ panel' = [panel EXCEPT ![t] = NewPanel]
    /\ making' = [making EXCEPT ![t].live = (making[t].at = "idle")]
    /\ sheet' = [sheet EXCEPT ![t].live = Touchable(t)]

StopTimer(t) ==
    [v \in 1..Visits |-> IF v = visit[t] /\ page[t] = "result" /\ loop[t][v].at = "timer"
                         THEN NoLoop ELSE loop[t][v]]

NavigateAway(t) ==
    /\ Touchable(t) /\ page[t] # "away"
    /\ page' = [page EXCEPT ![t] = "away"]
    /\ Leave(t)
    /\ loop' = [loop EXCEPT ![t] = StopTimer(t)]
    /\ UNCHANGED <<backend, snapshot, shown, push, visit, faults, settled, crossed>>

\* A reload, or a redirect out of the application: everything the tab ran is gone.
Unload(t) ==
    /\ page' = [page EXCEPT ![t] = "away"]
    /\ shown' = [shown EXCEPT ![t] = None] /\ push' = [push EXCEPT ![t] = None]
    /\ panel' = [panel EXCEPT ![t] = NewPanel]
    /\ making' = [making EXCEPT ![t] = NotMaking] /\ sheet' = [sheet EXCEPT ![t] = NoSheet]
    /\ loop' = [loop EXCEPT ![t] = [v \in 1..Visits |-> NoLoop]]

Reload(t) ==
    /\ Fault /\ Unload(t)
    /\ UNCHANGED <<backend, snapshot, visit, settled, crossed>>

\* PaymentView mounts and asks for the checkout information.  (Bound: one createOrder in a tab.)
OpenPurchase(t) ==
    /\ Touchable(t) /\ page[t] = "away" /\ making[t].at = "idle"
    /\ page' = [page EXCEPT ![t] = "loading"]
    /\ UNCHANGED <<backend, snapshot, shown, push, panel, making, sheet, loop, visit, faults, settled, crossed>>

\* readPaymentRecoverySnapshot: nothing, or a snapshot that has not expired.
Restorable == IF snapshot \in late THEN None ELSE snapshot

\* onMounted goes on: the snapshot is taken up, or removed when it is of no use.
Restore(t) ==
    /\ page[t] = "loading"
    /\ shown' = [shown EXCEPT ![t] = Restorable]
    /\ page' = [page EXCEPT ![t] = IF Restorable = None THEN "select" ELSE "paying"]
    /\ snapshot' = Restorable
    /\ UNCHANGED <<backend, push, panel, making, sheet, loop, visit, faults, settled, crossed>>

\* The checkout information cannot be had: an error, and the form without the snapshot.
RestoreFails(t) ==
    /\ page[t] = "loading" /\ Fault
    /\ page' = [page EXCEPT ![t] = "select"] /\ shown' = [shown EXCEPT ![t] = None]
    /\ UNCHANGED <<backend, snapshot, push, panel, making, sheet, loop, visit, settled, crossed>>

\* The result page, for the order of its address: by router.push, or back from a provider.
ShowResult(t, o) ==
    /\ visit[t] < Visits
    /\ page' = [page EXCEPT ![t] = "result"]
    /\ visit' = [visit EXCEPT ![t] = @ + 1]
    /\ loop' = [loop EXCEPT ![t] = [StopTimer(t) EXCEPT
                   ![visit[t] + 1] = [NoLoop EXCEPT !.at = "sent", !.order = o, !.left = Refreshes]]]

OpenResult(t, o) ==
    /\ page[t] = "away" /\ Touchable(t) /\ server[o] # "new"
    /\ ShowResult(t, o)
    /\ UNCHANGED <<backend, snapshot, shown, push, panel, making, sheet, faults, settled, crossed>>

Push(t) ==
    /\ push[t] # None /\ ShowResult(t, push[t]) /\ Leave(t)
    /\ push' = [push EXCEPT ![t] = None]
    /\ UNCHANGED <<backend, snapshot, shown, faults, settled, crossed>>

-----------------------------------------------------------------------------
(* createOrder and the launches it decides on.                               *)

Fresh == {o \in Orders : server[o] = "new" /\ \A t \in Tabs : making[t].order # o}

Submit(t) ==
    /\ page[t] = "select" /\ making[t].at = "idle" /\ Touchable(t)
    /\ \E o \in Fresh : making' = [making EXCEPT ![t] = [NotMaking EXCEPT !.at = "sent", !.order = o]]
    /\ UNCHANGED <<backend, snapshot, route, panel, sheet, loop, visit, faults, settled, crossed>>

OrderCreated(t) ==
    /\ making[t].at = "sent"
    /\ making' = [making EXCEPT ![t].at = "made"]
    /\ Become(making[t].order, "PENDING")
    /\ UNCHANGED <<paid, late, snapshot, route, panel, sheet, loop, visit, faults, settled, crossed>>

\* attemptMobileQrFallback: one more order, for a QR code, unless this was it or the tab is no phone.
Fallback(t, was) ==
    \/ making' = [making EXCEPT ![t] = NotMaking]
    \/ /\ ~was.fallback
       /\ \E o \in Fresh :
             making' = [making EXCEPT ![t] = [at |-> "sent", order |-> o, live |-> was.live,
                                              fallback |-> TRUE]]

\* The request fails, before or after the server has the order.
CreateFails(t) ==
    /\ making[t].at \in {"sent", "made"} /\ Fault
    /\ Fallback(t, making[t])
    /\ UNCHANGED <<backend, snapshot, route, panel, sheet, loop, visit, settled, crossed>>

\* paymentState, paymentPhase = 'paying' and the snapshot; a view that is gone shows nothing.
Enter(t, o) ==
    /\ snapshot' = o
    /\ IF making[t].live
       THEN /\ page' = [page EXCEPT ![t] = "paying"] /\ shown' = [shown EXCEPT ![t] = o]
            /\ panel' = [panel EXCEPT ![t] = NewPanel]
       ELSE UNCHANGED <<page, shown, panel>>

\* qr_waiting, stripe_popup, and redirect_waiting in a popup.
LaunchWaiting(t) ==
    /\ making[t].at = "made"
    /\ Enter(t, making[t].order)
    /\ making' = [making EXCEPT ![t] = NotMaking]
    /\ UNCHANGED <<backend, push, sheet, loop, visit, faults, settled, crossed>>

\* wechat_jsapi: the sheet opens over the panel.
LaunchSheet(t) ==
    /\ making[t].at = "made" /\ ~making[t].fallback
    /\ Enter(t, making[t].order)
    /\ sheet' = [sheet EXCEPT ![t] = [order |-> making[t].order, live |-> making[t].live,
                                      fallback |-> FALSE]]
    /\ making' = [making EXCEPT ![t] = NotMaking]
    /\ UNCHANGED <<backend, push, loop, visit, faults, settled, crossed>>

\* stripe_route, airwallex_route, and redirect_waiting on a phone: the page goes to the provider.
LaunchRedirect(t) ==
    /\ making[t].at = "made" /\ ~making[t].fallback
    /\ snapshot' = making[t].order
    /\ Unload(t)
    /\ UNCHANGED <<backend, visit, faults, settled, crossed>>

\* wechat_oauth or unhandled: no payment page, no snapshot.
LaunchNothing(t) ==
    /\ making[t].at = "made"
    /\ making' = [making EXCEPT ![t] = NotMaking]
    /\ UNCHANGED <<backend, snapshot, route, panel, sheet, loop, visit, faults, settled, crossed>>

\* resetPayment
Reset(t, live) ==
    /\ snapshot' = None
    /\ IF live
       THEN /\ page' = [page EXCEPT ![t] = "select"] /\ shown' = [shown EXCEPT ![t] = None]
            /\ panel' = [panel EXCEPT ![t] = NewPanel]
       ELSE UNCHANGED <<page, shown, panel>>

\* The sheet answers: paid (the result page follows), cancelled by the user, or failed.
SheetCloses(t) ==
    /\ ~Touchable(t)
    /\ Reset(t, sheet[t].live)
    /\ sheet' = [sheet EXCEPT ![t] = NoSheet]
    /\ \/ sheet[t].order \in paid /\ push' = [push EXCEPT ![t] = sheet[t].order] /\ UNCHANGED making
       \/ sheet[t].order \notin paid /\ UNCHANGED push /\ Fallback(t, sheet[t])
    /\ UNCHANGED <<backend, loop, visit, faults, settled, crossed>>

-----------------------------------------------------------------------------
(* PaymentStatusPanel.                                                       *)

Polling(t) == page[t] = "paying" /\ shown[t] # None
Active(t) == Polling(t) /\ panel[t].outcome = "none"

\* Mutant of Settle: the snapshot of a settled order stays.
SettleKeeping(t, next, cancel) ==
    /\ panel' = [panel EXCEPT ![t].outcome = next, ![t].poll = "idle", ![t].cancel = cancel]
    /\ settled' = settled \cup {shown[t]}
    /\ UNCHANGED snapshot
\* setOutcome and what PaymentView does on 'settled': the snapshot goes, whosever it is.
Settle(t, next, cancel) ==
    /\ panel' = [panel EXCEPT ![t].outcome = next, ![t].poll = "idle", ![t].cancel = cancel]
    /\ settled' = settled \cup {shown[t]}
    /\ snapshot' = IF panel[t].outcome = next THEN snapshot ELSE None

\* The 3 second timer, unless a poll is in flight.
PollStatus(t) ==
    /\ Active(t) /\ panel[t].poll = "idle"
    /\ panel' = [panel EXCEPT ![t].poll = "get"]
    /\ UNCHANGED <<backend, snapshot, route, making, sheet, loop, visit, faults, settled, crossed>>

GetOrder(t) ==
    /\ Polling(t) /\ panel[t].poll = "get"
    /\ panel' = [panel EXCEPT ![t].poll = "got", ![t].seen = server[shown[t]]]
    /\ UNCHANGED <<backend, snapshot, route, making, sheet, loop, visit, faults, settled, crossed>>

\* tryRecoverPendingOrder: Alipay and WeChat orders are verified a few times.
TryRecoverPendingOrder(t) ==
    /\ Active(t) /\ panel[t].poll = "got" /\ panel[t].seen = "PENDING"
    /\ panel[t].left > 0
    /\ panel' = [panel EXCEPT ![t].poll = "verify", ![t].left = @ - 1]
    /\ UNCHANGED <<backend, snapshot, route, making, sheet, loop, visit, faults, settled, crossed>>

\* VerifyOrderByOutTradeNo asks the provider about a pending or expired order.
VerifyOrder(t) ==
    /\ Polling(t) /\ panel[t].poll = "verify"
    /\ LET o == shown[t] IN
         /\ IF o \in paid /\ server[o] \in {"PENDING", "EXPIRED"} THEN Become(o, "PAID") ELSE UNCHANGED server
         /\ panel' = [panel EXCEPT ![t].poll = "done", ![t].seen = server'[o]]
    /\ UNCHANGED <<paid, late, snapshot, route, making, sheet, loop, visit, faults, settled, crossed>>

\* A request of the poll fails: a failed look-up ends it, a failed verification keeps what it had.
PollFails(t) ==
    /\ Polling(t) /\ panel[t].poll \in {"get", "verify"} /\ Fault
    /\ panel' = [panel EXCEPT ![t].poll = IF @ = "get" THEN "idle" ELSE "done"]
    /\ UNCHANGED <<backend, snapshot, route, making, sheet, loop, visit, settled, crossed>>

\* Mutant of OutcomeOf: a pending order counts as paid.
OutcomeOfAny(s) == IF s = "PENDING" THEN "success" ELSE "expired"
OutcomeOf(s) ==
    CASE s = "PAID" -> "success"
      [] s = "CANCELLED" -> "cancelled"
      [] s \in {"EXPIRED", "FAILED"} -> "expired"
      [] OTHER -> "none"

\* Mutant of PollDone: the flag of a running poll stays set when its answer decides nothing.
PollDoneOnce(t) ==
    /\ Polling(t) /\ panel[t].poll \in {"got", "done"}
    /\ panel[t].outcome = "none" /\ OutcomeOf(panel[t].seen) # "none"
    /\ Settle(t, OutcomeOf(panel[t].seen), panel[t].cancel)
    /\ UNCHANGED <<backend, route, making, sheet, loop, visit, faults, crossed>>
\* The poll ends.  A panel that has its outcome ignores it; a success goes to the result page.
PollDone(t) ==
    /\ Polling(t) /\ panel[t].poll \in {"got", "done"}
    /\ LET next == OutcomeOf(panel[t].seen) IN
         IF panel[t].outcome # "none" \/ next = "none"
         THEN panel' = [panel EXCEPT ![t].poll = "idle"] /\ UNCHANGED <<snapshot, push, settled>>
         ELSE /\ Settle(t, next, panel[t].cancel)
              /\ push' = [push EXCEPT ![t] = IF next = "success" THEN shown[t] ELSE @]
    /\ UNCHANGED <<backend, page, shown, making, sheet, loop, visit, faults, crossed>>

\* The countdown reaches zero (startCountdown, at mount or at a tick).
CountdownEnds(t) ==
    /\ Active(t) /\ shown[t] \in late
    /\ Settle(t, "expired", panel[t].cancel)
    /\ UNCHANGED <<backend, route, making, sheet, loop, visit, faults, crossed>>

HandleCancel(t) ==
    /\ Active(t) /\ panel[t].cancel = "idle" /\ Touchable(t)
    /\ panel' = [panel EXCEPT ![t].cancel = "sent"]
    /\ UNCHANGED <<backend, snapshot, route, making, sheet, loop, visit, faults, settled, crossed>>

\* CancelOrder answers 200 both for a cancelled order and for one it found paid.
CancelOrder(t) ==
    /\ Polling(t) /\ panel[t].cancel = "sent"
    /\ LET o == shown[t] IN
         IF server[o] = "PENDING"
         THEN Close(o, "CANCELLED") /\ panel' = [panel EXCEPT ![t].cancel = "ok"]
         ELSE panel' = [panel EXCEPT ![t].cancel = "refused"] /\ UNCHANGED server
    /\ UNCHANGED <<paid, late, snapshot, route, making, sheet, loop, visit, faults, settled, crossed>>

CancelLost(t) ==
    /\ Polling(t) /\ panel[t].cancel = "sent" /\ Fault
    /\ panel' = [panel EXCEPT ![t].cancel = "refused"]
    /\ UNCHANGED <<backend, snapshot, route, making, sheet, loop, visit, settled, crossed>>

\* handleCancel goes on, whatever the panel's outcome is by now.
CancelAnswered(t) ==
    /\ Polling(t) /\ panel[t].cancel \in {"ok", "refused"}
    /\ IF panel[t].cancel = "ok"
       THEN Settle(t, "cancelled", "idle")
       ELSE panel' = [panel EXCEPT ![t].cancel = "idle"] /\ UNCHANGED <<snapshot, settled>>
    /\ UNCHANGED <<backend, route, making, sheet, loop, visit, faults, crossed>>

\* The button of a settled panel, and of the Alipay fallback: onPaymentDone.
HandleDone(t) ==
    /\ Polling(t) /\ Touchable(t)
    /\ Reset(t, TRUE)
    /\ UNCHANGED <<backend, push, making, sheet, loop, visit, faults, settled, crossed>>

-----------------------------------------------------------------------------
(* PaymentResultView.                                                        *)

\* The order is looked up; by resume token or trade number the provider may be asked too.
ResultRead(t, v) ==
    /\ loop[t][v].at = "sent"
    /\ LET o == loop[t][v].order IN
         /\ \/ UNCHANGED server
            \/ o \in paid /\ server[o] \in {"PENDING", "EXPIRED"} /\ Become(o, "PAID")
         /\ loop' = [loop EXCEPT ![t][v].at = "read", ![t][v].seen = server'[o]]
    /\ UNCHANGED <<paid, late, snapshot, route, panel, making, sheet, visit, faults, settled, crossed>>

\* The reply: a status that is not pending removes the snapshot, a pending one is asked again.
ResultShown(t, v) ==
    /\ loop[t][v].at = "read"
    /\ LET l == loop[t][v]
           again == l.seen = "PENDING" /\ l.left > 0
       IN /\ loop' = [loop EXCEPT ![t][v] = IF again THEN [l EXCEPT !.at = "timer", !.pending = TRUE] ELSE NoLoop]
          /\ snapshot' = IF l.seen = "PENDING" THEN snapshot ELSE None
          /\ crossed' = (crossed \/ (l.seen # "PENDING" /\ snapshot \notin {None, l.order}))
    /\ UNCHANGED <<backend, route, panel, making, sheet, visit, faults, settled>>

\* No answer: the first look-up gives up, a refresh is tried again.
ResultFails(t, v) ==
    /\ loop[t][v].at \in {"sent", "read"} /\ Fault
    /\ loop' = [loop EXCEPT ![t][v] = IF @.pending /\ @.left > 0 THEN [@ EXCEPT !.at = "timer"] ELSE NoLoop]
    /\ UNCHANGED <<backend, snapshot, route, panel, making, sheet, visit, settled, crossed>>

ResultTimer(t, v) ==
    /\ loop[t][v].at = "timer"
    /\ loop' = [loop EXCEPT ![t][v].at = "sent", ![t][v].left = @ - 1]
    /\ UNCHANGED <<backend, snapshot, route, panel, making, sheet, visit, faults, settled, crossed>>

-----------------------------------------------------------------------------
Pages(t) ==
    \/ NavigateAway(t) \/ Reload(t) \/ OpenPurchase(t) \/ Restore(t) \/ RestoreFails(t) \/ Push(t)
    \/ \E o \in Orders : OpenResult(t, o)

Creates(t) ==
    \/ Submit(t) \/ OrderCreated(t) \/ CreateFails(t) \/ LaunchWaiting(t) \/ LaunchSheet(t)
    \/ LaunchRedirect(t) \/ LaunchNothing(t) \/ SheetCloses(t)

Polls(t) ==
    PollStatus(t) \/ GetOrder(t) \/ TryRecoverPendingOrder(t) \/ VerifyOrder(t) \/ PollDone(t)

Panels(t) ==
    \/ Polls(t) \/ PollFails(t) \/ CountdownEnds(t) \/ HandleCancel(t) \/ CancelOrder(t)
    \/ CancelLost(t) \/ CancelAnswered(t) \/ HandleDone(t)

Results(t) ==
    \E v \in 1..Visits : ResultRead(t, v) \/ ResultShown(t, v) \/ ResultFails(t, v) \/ ResultTimer(t, v)

Next ==
    \/ \E o \in Orders : Service(o)
    \/ \E t \in Tabs : Pages(t) \/ Creates(t) \/ Panels(t) \/ Results(t)

Spec == Init /\ [][Next]_vars

-----------------------------------------------------------------------------
(* Properties.                                                               *)

\* A panel tells the user of a success only for an order the provider has been paid for.
SuccessIsPaid == \A t \in Tabs : panel[t].outcome = "success" => shown[t] \in paid

\* A panel that says "cancelled" leaves no order the user could still be asked to pay.
CancelledIsClosed == \A t \in Tabs : panel[t].outcome = "cancelled" => server[shown[t]] # "PENDING"

\* An order some panel settled is never offered for recovery again: its snapshot does not come back.
SettledForgotten == snapshot \notin settled

\* While a panel waits for an open order, a reload would find the order again: the snapshot is
\* its own, as long as no other order's result page has removed it.
RecoveryKept == \A t \in Tabs :
    (Active(t) /\ server[shown[t]] = "PENDING" /\ ~crossed) => snapshot = shown[t]

\* A user who has paid and stays on the page sees an outcome: no lost request stops the polling.
PaidSeen == \A t \in Tabs, o \in Orders :
    (Active(t) /\ shown[t] = o /\ o \in paid) ~> ~(Active(t) /\ shown[t] = o)

=============================================================================
