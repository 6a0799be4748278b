----------------------------- MODULE MCProgress -----------------------------
(***************************************************************************)
(* What must happen in the end, for TLC.  The parts share no variable, so     *)
(* one runs at a time; part says which.                                       *)
(***************************************************************************)
EXTENDS TLC

CONSTANTS r1, r2, s1, s2, c1, d1, Nil

VARIABLES part,
          models, mem, file, busy, started, req, active, login, stopping, arena, budget,
          day, open, entry, entryFile, elapsed, job, writes, loaded, stopped, resolved, claims, luck,
          signIn, queue, accounts, keys, accountFile, given, chance,
          handler, op, post, account, activeOps, aborted, item, catalogs, halting, awaited, halted,
          deviceLogin, deviceActive, told,
          status, owners, fresh, tradeNo, pend, audits, code, balance, due, paid, acked, gw, worker,
          credits, rebates, held, faults, crashes,
          server, paidOrders, late, snapshot, page, shown, push, panel, making, sheet, loop, visit, lost,
          settled, crossed,
          batch, rows, selected, current, shownBatch, items, polling, refreshing, loadingItems,
          deleting, submit, retry, reqs, fails,
          srv, filter, tableRows, rowsOf, debounce, loads, loading, loadErr, auto, etag, billing,
          pendingStats, stats, edit, nloads, nedits, nbillings, refused

Browser == INSTANCE ArenaAdapter WITH
  Sessions <- {s1, s2}, Ready <- {s1}, Clients <- {c1}, Keys <- {}, Digests <- {d1},
  Reqs <- {r1}, Logins <- {r2}, MaxRequests <- 1, Crashes <- 1, Faults <- 0
Welfare == INSTANCE TeleAgentWelfare WITH
  N <- 1, MaxAttempts <- 2, Days <- 2, Faults <- 1, Crashes <- 1,
  mem <- entry, file <- entryFile, budget <- luck
SignIn == INSTANCE TeleAgentLogin WITH
  Logins <- {r1, r2}, Owners <- {c1}, Uids <- {d1}, MaxSessions <- 1, Faults <- 1, Crashes <- 0,
  login <- signIn, file <- accountFile, budget <- chance
Cursor == INSTANCE CursorAdapter WITH
  Reqs <- {r1, r2}, Accounts <- {c1}, MaxConcurrent <- 1, MaxCatalogs <- 1,
  active <- activeOps, stopping <- halting, resolved <- halted
Device == INSTANCE CursorLogin WITH
  Logins <- {r1, r2}, MaxSessions <- 1, MaxPolls <- 2,
  login <- deviceLogin, active <- deviceActive
Order == INSTANCE PaymentOrder WITH
  Webhooks <- {r1}, Clerks <- {r2}, Jobs <- {"expire"},
  Amount <- 1, Faults <- 0, Crashes <- 1
Checkout == INSTANCE PaymentCheckout WITH
  Tabs <- {s1}, Orders <- {r1}, Verifies <- 1, Refreshes <- 1, Visits <- 0, Faults <- 1,
  None <- Nil, paid <- paidOrders, faults <- lost
Guide == INSTANCE BatchImageGuide WITH
  Items <- {r1}, MaxJobs <- 1, MaxReqs <- 1, MaxFails <- 1,
  job <- batch, shown <- shownBatch
Table == INSTANCE AccountsTable WITH
  Accounts <- {r1}, AutoRefresh <- TRUE, MaxVersion <- 2, MaxLoads <- 1, MaxEdits <- 0,
  MaxBillings <- 0, MaxFails <- 1,
  rows <- tableRows, timer <- debounce, fails <- refused

ASSUME /\ Browser!ArenaAssumption /\ Welfare!WelfareAssumption /\ SignIn!LoginAssumption
       /\ Cursor!CursorAssumption /\ Device!CursorLoginAssumption /\ Order!PaymentAssumption
       /\ Checkout!CheckoutAssumption /\ Guide!GuideAssumption /\ Table!TableAssumption

arenaVars == <<models, mem, file, busy, started, req, active, login, stopping, arena, budget>>
welfareVars == <<day, open, entry, entryFile, elapsed, job, writes, loaded, stopped, resolved,
    claims, luck>>
signInVars == <<signIn, queue, accounts, keys, accountFile, given, chance>>
cursorVars == <<handler, op, post, account, activeOps, aborted, item, catalogs, halting,
    awaited, halted>>
deviceVars == <<deviceLogin, deviceActive, told>>
orderVars == <<status, owners, fresh, tradeNo, pend, audits, code, balance, due, paid, acked,
    gw, worker, credits, rebates, held, faults, crashes>>
checkoutVars == <<server, paidOrders, late, snapshot, page, shown, push, panel, making, sheet, loop,
    visit, lost, settled, crossed>>
guideVars == <<batch, rows, selected, current, shownBatch, items, polling, refreshing,
    loadingItems, deleting, submit, retry, reqs, fails>>
tableVars == <<srv, filter, tableRows, rowsOf, debounce, loads, loading, loadErr, auto, etag, billing,
    pendingStats, stats, edit, nloads, nedits, nbillings, refused>>
vars == <<part, arenaVars, welfareVars, signInVars, cursorVars, deviceVars, orderVars, checkoutVars,
          guideVars, tableVars>>

Init ==
  /\ part \in {"arena", "welfare", "signIn", "cursor", "device", "order", "checkout",
               "guide", "table"}
  /\ Browser!Init /\ Welfare!Init /\ SignIn!Init /\ Cursor!Init /\ Device!Init
  /\ Order!Init /\ Checkout!Init /\ Guide!Init /\ Table!Init

Next ==
  /\ UNCHANGED part
  /\ IF part = "arena" THEN Browser!Next ELSE UNCHANGED arenaVars
  /\ IF part = "welfare" THEN Welfare!Next ELSE UNCHANGED welfareVars
  /\ IF part = "signIn" THEN SignIn!Next ELSE UNCHANGED signInVars
  /\ IF part = "cursor" THEN Cursor!Next ELSE UNCHANGED cursorVars
  /\ IF part = "device" THEN Device!Next ELSE UNCHANGED deviceVars
  /\ IF part = "order" THEN Order!Next ELSE UNCHANGED orderVars
  /\ IF part = "checkout" THEN Checkout!Next ELSE UNCHANGED checkoutVars
  /\ IF part = "guide" THEN Guide!Next ELSE UNCHANGED guideVars
  /\ IF part = "table" THEN Table!Next ELSE UNCHANGED tableVars

----------------------------------------------------------------------------
(* Fairness: what the schedulers, timers, files and servers owe the part that *)
(* runs.  Clients, crashes and failures owe nothing.                           *)

\* Arena: timers fire, an aborted browser operation returns, and the handlers run on.
ArenaFairness ==
  /\ \A r \in {r1} :
       /\ WF_arenaVars(part = "arena" /\ (Browser!Refuse(r) \/ Browser!BeginAnswers(r) \/ Browser!StartTurn(r)))
       /\ WF_arenaVars(part = "arena" /\ Browser!Abort(r))
       /\ WF_arenaVars(part = "arena" /\ req[r].aborted /\ Browser!TurnFails(r))
       /\ WF_arenaVars(part = "arena" /\ (Browser!TurnAborted(r) \/ Browser!Finish(r)))
  /\ \A l \in {r2} :
       /\ WF_arenaVars(part = "arena" /\ Browser!LoginStart(l))
       /\ WF_arenaVars(part = "arena" /\ Browser!LoginTimeout(l))
       /\ WF_arenaVars(part = "arena" /\ login[l].aborted /\ Browser!LoginFails(l))
       /\ WF_arenaVars(part = "arena" /\ Browser!LoginSettles(l))
  /\ WF_arenaVars(part = "arena" /\ Browser!Exit)

\* TeleAgent sign-in: browser operations, verifications and writes end, and time passes.
SignInFairness ==
  /\ WF_signInVars(part = "signIn" /\ SignIn!Save)
  /\ \A l \in {r1, r2} :
       /\ WF_signInVars(part = "signIn" /\ (SignIn!NewContext(l) \/ SignIn!OpenFails(l)))
       /\ WF_signInVars(part = "signIn" /\ (SignIn!NewPage(l) \/ SignIn!OpenFails(l)))
       /\ WF_signInVars(part = "signIn" /\ (SignIn!Opened(l) \/ SignIn!OpenFails(l)))
       /\ WF_signInVars(part = "signIn" /\ (SignIn!Verified(l) \/ SignIn!VerifyFails(l)))
       /\ WF_signInVars(part = "signIn" /\ SignIn!Expire(l))
       /\ WF_signInVars(part = "signIn" /\ SignIn!Timer(l))

\* Cursor: timers fire; an aborted step, a termination and a removal end; the event
\* loop runs what is ready.  No answer of Cursor is assumed.
CursorFairness ==
  /\ WF_cursorVars(part = "cursor" /\ Cursor!StopResolves)
  /\ \A r \in {r1, r2} :
       /\ WF_cursorVars(part = "cursor" /\ Cursor!Abort(r))
       /\ WF_cursorVars(part = "cursor" /\ r \in aborted /\ Cursor!BodyFails(r))
       /\ WF_cursorVars(part = "cursor" /\ Cursor!LeaveCatalog(r))
       /\ WF_cursorVars(part = "cursor" /\ Cursor!CatalogArrives(r))
       /\ WF_cursorVars(part = "cursor" /\ Cursor!StartWorker(r))
       /\ WF_cursorVars(part = "cursor" /\ r \in aborted /\ Cursor!WorkerEnds(r))
       /\ WF_cursorVars(part = "cursor" /\ Cursor!Terminated(r))
       /\ WF_cursorVars(part = "cursor" /\ Cursor!CleanedUp(r))
  /\ \A i \in {1, 2} :
       /\ WF_cursorVars(part = "cursor" /\ (item[i].aborted \/ halting) /\ Cursor!QueryEnds(i))
       /\ WF_cursorVars(part = "cursor" /\ Cursor!Settle(i))

\* Cursor login: the timer fires and the SDK settles once it is aborted.
DeviceFairness ==
  \A l \in {r1, r2} :
    /\ WF_deviceVars(part = "device" /\ Device!Timeout(l))
    /\ WF_deviceVars(part = "device" /\ deviceLogin[l].aborted /\ Device!TaskEnds(l))
    /\ WF_deviceVars(part = "device" /\ Device!Expire(l))

\* The payment pages: timers fire and requests are answered or fail; the provider's
\* notification arrives.
CheckoutFairness ==
  /\ WF_checkoutVars(part = "checkout" /\ Checkout!Webhook(r1))
  /\ WF_checkoutVars(part = "checkout" /\ Checkout!Polls(s1))

\* The batch image page: the server ends every job and handles requests, answers arrive,
\* and the timer ticks: strongly fair, because MaxReqs, which is no part of the code,
\* disables it now and then.
GuideFairness ==
  /\ SF_guideVars(part = "guide" /\ Guide!PollTick)
  /\ WF_guideVars(part = "guide" /\ Guide!FinishJob(1))
  /\ \A k \in {"job", "items", "list"} :
       WF_guideVars(part = "guide" /\ \E r \in reqs : r.kind = k /\ Guide!ServeRead(r))
  /\ \A k \in {"job", "items", "cancel"} :
       WF_guideVars(part = "guide" /\ \E r \in reqs : r.kind = k /\ Guide!NotFound(r))
  /\ WF_guideVars(part = "guide" /\ \E r \in reqs : Guide!JobArrives(r))
  /\ WF_guideVars(part = "guide" /\ \E r \in reqs : Guide!ItemsArrive(r))
  /\ WF_guideVars(part = "guide" /\ \E r \in reqs : Guide!ListArrives(r))
  /\ WF_guideVars(part = "guide" /\ \E r \in reqs : Guide!CancelArrives(r))
  /\ WF_guideVars(part = "guide" /\ \E r \in reqs : Guide!ServeCancel(r))
  /\ WF_guideVars(part = "guide" /\ \E r \in reqs : Guide!ServeDelete(r))
  /\ WF_guideVars(part = "guide" /\ \E r \in reqs : Guide!DeleteArrives(r))

\* The claim scheduler: the clock and the minute timer run, file operations end, and a
\* request ends within its 30 seconds.
WelfareFairness ==
  /\ WF_welfareVars(part = "welfare" /\ Welfare!OpenDay)
  /\ WF_welfareVars(part = "welfare" /\ Welfare!NextDay)
  /\ WF_welfareVars(part = "welfare" /\ Welfare!Tick)
  /\ WF_welfareVars(part = "welfare" /\ Welfare!NextWrite)
  /\ WF_welfareVars(part = "welfare" /\ Welfare!Load)
  /\ WF_welfareVars(part = "welfare" /\ Welfare!StopResolves)
  /\ \A n \in {1} :
       /\ WF_welfareVars(part = "welfare" /\ Welfare!RetryDue(n))
       /\ WF_welfareVars(part = "welfare" /\ (Welfare!ClaimSucceeds(n) \/ Welfare!ClaimFails(n)))

\* Payment: the server runs every request it accepted, the provider notifies until it
\* is told success, and time passes.  Nobody has to verify, retry or refund.
OrderFairness ==
  /\ \A p \in {r1, r2} : WF_orderVars(part = "order" /\ Order!Progress(p))
  /\ WF_orderVars(part = "order" /\ Order!HandlePaymentNotification(r1))
  /\ WF_orderVars(part = "order" /\ Order!Age)

\* The account list: timers fire and requests are answered.
TableFairness ==
  /\ WF_tableVars(part = "table" /\ Table!AutoTick)
  /\ WF_tableVars(part = "table" /\ Table!ServeAuto)
  /\ WF_tableVars(part = "table" /\ (Table!AutoSame \/ Table!AutoArrives))
  /\ WF_tableVars(part = "table" /\ \E r \in loads : Table!ServeLoad(r))
  /\ WF_tableVars(part = "table" /\ \E r \in loads : Table!LoadArrives(r))
  /\ WF_tableVars(part = "table" /\ Table!DebounceFires)

Spec ==
  /\ Init /\ [][Next]_vars
  /\ ArenaFairness /\ WelfareFairness /\ SignInFairness /\ CursorFairness /\ DeviceFairness
  /\ OrderFairness /\ CheckoutFairness /\ GuideFairness /\ TableFairness

----------------------------------------------------------------------------
(* Properties: those of the modules.                                       *)

\* Capacity comes back.  The one Arena browser is given back by every turn and login; a
\* TeleAgent sign-in gives its slot back whether it fails to open, completes, is cancelled
\* or is forgotten; so does every admitted Cursor request, also when Cursor never answers,
\* and a Cursor login makes room for the next one.
CapacityReturns ==
  Browser!BrowserReleased /\ SignIn!SlotsReturn /\ Cursor!SlotsReturn /\ Device!LoginReleased

\* A payment the provider was paid for is granted, or recorded as too late, although
\* workers die: the provider notifies until it is answered success.  And a panel does not
\* wait for ever for an order that was paid (PaymentStatusPanel.vue).
PaymentsSettle == Order!PaymentSettles /\ Checkout!PaidSeen

\* What is watched is seen in the end.  Unless it was stopped or could not read its state,
\* the claim scheduler ends the last day with every account claimed or out of attempts
\* (welfare.mjs); the dialog of a submitted job, left open, shows its end unless its record
\* is deleted (BatchImageGuideView.vue); and with auto-refresh on, what others change shows
\* up in the account list (refreshAccountsIncrementally).
WatchersCatchUp ==
  /\ part = "welfare" => Welfare!DayServed
  /\ Guide!PolledToTheEnd
  /\ part = "table" => Table!ChangesShowUp
=============================================================================
