----------------------------- MODULE MCAdapters -----------------------------
(***************************************************************************)
(* The adapters for TLC.  They are processes of their own, and so are the    *)
(* parts of the TeleAgent adapter modelled here, as far as their state goes: *)
(* they share no variable.  One runs at a time; part says which, and with    *)
(* which parameters.                                                         *)
(***************************************************************************)
EXTENDS TLC

CONSTANTS a, b, c,                          \* interchangeable requests or logins
          p, q, s1, s2, k1, k2, d1, d2, c1, c2, o1, u1, x1, x2

VARIABLES part,
          models, mem, file, busy, started, req, active, login, stopping, arena, budget,
          day, open, entry, entryFile, elapsed, job, writes, loaded, stopped, resolved, claims, luck,
          signIn, queue, accounts, keys, accountFile, given, chance,
          chat, chatAccount, activeChats, activeAccounts, abortedChats, closing,
          handler, op, post, account, activeOps, aborted, item, catalogs, halting, awaited, halted

----------------------------------------------------------------------------
(* Arena: turns with keys, retries with another digest, turns and logins.  *)
Turns == INSTANCE ArenaAdapter WITH
  Sessions <- {s1}, Ready <- {s1}, Clients <- {c1, c2}, Keys <- {k1, k2}, Digests <- {d1},
  Reqs <- {a, b, c}, Logins <- {}, MaxRequests <- 2, Crashes <- 1, Faults <- 1
Retries == INSTANCE ArenaAdapter WITH
  Sessions <- {s1}, Ready <- {s1}, Clients <- {c1, c2}, Keys <- {k1, k2}, Digests <- {d1, d2},
  Reqs <- {p, q}, Logins <- {}, MaxRequests <- 1, Crashes <- 1, Faults <- 1
Browser == INSTANCE ArenaAdapter WITH
  Sessions <- {s1, s2}, Ready <- {s1}, Clients <- {c1}, Keys <- {}, Digests <- {d1},
  Reqs <- {p}, Logins <- {a, b}, MaxRequests <- 1, Crashes <- 1, Faults <- 0

(* TeleAgent: the daily claim, the sign-in, the admission of requests.     *)
Welfare == INSTANCE TeleAgentWelfare WITH
  N <- 2, MaxAttempts <- 2, Days <- 2, Faults <- 1, Crashes <- 1,
  mem <- entry, file <- entryFile, budget <- luck
SignIn == INSTANCE TeleAgentLogin WITH
  Logins <- {a, b, c}, Owners <- {o1}, Uids <- {u1}, MaxSessions <- 2, Faults <- 1, Crashes <- 1,
  login <- signIn, file <- accountFile, budget <- chance
Admission == INSTANCE TeleAgentServer WITH
  Reqs <- {a, b, c}, Accounts <- {x1, x2}, MaxConcurrent <- 2, PerAccount <- 1,
  req <- chat, account <- chatAccount, active <- activeChats, aborted <- abortedChats,
  stopping <- closing

(* Cursor: requests that share a catalog, and a cache too small for two.   *)
Catalog == INSTANCE CursorAdapter WITH
  Reqs <- {a, b, c}, Accounts <- {x1}, MaxConcurrent <- 2, MaxCatalogs <- 2,
  active <- activeOps, stopping <- halting, resolved <- halted
Evict == INSTANCE CursorAdapter WITH
  Reqs <- {p, q}, Accounts <- {x1, x2}, MaxConcurrent <- 2, MaxCatalogs <- 1,
  active <- activeOps, stopping <- halting, resolved <- halted

ASSUME /\ Turns!ArenaAssumption /\ Retries!ArenaAssumption /\ Browser!ArenaAssumption
       /\ Welfare!WelfareAssumption /\ SignIn!LoginAssumption /\ Admission!ServerAssumption
       /\ Catalog!CursorAssumption /\ Evict!CursorAssumption

arenaVars == <<models, mem, file, busy, started, req, active, login, stopping, arena, budget>>
welfareVars == <<day, open, entry, entryFile, elapsed, job, writes, loaded, stopped, resolved, claims, luck>>
signInVars == <<signIn, queue, accounts, keys, accountFile, given, chance>>
chatVars == <<chat, chatAccount, activeChats, activeAccounts, abortedChats, closing>>
cursorVars == <<handler, op, post, account, activeOps, aborted, item, catalogs, halting, awaited, halted>>
vars == <<part, arenaVars, welfareVars, signInVars, chatVars, cursorVars>>

Init ==
  /\ Welfare!Init /\ SignIn!Init /\ Admission!Init
  /\ part = "admission" \/ chatAccount = [r \in {a, b, c} |-> x1]
  /\ \/ part = "turns" /\ Turns!Init /\ Catalog!Init
     \/ part = "retries" /\ Retries!Init /\ Catalog!Init
     \/ part = "browser" /\ Browser!Init /\ Catalog!Init
     \/ part \in {"welfare", "signin", "admission", "catalog"} /\ Turns!Init /\ Catalog!Init
     \/ part = "evict" /\ Turns!Init /\ Evict!Init

Next ==
  \/ part = "turns" /\ Turns!Next /\ UNCHANGED <<part, welfareVars, signInVars, chatVars, cursorVars>>
  \/ part = "retries" /\ Retries!Next /\ UNCHANGED <<part, welfareVars, signInVars, chatVars, cursorVars>>
  \/ part = "browser" /\ Browser!Next /\ UNCHANGED <<part, welfareVars, signInVars, chatVars, cursorVars>>
  \/ part = "welfare" /\ Welfare!Next /\ UNCHANGED <<part, arenaVars, signInVars, chatVars, cursorVars>>
  \/ part = "signin" /\ SignIn!Next /\ UNCHANGED <<part, arenaVars, welfareVars, chatVars, cursorVars>>
  \/ part = "admission" /\ Admission!Next /\ UNCHANGED <<part, arenaVars, welfareVars, signInVars, cursorVars>>
  \/ part = "catalog" /\ Catalog!Next /\ UNCHANGED <<part, arenaVars, welfareVars, signInVars, chatVars>>
  \/ part = "evict" /\ Evict!Next /\ UNCHANGED <<part, arenaVars, welfareVars, signInVars, chatVars>>

Spec == Init /\ [][Next]_vars

Symmetry == Permutations({a, b, c})

----------------------------------------------------------------------------
(* Properties: those of the modules, of the part that runs.                *)

\* After a turn whose outcome the adapter does not know, Arena receives nothing more in
\* that session: not on a retry, not after a crash, not when a save failed.  One
\* idempotency key stands for one message of the session, and what a client is answered
\* is Arena's answer to that client's own message (arena2api state.mjs, begin and claim).
TurnsKnown ==
  /\ part = "turns" => /\ Turns!TypeOK /\ Turns!NothingAfterUnknown
                       /\ Turns!KeySubmittedOnce /\ Turns!AnswersOwnTurn
  /\ part = "retries" => /\ Retries!TypeOK /\ Retries!NothingAfterUnknown
                         /\ Retries!KeySubmittedOnce /\ Retries!AnswersOwnTurn
  /\ part = "browser" => Browser!TypeOK /\ Browser!NothingAfterUnknown

\* No limit is exceeded, however operations whose client has long been answered wind
\* down: one turn or one login uses the Arena browser (logins.active); the TeleAgent
\* server keeps both of its limits; Cursor runs at most MaxConcurrent operations; and an
\* account sends at most MaxAttempts claims for one date, whatever crashes and failing
\* writes come between (welfare.mjs).
WithinLimits ==
  /\ part = "browser" => Browser!OneBrowserUser
  /\ Admission!LimitsHold
  /\ IF part = "evict" THEN Evict!WorkLimit ELSE Catalog!WorkLimit
  /\ part = "welfare" => Welfare!TypeOK /\ Welfare!ClaimLimit

\* A key an owner was told keeps opening that owner's account, through later sign-ins,
\* failed saves and restarts; and no interleaving of opening, resuming, cancelling and
\* expiring leaves a browser context behind (teleagent2api accounts.mjs, login-session.mjs).
SignInsKept == part = "signin" => SignIn!TypeOK /\ SignIn!GivenKeyWorks /\ SignIn!NoOrphanContext

\* A request loses its catalog query only to an abort of its own; a failed catalog is
\* never served from the cache; an account has one query running, as long as the cache
\* need not drop it for another account's; and a runtime that has stopped leaves no worker
\* and no directory behind (cursor2api runtime.mjs).
CatalogsShared ==
  /\ part = "catalog" => /\ Catalog!TypeOK /\ Catalog!CatalogIsolation /\ Catalog!FailureNotCached
                         /\ Catalog!SingleFlight /\ Catalog!StopLeavesNothing
  /\ part = "evict" => /\ Evict!TypeOK /\ Evict!CatalogIsolation /\ Evict!FailureNotCached
                       /\ Evict!StopLeavesNothing

\* Once welfare.json says a date's claim succeeded, no later snapshot of another
\* account's job takes that back, and that date is not claimed again; and after stop's
\* promise resolved the scheduler neither claims nor writes (persist, stop).
ClaimsKept == [][Welfare!SuccessSticks /\ Welfare!StoppedQuiet]_welfareVars
=============================================================================
