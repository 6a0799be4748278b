------------------------------- MODULE MCPages -------------------------------
(***************************************************************************)
(* The stores and pages of the web frontend for TLC.  None of the modules    *)
(* here reads what another one writes, so one runs at a time; part says      *)
(* which, and with which parameters.  The variables of some are renamed.     *)
(***************************************************************************)
EXTENDS TLC

CONSTANTS a, b,                    \* interchangeable users or prompts
          one, n1, n2, w, x, y, z,
          Nobody, None

VARIABLES part,
          published, readBy, user, signIns, list, read, throttled, loading, gen, queue, popup, shown,
          owner, edition, fetch, mark, markAll, nextTimers, loginTimers,
          site, simple, isSimpleMode, who, pending, loaded, nav, asked, aware, demoted, chunkReload, moves,
          job, jobRows, selectedJob, current, shownJob, items, polling, refreshing, loadingItems, deleting,
          submit, retry, reqs, lost,
          settings, policy, web, granted, html, pageTag, foreign, render, copy, visits, pub, adm, view,
          inst, failures,
          srv, filter, rows, rowsOf, timer, loads, tableLoading, loadErr, auto, etag, billing,
          pendingStats, stats, edit, nloads, nedits, nbillings, fails,
          exists, listFilter, selected, snapshot, version, all, selecting, bulk, chosen,
          changes, selects, bulks, deletes, creates

-----------------------------------------------------------------------------
\* Two users in turn, with their popups; one user who reads.
Sessions == INSTANCE Announcements WITH
    Users <- {a, b}, Items <- {n1, n2}, Popups <- {n1, n2}, Fetches <- 2, Marks <- 1, SignIns <- 2
Reads == INSTANCE Announcements WITH
    Users <- {one}, Items <- {n1, n2}, Popups <- {n1}, Fetches <- 2, Marks <- 2, SignIns <- 1

\* One navigation in every world, to one route of every kind the guard tells apart;
\* then a second one, between routes that few of the settings are about.
Routes == INSTANCE Navigation WITH
    Paths <- {"/login", "/home", "/dashboard", "/admin/dashboard", "/admin/settings", "/register", "/setup",
              "/model-plaza", "/auth/callback", "/purchase", "/subscriptions", "/redeem",
              "/admin/risk-control", "/admin/orders"},
    Moves <- 0
Moves == INSTANCE Navigation WITH
    Paths <- {"/login", "/home", "/dashboard", "/admin/dashboard", "/admin/settings", "/register",
              "/auth/callback", "/redeem", "/admin/orders"},
    Moves <- 1

Guide == INSTANCE BatchImageGuide WITH
    Items <- {a, b}, MaxJobs <- 2, MaxReqs <- 1, MaxFails <- 0,
    rows <- jobRows, selected <- selectedJob, shown <- shownJob, fails <- lost

\* One page that saves while requests fail; two mountings and two loads of the site.
Saves == INSTANCE SiteSettings WITH
    MaxVersion <- 2, MaxReqs <- 2, MaxInsts <- 1, MaxLoads <- 1, MaxFails <- 2, Renderers <- {1},
    etag <- pageTag, loads <- visits, fails <- failures
Mountings == INSTANCE SiteSettings WITH
    MaxVersion <- 2, MaxReqs <- 2, MaxInsts <- 2, MaxLoads <- 2, MaxFails <- 0, Renderers <- {1},
    etag <- pageTag, loads <- visits, fails <- failures

Table == INSTANCE AccountsTable WITH
    Accounts <- {one}, AutoRefresh <- FALSE, MaxVersion <- 1, MaxLoads <- 3, MaxEdits <- 1,
    MaxBillings <- 1, MaxFails <- 1, loading <- tableLoading

\* Two accounts under one filter, one under the other, and one to be created.
SelectAll == INSTANCE AccountsSelection WITH
    Accounts <- {w, x, y, z}, Filters <- {"x", "y"}, Initially <- {w, x, y},
    Class <- (w :> "x") @@ (x :> "x") @@ (y :> "y") @@ (z :> "x"),
    MaxChanges <- 2, MaxSelects <- 2, MaxBulks <- 0, MaxDeletes <- 2, MaxCreates <- 0,
    filter <- listFilter
Bulk == INSTANCE AccountsSelection WITH
    Accounts <- {w, x, y, z}, Filters <- {"x", "y"}, Initially <- {w, x, y},
    Class <- (w :> "x") @@ (x :> "x") @@ (y :> "y") @@ (z :> "x"),
    MaxChanges <- 1, MaxSelects <- 0, MaxBulks <- 1, MaxDeletes <- 0, MaxCreates <- 1,
    filter <- listFilter

ASSUME /\ Sessions!AnnouncementAssumption /\ Reads!AnnouncementAssumption
       /\ Routes!NavigationAssumption /\ Routes!PathsAssumption /\ Moves!PathsAssumption
       /\ Guide!GuideAssumption
       /\ Saves!SettingsAssumption /\ Mountings!SettingsAssumption
       /\ Table!TableAssumption /\ SelectAll!SelectionAssumption /\ Bulk!SelectionAssumption

announceVars == <<published, readBy, user, signIns, list, read, throttled, loading, gen, queue, popup,
                  shown, owner, edition, fetch, mark, markAll, nextTimers, loginTimers>>
routeVars == <<site, simple, isSimpleMode, who, pending, loaded, nav, asked, aware, demoted, chunkReload,
               moves>>
guideVars == <<job, jobRows, selectedJob, current, shownJob, items, polling, refreshing, loadingItems,
               deleting, submit, retry, reqs, lost>>
settingsVars == <<settings, policy, web, granted, html, pageTag, foreign, render, copy, visits, pub, adm,
                  view, inst, failures>>
tableVars == <<srv, filter, rows, rowsOf, timer, loads, tableLoading, loadErr, auto, etag, billing,
               pendingStats, stats, edit, nloads, nedits, nbillings, fails>>
selectionVars == <<exists, listFilter, selected, snapshot, version, all, selecting, bulk, chosen,
                   changes, selects, bulks, deletes, creates>>
vars == <<part, announceVars, routeVars, guideVars, settingsVars, tableVars, selectionVars>>

\* The guard starts in any world, a page load of each kind; elsewhere one is enough.
AnyWorld ==
    \/ part = "routes"
    \/ part = "moves" /\ site \in {[f \in Routes!Flags |-> f \in on] : on \in SUBSET {"backend", "payment"}}
    \/ /\ part \notin {"routes", "moves"}
       /\ site = [f \in Routes!Flags |-> FALSE] /\ simple = FALSE /\ who = "anon"
       /\ pending = FALSE /\ loaded = FALSE /\ asked = "/home"

AnyFilter == part \in {"selectAll", "bulk"} \/ listFilter = "x"

Init ==
    /\ part \in {"sessions", "reads", "routes", "moves", "guide", "saves", "mountings", "table",
                "selectAll", "bulk"}
    /\ IF part = "reads" THEN Reads!Init ELSE Sessions!Init
    /\ AnyWorld /\ IF part = "moves" THEN Moves!Init ELSE Routes!Init
    /\ Guide!Init
    /\ IF part = "saves" THEN Saves!Init ELSE Mountings!Init
    /\ Table!Init
    /\ AnyFilter /\ SelectAll!Init

Next ==
    \/ /\ UNCHANGED <<part, routeVars, guideVars, settingsVars, tableVars, selectionVars>>
       /\ \/ part = "sessions" /\ Sessions!Next
          \/ part = "reads" /\ Reads!Next
    \/ /\ UNCHANGED <<part, announceVars, guideVars, settingsVars, tableVars, selectionVars>>
       /\ \/ part = "routes" /\ Routes!Next
          \/ part = "moves" /\ Moves!Next
    \/ /\ UNCHANGED <<part, announceVars, routeVars, settingsVars, tableVars, selectionVars>>
       /\ part = "guide" /\ Guide!Next
    \/ /\ UNCHANGED <<part, announceVars, routeVars, guideVars, tableVars, selectionVars>>
       /\ \/ part = "saves" /\ Saves!Next
          \/ part = "mountings" /\ Mountings!Next
    \/ /\ UNCHANGED <<part, announceVars, routeVars, guideVars, settingsVars, selectionVars>>
       /\ part = "table" /\ Table!Next
    \/ /\ UNCHANGED <<part, announceVars, routeVars, guideVars, settingsVars, tableVars>>
       /\ \/ part = "selectAll" /\ SelectAll!Next
          \/ part = "bulk" /\ Bulk!Next

Spec == Init /\ [][Next]_vars

Symmetry == Permutations({a, b})

-----------------------------------------------------------------------------
(* Properties: those of the modules, of the part that runs.                  *)

\* List and popups are those of the user signed in: no reply of an earlier session brings
\* back what signing out removed.  In a session each popup comes up at most once, and one
\* that waits while none is on the screen has a timer that will bring it up.  An entry
\* shown as read has been read by this user as far as the server knows
\* (announcements.ts, fetchGeneration, enqueueNewPopups, dismissPopup, markAsRead).
AnnouncementsRight ==
    /\ part = "sessions" => /\ Sessions!TypeOK /\ Sessions!OwnAnnouncements
                            /\ Sessions!PopupOnce /\ Sessions!QueueServed
    /\ part = "reads" => Reads!TypeOK /\ Reads!ReadIsTrue

\* No chain of redirects is longer than three, whatever the settings and the user, and
\* although both may change on the way; a navigation is admitted only to a page this user
\* may see, and one to a page the user may see is never redirected (router/index.ts).
NavigationRight ==
    part \in {"routes", "moves"} =>
        Routes!RedirectsEnd /\ Routes!ArrivesPermitted /\ Routes!NoNeedlessRedirect

\* The stored fast policy is never replaced by the empty rules a page starts with,
\* whichever reads failed before the save; the stored web search configuration is emptied
\* only by a page whose read of it failed; and asking for a code and retrying never writes
\* the settings twice for one press of Save (SettingsView.vue, useStepUp.ts).
SettingsKept ==
    /\ part = "saves" => Saves!TypeOK /\ Saves!PolicyKept /\ Saves!WebSearchKept /\ Saves!StepUpWritesOnce
    /\ part = "mountings" => /\ Mountings!TypeOK /\ Mountings!PolicyKept
                             /\ Mountings!WebSearchKept /\ Mountings!StepUpWritesOnce

\* Pages act on what they show.  What a retry sends has failed in a job that has ended,
\* although copies of a job get stale (BatchImageGuideView.vue).  Once everything has been
\* answered the account rows are those of the present filter, unless the last load failed
\* (useTableLoader.ts), and what is selected was selected under that filter
\* (AccountsView.vue).  Bulk operations are left out: those that fail for some accounts
\* select them, under whatever filter they arrive.
ActsOnWhatIsShown ==
    /\ part = "guide" => Guide!TypeOK /\ Guide!RetriesFailedItems
    /\ part = "table" => Table!TypeOK /\ Table!ShownMatchesFilter
    /\ part = "selectAll" => SelectAll!TypeOK /\ SelectAll!SelectedHere

\* Answers that come late or in another order lose nothing: within one page the public
\* settings never go back to an older version (app.ts), and when all results are selected,
\* every account under the filter that was there before is (fetchAllAccountIds), although
\* accounts are deleted between two pages.  Creations are left out: one of each between
\* two pages hides the shift from the count.
LateAnswersLoseNothing ==
    [][Mountings!CachedNeverOlder /\ (part = "selectAll" => SelectAll!NoneMissed)]_vars
=============================================================================
