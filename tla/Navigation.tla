----------------------------- MODULE Navigation -----------------------------
(***************************************************************************)
(* The navigation guard of the web application (frontend/src/router):        *)
(* router.beforeEach, which waits for the server up to three times before it *)
(* admits a navigation or redirects it, and router.onError.  Signing in and  *)
(* out, and the arrival of the public settings, happen between its steps.    *)
(***************************************************************************)
EXTENDS Integers, FiniteSets

CONSTANTS Paths,     \* the routes visited, some of AllPaths
          Moves      \* bound: navigations, sign-ins and page loads after the first

NavigationAssumption == Moves \in Nat

-----------------------------------------------------------------------------
(* The route table: the meta of each route.                                  *)

Callbacks == {"/auth/callback", "/auth/linuxdo/callback", "/auth/dingtalk/callback",
              "/auth/dingtalk/email-completion", "/auth/oidc/callback", "/auth/wechat/callback",
              "/auth/wechat/payment/callback"}
SignInPaths == {"/home", "/login", "/register", "/email-verify", "/forgot-password", "/reset-password"}
OpenPaths == {"/setup", "/key-usage", "/docs", "/legal", "/model-plaza"}
PaymentReturns == {"/payment/result", "/payment/stripe", "/payment/airwallex", "/payment/stripe-popup"}
UserPaths == {"/dashboard", "/my-accounts", "/keys", "/chat", "/batch-image", "/usage", "/redeem",
              "/affiliate", "/available-channels", "/profile", "/subscriptions", "/custom", "/monitor",
              "/not-found"}
PayPaths == {"/purchase", "/orders", "/payment/qrcode"}
AdminPaths == {"/admin/dashboard", "/admin/ops", "/admin/audit-logs", "/admin/users", "/admin/groups",
               "/admin/channels/pricing", "/admin/channels/monitor", "/admin/subscriptions",
               "/admin/accounts", "/admin/plugins", "/admin/announcements", "/admin/proxies",
               "/admin/redeem", "/admin/promo-codes", "/admin/settings", "/admin/vision", "/admin/usage",
               "/admin/affiliates/invites", "/admin/affiliates/rebates", "/admin/affiliates/transfers"}
RiskPaths == {"/admin/risk-control", "/admin/prompt-audit"}
AdminPayPaths == {"/admin/orders/dashboard", "/admin/orders", "/admin/orders/plans"}

Public == Callbacks \cup SignInPaths \cup OpenPaths \cup PaymentReturns
RequiresAdmin == AdminPaths \cup RiskPaths \cup AdminPayPaths
RequiresPayment == PayPaths \cup AdminPayPaths
RequiresSubscription == {"/subscriptions"}
Restricted == {"/admin/subscriptions", "/admin/redeem", "/subscriptions", "/redeem"}
AllPaths == Public \cup UserPaths \cup PayPaths \cup RequiresAdmin
NeedsSettings == RequiresPayment \cup RiskPaths \cup RequiresSubscription

PathsAssumption == {"/login", "/home", "/dashboard", "/admin/dashboard", "/admin/settings"}
                              \subseteq Paths /\ Paths \subseteq AllPaths

\* isBackendModePublicRouteAllowed
BackendAllowed(path, pendingAuth) ==
    \/ path \in {"/login", "/key-usage", "/docs", "/setup", "/payment/result", "/payment/airwallex", "/legal"}
    \/ path \in Callbacks
    \/ pendingAuth /\ path \in {"/register", "/email-verify"}

-----------------------------------------------------------------------------
VARIABLES site,      \* the server's settings
          simple,    \* the server's run mode
          isSimpleMode,      \* the run mode the browser knows of, from the last user it fetched
          who,       \* authStore: "anon", "user" or "admin"
          pending,   \* hasPendingAuthSession
          loaded,    \* publicSettingsLoaded; the cached settings are the site's
          nav,       \* the navigation: target, where the guard is, redirects so far
          asked, aware,      \* history: the page asked for; settings and run mode known by then
          demoted,           \* history: the user lost the role during this navigation
          chunkReload, moves

vars == <<site, simple, isSimpleMode, who, pending, loaded, nav, asked, aware, demoted, chunkReload, moves>>
world == <<site, simple>>
mode == <<who, isSimpleMode>>
about == <<asked, aware, demoted>>

Flags == {"backend", "payment", "risk", "subscription", "plaza", "plazaAuth"}
Waits == {"setup", "plaza", "compliance", "settings"}

TypeOK ==
    /\ site \in [Flags -> BOOLEAN] /\ {simple, isSimpleMode, pending, loaded, aware, demoted} \subseteq BOOLEAN
    /\ who \in {"anon", "user", "admin"}
    /\ nav \in [to: Paths, at: Waits \cup {"begin", "entry", "features", "decide", "confirmed", "done", "failed"},
                hops: Nat]
    /\ asked \in Paths
    /\ chunkReload \in {"never", "recent"} /\ moves \in 0..Moves

\* A page load: the auth state comes from storage, the settings with the page or later.
Init ==
    /\ site \in [Flags -> BOOLEAN] /\ simple \in BOOLEAN /\ isSimpleMode = FALSE
    /\ who \in {"anon", "user", "admin"} /\ pending \in BOOLEAN /\ loaded \in BOOLEAN
    /\ asked \in Paths /\ nav = [to |-> asked, at |-> "begin", hops |-> 0]
    /\ aware = (loaded /\ ~simple) /\ demoted = FALSE
    /\ chunkReload = "never" /\ moves = 0

Is(flag) == loaded /\ site[flag]
Disabled(flag) == loaded /\ ~site[flag]
Signed == who # "anon"
Home == IF who = "admin" THEN "/admin/dashboard" ELSE "/dashboard"

Go(at) == nav' = [nav EXCEPT !.at = at]
Redirect(path) == nav' = [to |-> path, at |-> "begin", hops |-> nav.hops + 1]
Admit == Go("confirmed")
Guarding(at) == nav.at = at /\ UNCHANGED <<world, mode, pending, about, chunkReload, moves>>

-----------------------------------------------------------------------------
(* router.beforeEach                                                         *)

Begin ==
    /\ Guarding("begin") /\ UNCHANGED loaded
    /\ Go(IF nav.to = "/setup" THEN "setup" ELSE "entry")

\* getSetupStatus: the set-up is done, or it is needed, or nobody knows and the page stays reachable.
SetupStatus ==
    /\ Guarding("setup") /\ UNCHANGED loaded
    /\ \/ Redirect(IF Signed THEN Home ELSE "/login")
       \/ Go("entry")

\* /login and /register of somebody signed in.
SignedInEntry ==
    /\ nav.to \in {"/login", "/register"} /\ Signed
    /\ IF Is("backend") /\ who # "admin" THEN Admit ELSE Redirect(Home)

\* /model-plaza once the settings are there or cannot be had, then every public page.
PublicEntry ==
    IF nav.to = "/model-plaza" /\ Disabled("plaza")
    THEN Redirect(IF Signed THEN Home ELSE "/home")
    ELSE IF nav.to = "/model-plaza" /\ Is("plazaAuth") /\ ~Signed
    THEN Redirect("/login")
    ELSE IF nav.to = "/model-plaza" /\ Is("backend") /\ who = "user"
    THEN Redirect("/login")
    ELSE IF Is("backend") /\ ~Signed /\ ~BackendAllowed(nav.to, pending)
    THEN Redirect("/login")
    ELSE Admit

EnterPublic ==
    /\ Guarding("entry") /\ nav.to \in Public /\ UNCHANGED loaded
    /\ IF nav.to \in {"/login", "/register"} /\ Signed THEN SignedInEntry
       ELSE IF nav.to = "/model-plaza" /\ ~loaded THEN Go("plaza")
       ELSE PublicEntry

\* The answer to a settings request, or its failure: both go on.
SettingsAnswered == loaded' \in {loaded, TRUE}

PlazaSettings ==
    /\ Guarding("plaza") /\ SettingsAnswered
    /\ Go("decide")

DecidePlaza ==
    /\ Guarding("decide") /\ nav.to \in Public /\ UNCHANGED loaded
    /\ PublicEntry

\* Mutant of EnterPrivate: the role is not checked.
EnterPrivateUnchecked ==
    /\ Guarding("entry") /\ nav.to \notin Public /\ UNCHANGED loaded
    /\ IF ~Signed THEN Redirect("/login")
       ELSE Go(IF nav.to \in RequiresAdmin THEN "compliance" ELSE "features")
EnterPrivate ==
    /\ Guarding("entry") /\ nav.to \notin Public /\ UNCHANGED loaded
    /\ IF ~Signed THEN Redirect("/login")
       ELSE IF nav.to \in RequiresAdmin /\ who # "admin" THEN Redirect("/dashboard")
       ELSE Go(IF nav.to \in RequiresAdmin THEN "compliance" ELSE "features")

\* The compliance status is known, arrives or fails; the dialog is not the router's.
ComplianceStatus ==
    /\ Guarding("compliance") /\ UNCHANGED loaded
    /\ Go("features")

Features ==
    /\ Guarding("features") /\ UNCHANGED loaded
    /\ Go(IF nav.to \in NeedsSettings /\ ~loaded THEN "settings" ELSE "decide")

FeatureSettings ==
    /\ Guarding("settings") /\ SettingsAnswered
    /\ Go("decide")

\* Features switched off, simple mode and backend mode.
FeatureOff ==
    \/ nav.to \in RequiresPayment /\ Disabled("payment")
    \/ nav.to \in RequiresSubscription /\ Disabled("subscription")
    \/ nav.to \in Restricted /\ isSimpleMode
RiskOff == nav.to \in RiskPaths /\ Disabled("risk")

Decide ==
    /\ Guarding("decide") /\ nav.to \notin Public /\ UNCHANGED loaded
    /\ IF RiskOff
       THEN Redirect(IF who = "admin" THEN "/admin/settings" ELSE "/dashboard")
       ELSE IF FeatureOff THEN Redirect(Home)
       ELSE IF Is("backend") /\ who # "admin" /\ ~BackendAllowed(nav.to, pending)
       THEN Redirect("/login")
       ELSE Admit

\* The page's code is loaded and the page shown; or it cannot be loaded, and once in ten seconds
\* the whole page is.
Arrive ==
    /\ nav.at = "confirmed"
    /\ Go("done")
    /\ UNCHANGED <<world, mode, pending, loaded, about, chunkReload, moves>>

ChunkFails ==
    /\ nav.at = "confirmed" /\ chunkReload = "recent" /\ Go("failed")
    /\ UNCHANGED <<world, mode, pending, loaded, about, chunkReload, moves>>

ChunkReload ==
    /\ nav.at = "confirmed" /\ chunkReload = "never"
    /\ moves < Moves /\ moves' = moves + 1
    /\ chunkReload' = "recent" /\ loaded' \in BOOLEAN
    /\ nav' = [to |-> nav.to, at |-> "begin", hops |-> 0]
    /\ asked' = nav.to /\ aware' = (loaded' /\ ~simple) /\ demoted' = FALSE
    /\ isSimpleMode' = FALSE /\ pending' \in {pending, FALSE}
    /\ UNCHANGED <<world, who>>

-----------------------------------------------------------------------------
(* What happens around it.                                                   *)

\* The user, or the application, navigates; a navigation under way is dropped.
Navigate(path) ==
    /\ nav.at \in {"done", "failed"} \cup Waits
    /\ nav' = [to |-> path, at |-> "begin", hops |-> 0]
    /\ asked' = path /\ aware' = (loaded /\ isSimpleMode' = simple) /\ demoted' = FALSE

Visit(path) ==
    /\ nav.at \in {"done", "failed"} /\ moves < Moves /\ moves' = moves + 1
    /\ UNCHANGED <<world, mode, pending, loaded, chunkReload>>
    /\ Navigate(path)

\* App.vue's own request for the settings ends.
SettingsArrive ==
    /\ ~loaded /\ loaded' = TRUE
    /\ UNCHANGED <<world, mode, pending, nav, about, chunkReload, moves>>

SignIn(role) ==
    /\ nav.to = "/login" /\ nav.at = "done" /\ who = "anon" /\ moves < Moves /\ moves' = moves + 1
    /\ who' = role /\ pending' = FALSE /\ isSimpleMode' = simple
    /\ Navigate(IF role = "admin" THEN "/admin/dashboard" ELSE "/dashboard")
    /\ UNCHANGED <<world, loaded, chunkReload>>

\* The session ends, by the user or by a 401, and the application goes to /login.
SignOut ==
    /\ Signed /\ moves < Moves /\ moves' = moves + 1
    /\ who' = "anon" /\ UNCHANGED isSimpleMode /\ Navigate("/login")
    /\ UNCHANGED <<world, pending, loaded, chunkReload>>

\* refreshUser: the run mode arrives, and perhaps the user is no longer an administrator.
RefreshUser ==
    /\ Signed /\ isSimpleMode' = simple
    /\ \/ UNCHANGED <<who, demoted>>
       \/ who = "admin" /\ who' = "user" /\ demoted' = TRUE
    /\ UNCHANGED <<world, pending, loaded, nav, asked, aware, chunkReload, moves>>

TenSeconds ==
    /\ chunkReload = "recent" /\ chunkReload' = "never"
    /\ UNCHANGED <<world, mode, pending, loaded, nav, about, moves>>

Guard ==
    \/ Begin \/ SetupStatus \/ EnterPublic \/ PlazaSettings \/ DecidePlaza \/ EnterPrivate
    \/ ComplianceStatus \/ Features \/ FeatureSettings \/ Decide

Next ==
    \/ Guard \/ Arrive \/ ChunkFails \/ ChunkReload
    \/ SettingsArrive \/ SignOut \/ RefreshUser \/ TenSeconds
    \/ \E path \in Paths : Visit(path)
    \/ \E role \in {"user", "admin"} : SignIn(role)

Spec == Init /\ [][Next]_vars

-----------------------------------------------------------------------------
(* Properties                                                                *)

\* Who may see which page, as the comments of the guard and the route table say it together.
Permitted(path) ==
    /\ path \notin Public => Signed
    /\ path \in RequiresAdmin => who = "admin"
    /\ path \in RequiresPayment => ~Disabled("payment")
    /\ path \in RiskPaths => ~Disabled("risk")
    /\ path \in RequiresSubscription => ~Disabled("subscription")
    /\ path \in Restricted => ~isSimpleMode
    /\ path = "/model-plaza" => ~Disabled("plaza") /\ (Is("plazaAuth") => Signed)
    /\ path \in {"/login", "/register"} /\ Signed => Is("backend") /\ who = "user"
    /\ Is("backend") => CASE who = "admin" -> TRUE
                          [] who = "user"  -> path \in Public \ {"/model-plaza"}
                          [] who = "anon"  -> BackendAllowed(path, pending)

Steady == aware /\ ~demoted

\* No chain of redirects is longer than three, whatever the settings and the user, and although
\* both may change on the way: the guard never sends a navigation round in a circle.
RedirectsEnd == nav.hops <= 3

\* With the settings and the run mode at hand a navigation is admitted only to a page this user may see ...
ArrivesPermitted == nav.at = "confirmed" /\ Steady => Permitted(nav.to)

\* ... and one to a page the user may see is never redirected.
NoNeedlessRedirect == nav.hops > 0 /\ Steady => ~Permitted(asked) \/ asked = "/setup"

=============================================================================
