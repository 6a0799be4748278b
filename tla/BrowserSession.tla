--------------------------- MODULE BrowserSession ---------------------------
(***************************************************************************)
(* The signed-in session of the web frontend: browser tabs that share       *)
(* localStorage (stores/auth.ts, api/client.ts, api/tokenRefresh.ts) and a   *)
(* server that rotates one-time refresh tokens (service/auth_service.go).    *)
(*                                                                         *)
(* The server issues numbered token pairs; pair n is an access token and a   *)
(* refresh token, and a stored token, or a stored expiry, is the number of    *)
(* the pair it came from.  A task of a tab is one step: browsers deliver the  *)
(* localStorage writes of another tab between tasks.                         *)
(***************************************************************************)
EXTENDS Integers, FiniteSets

CONSTANTS Tabs,       \* documents of one browser
          Users,      \* accounts
          Nobody,     \* no account
          MaxPairs,   \* bound: token pairs the server issues
          Worlds      \* the browsers and networks a behaviour may be in

\* How many pairs the server issues (a bound); whether navigator.locks exists; whether an
\* access token outlives a refresh and its retry; and what may happen besides logins and
\* page loads: calls are lost or late ("lose"), a page closes mid-refresh ("close"), a
\* "logout", a failed login ("mistake"), a password change ("revoke").
World == [pairs: 0..MaxPairs, locks: BOOLEAN, patient: BOOLEAN,
          events: SUBSET {"lose", "close", "logout", "mistake", "revoke"}]

ASSUME SessionAssumption ==
    /\ Nobody \notin Users \cup Tabs
    /\ MaxPairs \in Nat
    /\ Worlds \subseteq World

VARIABLES world,    \* which of the Worlds it is; it never changes
          store,    \* localStorage: auth_token, refresh_token, token_expires_at, auth_user
          auth,     \* the auth store of each tab: token, refreshTokenValue, user
          timer,    \* tokenRefreshTimeoutId and performTokenRefresh
          req,      \* the GET /auth/me of refreshUser
          rf,       \* inFlightRefresh of each tab
          out,      \* the refresh token a pending logout asked to revoke
          lock,     \* holder of the sub2api-auth-token-refresh Web Lock
          issued,   \* number of pairs issued
          owner,    \* user of each pair
          live,     \* refresh tokens in Redis
          expired,  \* access tokens the server no longer accepts
          orphans   \* refresh tokens in requests whose tab has given up

client == <<store, auth, timer, req, rf, out, lock>>
server == <<issued, owner, live, expired, orphans>>
vars == <<world, store, auth, timer, req, rf, out, lock, issued, owner, live, expired, orphans>>

None == 0
NotLeaving == -1
Pairs == 1..MaxPairs
Tokens == 0..MaxPairs
Accounts == Users \cup {Nobody}

Empty == [access |-> None, refresh |-> None, exp |-> None, user |-> Nobody]
NoAuth == [token |-> None, refresh |-> None, user |-> Nobody]
NoReq == [pc |-> "idle", token |-> None, refresh |-> None, user |-> Nobody]
NoRefresh == [pc |-> "idle", access |-> None, refresh |-> None, user |-> Nobody,
              failed |-> None, got |-> Empty, error |-> "none"]

ReqPcs == {"idle", "sent", "refreshing", "retry"}
RefreshPcs == {"idle", "locking", "posted", "checked", "replied", "rejected", "waiting"}
Stored == [access: Tokens, refresh: Tokens, exp: Tokens, user: Accounts]
AuthState == [token: Tokens, refresh: Tokens, user: Accounts]
ReqState == [pc: ReqPcs, token: Tokens, refresh: Tokens, user: Accounts]
RefreshState == [pc: RefreshPcs, access: Tokens, refresh: Tokens, user: Accounts, failed: Tokens,
                 got: Stored, error: {"none", "refused", "unavailable", "changed"}]

TypeOK ==
    /\ world \in Worlds
    /\ store \in Stored
    /\ auth \in [Tabs -> AuthState]
    /\ timer \in [Tabs -> {"off", "armed", "awaiting"}]
    /\ req \in [Tabs -> ReqState]
    /\ rf \in [Tabs -> RefreshState]
    /\ out \in [Tabs -> Tokens \cup {NotLeaving}]
    /\ lock \in Tabs \cup {Nobody}
    /\ issued \in Tokens
    /\ owner \in [Pairs -> Accounts]
    /\ live \subseteq Pairs
    /\ expired \subseteq Pairs
    /\ orphans \subseteq Pairs

Init ==
    /\ world \in Worlds
    /\ store = Empty
    /\ auth = [t \in Tabs |-> NoAuth]
    /\ timer = [t \in Tabs |-> "off"]
    /\ req = [t \in Tabs |-> NoReq]
    /\ rf = [t \in Tabs |-> NoRefresh]
    /\ out = [t \in Tabs |-> NotLeaving]
    /\ lock = Nobody
    /\ issued = 0
    /\ owner = [p \in Pairs |-> Nobody]
    /\ live = {}
    /\ expired = {}
    /\ orphans = {}

-----------------------------------------------------------------------------
(* The server                                                               *)

\* GenerateTokenPair: pair n for user u replaces the tokens of old.
IssuePair(u, old) ==
    /\ issued < world.pairs
    /\ issued' = issued + 1
    /\ owner' = [owner EXCEPT ![issued + 1] = u]
    /\ live' = (live \ old) \cup {issued + 1}

\* jwtAuth
Accepts(token) == token # None /\ token \notin expired

\* Access tokens all live equally long, so they expire in the order of issue.
Expire(p) ==
    /\ p <= issued /\ p \notin expired
    /\ 1..(p - 1) \subseteq expired
    /\ world.patient => \A t \in Tabs : rf[t].pc = "idle" /\ req[t].pc # "retry"
    /\ expired' = expired \cup {p}
    /\ UNCHANGED <<client, issued, owner, live, orphans>>

\* A password change: the token version of every pair of u is out of date.
\* RefreshTokenPair then finds the version wrong and revokes the family.
Revoke(u) ==
    /\ "revoke" \in world.events
    /\ \E p \in live : owner[p] = u
    /\ live' = {p \in live : owner[p] # u}
    /\ expired' = expired \cup {p \in Pairs : owner[p] = u}
    /\ UNCHANGED <<client, issued, owner, orphans>>

\* A refresh request whose tab gave up is served late.
ServeOrphan(p) ==
    /\ p \in orphans
    /\ orphans' = orphans \ {p}
    /\ \/ p \in live /\ IssuePair(owner[p], {p})
       \/ p \notin live /\ UNCHANGED <<issued, owner, live>>
    /\ UNCHANGED <<client, expired>>

\* RefreshTokenPair reads the token ...
ServerReads(t) ==
    /\ rf[t].pc = "posted"
    /\ rf' = [rf EXCEPT ![t].pc = IF rf[t].refresh \in live THEN "checked" ELSE "rejected"]
    /\ UNCHANGED <<store, auth, timer, req, out, lock, server>>

\* ... and later deletes it and issues the next pair: two requests that both
\* read it both get one.
ServerRotates(t) ==
    /\ rf[t].pc = "checked"
    /\ IssuePair(owner[rf[t].refresh], {rf[t].refresh})
    /\ rf' = [rf EXCEPT ![t].pc = "replied",
                        ![t].got = [access |-> issued + 1, refresh |-> issued + 1,
                                    exp |-> issued + 1, user |-> owner[rf[t].refresh]]]
    /\ UNCHANGED <<store, auth, timer, req, out, lock, expired, orphans>>

-----------------------------------------------------------------------------
(* tokenRefresh.ts                                                          *)

\* readPeerRefreshResult: the stored pair, if another tab put a fresh one there
\* for the user the refresh started with.
PeerResult(r) ==
    /\ store.access # None /\ store.refresh # None
    /\ store.exp # None /\ store.exp \notin expired
    /\ store.user = r.user
    /\ \/ store.refresh # r.refresh
       \/ r.failed # None /\ r.access # r.failed /\ store.access = r.access

\* refreshAuthTokens: join the refresh in flight, or read a snapshot and start.
StartRefresh(t, failed) ==
    IF rf[t].pc # "idle" THEN rf[t]
    ELSE [NoRefresh EXCEPT !.pc = "locking", !.access = store.access,
            !.refresh = store.refresh, !.user = store.user, !.failed = failed]

\* The Web Lock goes with the callback that holds it.
Unlock(t) == IF lock = t THEN Nobody ELSE lock

\* The 401 handler of client.ts compares what it read at the 401 with now.
SessionChanged(t) == store.refresh # req[t].refresh \/ store.user # req[t].user

\* The shared promise fulfils with a pair, after storage became st: both
\* performTokenRefresh and the request that waits for it continue.  The request
\* interceptor attaches the stored token to the retry.
Fulfil(t, st, pair) ==
    LET proactive == timer[t] = "awaiting"
    IN /\ rf' = [rf EXCEPT ![t] = NoRefresh]
       /\ lock' = Unlock(t)
       /\ timer' = [timer EXCEPT ![t] = IF proactive THEN "armed" ELSE @]
       /\ auth' = [auth EXCEPT ![t] = IF proactive THEN [@ EXCEPT !.token = pair.access,
                                                                  !.refresh = pair.refresh]
                                      ELSE @]
       /\ store' = IF proactive THEN [st EXCEPT !.exp = pair.exp] ELSE st
       /\ req' = [req EXCEPT ![t] = IF @.pc # "refreshing" THEN @
                                    ELSE [@ EXCEPT !.pc = "retry", !.token = st.access]]

\* TOKEN_REFRESH_FAILED: the handler forgets the session and goes to /login.
\* AUTH_SESSION_CHANGED: it does not, but its status is 401, on which refreshUser
\* clears the store.  TOKEN_REFRESH_UNAVAILABLE: nothing is cleared.
Reject(t, error) ==
    LET waits == req[t].pc = "refreshing"
        clears == waits /\ (SessionChanged(t) \/ error # "unavailable")
    IN /\ rf' = [rf EXCEPT ![t] = NoRefresh]
       /\ lock' = Unlock(t)
       /\ timer' = [timer EXCEPT ![t] = IF clears \/ @ = "awaiting" THEN "off" ELSE @]
       /\ auth' = IF clears THEN [auth EXCEPT ![t] = NoAuth] ELSE auth
       /\ store' = IF clears THEN Empty ELSE store
       /\ req' = IF waits THEN [req EXCEPT ![t] = NoReq] ELSE req

\* Mutant of Acquire: the callback runs without waiting for the lock.
AcquireUnlocked(t) ==
    /\ rf[t].pc = "locking"
    /\ \/ PeerResult(rf[t]) /\ Fulfil(t, store, store)
       \/ /\ ~PeerResult(rf[t])
          /\ rf' = [rf EXCEPT ![t].pc = "posted"]
          /\ UNCHANGED <<store, auth, timer, req, lock>>
    /\ UNCHANGED <<out, server>>

\* The body of runRefresh, entered under the Web Lock where there is one.
Acquire(t) ==
    /\ rf[t].pc = "locking"
    /\ world.locks => lock = Nobody
    /\ \/ PeerResult(rf[t]) /\ Fulfil(t, store, store)
       \/ /\ ~PeerResult(rf[t])
          /\ lock' = IF world.locks THEN t ELSE lock
          /\ rf' = [rf EXCEPT ![t].pc = "posted"]
          /\ UNCHANGED <<store, auth, timer, req>>
    /\ UNCHANGED <<out, server>>

\* Mutant of PersistReply: the answer is stored whatever happened meanwhile.
PersistUnchecked(t) ==
    /\ rf[t].pc = "replied"
    /\ Fulfil(t, [rf[t].got EXCEPT !.user = store.user], rf[t].got)
    /\ UNCHANGED <<out, server>>

\* Mutant of PersistReply: the access token is not stored.
PersistRefreshOnly(t) ==
    /\ rf[t].pc = "replied"
    /\ Fulfil(t, [store EXCEPT !.refresh = rf[t].got.refresh], rf[t].got)
    /\ UNCHANGED <<out, server>>

\* requestTokenPair, the answer: persistTokenPair unless the session changed.
PersistReply(t) ==
    /\ rf[t].pc = "replied"
    /\ \/ /\ store.refresh = rf[t].refresh /\ store.user = rf[t].user
          /\ Fulfil(t, [rf[t].got EXCEPT !.user = store.user], rf[t].got)
       \/ /\ store.refresh # rf[t].refresh \/ store.user # rf[t].user
          /\ \/ PeerResult(rf[t]) /\ Fulfil(t, store, store)
             \/ /\ ~PeerResult(rf[t])
                /\ rf' = [rf EXCEPT ![t].pc = "waiting", ![t].error = "changed"]
                /\ UNCHANGED <<store, auth, timer, req, lock>>
    /\ UNCHANGED <<out, server>>

\* requestTokenPair, a 4xx answer.
Refused(t) ==
    /\ rf[t].pc = "rejected"
    /\ rf' = [rf EXCEPT ![t].pc = "waiting", ![t].error = "refused"]
    /\ UNCHANGED <<store, auth, timer, req, out, lock, server>>

\* requestTokenPair, no answer: lost, timed out, 429 or 5xx.
Abandon(t) ==
    /\ "lose" \in world.events
    /\ rf[t].pc \in {"posted", "checked", "replied"}
    /\ rf' = [rf EXCEPT ![t].pc = "waiting", ![t].error = "unavailable"]
    /\ orphans' = IF rf[t].pc = "replied" THEN orphans ELSE orphans \cup {rf[t].refresh}
    /\ UNCHANGED <<store, auth, timer, req, out, lock, issued, owner, live, expired>>

\* Without locks a refused tab outwaits a peer that sent the same token.
PeerPending(t) ==
    /\ world.patient /\ ~world.locks /\ rf[t].error = "refused"
    /\ \E u \in Tabs \ {t} : /\ rf[u].pc \in {"posted", "checked", "replied"}
                             /\ rf[u].refresh = rf[t].refresh

\* waitForPeerRefresh
WaitForPeer(t) ==
    /\ rf[t].pc = "waiting"
    /\ \/ PeerResult(rf[t]) /\ Fulfil(t, store, store)
       \/ ~PeerResult(rf[t]) /\ ~PeerPending(t) /\ Reject(t, rf[t].error)
    /\ UNCHANGED <<out, server>>

-----------------------------------------------------------------------------
(* Requests, timers and the user                                            *)

\* The page goes away: its refresh is abandoned, and the browser frees the lock.
Unload(t) ==
    /\ rf' = [rf EXCEPT ![t] = NoRefresh]
    /\ lock' = Unlock(t)
    /\ out' = [out EXCEPT ![t] = NotLeaving]
    /\ orphans' = IF rf[t].pc \in {"posted", "checked"} THEN orphans \cup {rf[t].refresh}
                  ELSE orphans

\* refreshUser: the request interceptor attaches the stored token.
RefreshUser(t) ==
    /\ auth[t].token # None /\ req[t].pc = "idle"
    /\ req' = [req EXCEPT ![t] = [NoReq EXCEPT !.pc = "sent", !.token = store.access]]
    /\ UNCHANGED <<store, auth, timer, rf, out, lock, server>>

UserLoaded(t) ==
    /\ req[t].pc \in {"sent", "retry"} /\ Accepts(req[t].token)
    /\ auth' = [auth EXCEPT ![t].user = owner[req[t].token]]
    /\ store' = [store EXCEPT !.user = owner[req[t].token]]
    /\ req' = [req EXCEPT ![t] = NoReq]
    /\ UNCHANGED <<timer, rf, out, lock, server>>

\* 401 on a first attempt with a refresh token at hand.
Unauthorized(t) ==
    /\ req[t].pc = "sent" /\ ~Accepts(req[t].token) /\ store.refresh # None
    /\ req' = [req EXCEPT ![t] = [@ EXCEPT !.pc = "refreshing", !.refresh = store.refresh,
                                           !.user = store.user]]
    /\ rf' = [rf EXCEPT ![t] = StartRefresh(t, req[t].token)]
    /\ UNCHANGED <<store, auth, timer, out, lock, server>>

\* 401 on a first attempt without one: clear and go to /login.
UnauthorizedNoRefresh(t) ==
    /\ req[t].pc = "sent" /\ ~Accepts(req[t].token) /\ store.refresh = None
    /\ store' = Empty
    /\ auth' = [auth EXCEPT ![t] = NoAuth]
    /\ timer' = [timer EXCEPT ![t] = "off"]
    /\ req' = [req EXCEPT ![t] = NoReq]
    /\ Unload(t)
    /\ UNCHANGED <<issued, owner, live, expired>>

\* 401 on the retry: refreshUser clears the store.
RetryUnauthorized(t) ==
    /\ req[t].pc = "retry" /\ ~Accepts(req[t].token)
    /\ store' = Empty
    /\ auth' = [auth EXCEPT ![t] = NoAuth]
    /\ timer' = [timer EXCEPT ![t] = "off"]
    /\ req' = [req EXCEPT ![t] = NoReq]
    /\ UNCHANGED <<rf, out, lock, server>>

RequestLost(t) ==
    /\ "lose" \in world.events
    /\ req[t].pc \in {"sent", "retry"}
    /\ req' = [req EXCEPT ![t] = NoReq]
    /\ UNCHANGED <<store, auth, timer, rf, out, lock, server>>

\* performTokenRefresh: returns without a token of its own, throws without a
\* stored one, and is not scheduled again.
PerformTokenRefresh(t) ==
    /\ timer[t] = "armed"
    /\ \/ /\ auth[t].refresh # None
          /\ rf[t].pc # "idle" \/ store.refresh # None
          /\ timer' = [timer EXCEPT ![t] = "awaiting"]
          /\ rf' = [rf EXCEPT ![t] = StartRefresh(t, None)]
       \/ /\ auth[t].refresh = None \/ (rf[t].pc = "idle" /\ store.refresh = None)
          /\ timer' = [timer EXCEPT ![t] = "off"]
          /\ UNCHANGED rf
    /\ UNCHANGED <<store, auth, req, out, lock, server>>

\* login, login2FA, loginWithPasskey and register, with setAuthFromResponse.
Login(t, u) ==
    /\ auth[t].token = None
    /\ IssuePair(u, {})
    /\ store' = [access |-> issued + 1, refresh |-> issued + 1, exp |-> issued + 1,
                 user |-> u]
    /\ auth' = [auth EXCEPT ![t] = [token |-> issued + 1, refresh |-> issued + 1, user |-> u]]
    /\ timer' = [timer EXCEPT ![t] = "armed"]
    /\ UNCHANGED <<req, rf, out, lock, expired, orphans>>

\* A failed login clears the shared storage too.
LoginFails(t) ==
    /\ "mistake" \in world.events
    /\ auth[t].token = None
    /\ store' = Empty
    /\ auth' = [auth EXCEPT ![t] = NoAuth]
    /\ timer' = [timer EXCEPT ![t] = "off"]
    /\ UNCHANGED <<req, rf, out, lock, server>>

\* logout asks the server to revoke the stored refresh token ...
Logout(t) ==
    /\ "logout" \in world.events
    /\ auth[t].token # None /\ out[t] = NotLeaving
    /\ out' = [out EXCEPT ![t] = store.refresh]
    /\ UNCHANGED <<store, auth, timer, req, rf, lock, server>>

\* ... and clears everything whatever the answer; the server may not have heard.
LogoutAnswered(t) ==
    /\ out[t] # NotLeaving
    /\ out' = [out EXCEPT ![t] = NotLeaving]
    /\ \/ live' = live \ {out[t]}
       \/ "lose" \in world.events /\ UNCHANGED live
    /\ store' = Empty
    /\ auth' = [auth EXCEPT ![t] = NoAuth]
    /\ timer' = [timer EXCEPT ![t] = "off"]
    /\ UNCHANGED <<req, rf, lock, issued, owner, expired, orphans>>

\* A page load runs checkAuth.
Load(t) ==
    /\ "close" \in world.events \/ rf[t].pc = "idle"
    /\ Unload(t)
    /\ LET signedIn == store.access # None /\ store.user # Nobody
       IN /\ auth' = [auth EXCEPT ![t] =
                         IF signedIn THEN [token |-> store.access, refresh |-> store.refresh,
                                           user |-> store.user]
                         ELSE NoAuth]
          /\ req' = [req EXCEPT ![t] =
                        IF signedIn THEN [NoReq EXCEPT !.pc = "sent", !.token = store.access]
                        ELSE NoReq]
          /\ timer' = [timer EXCEPT ![t] =
                          IF signedIn /\ store.refresh # None /\ store.exp # None
                          THEN "armed" ELSE "off"]
    /\ UNCHANGED <<store, issued, owner, live, expired>>

Refreshing(t) ==
    \/ Acquire(t) \/ ServerReads(t) \/ ServerRotates(t) \/ PersistReply(t)
    \/ Refused(t) \/ WaitForPeer(t)

Answered(t) ==
    \/ UserLoaded(t) \/ Unauthorized(t) \/ UnauthorizedNoRefresh(t) \/ RetryUnauthorized(t)

Step ==
    \/ \E t \in Tabs :
        \/ Refreshing(t) \/ Answered(t) \/ Abandon(t) \/ RequestLost(t)
        \/ RefreshUser(t) \/ PerformTokenRefresh(t)
        \/ \E u \in Users : Login(t, u)
        \/ LoginFails(t) \/ Logout(t) \/ LogoutAnswered(t) \/ Load(t)
    \/ \E p \in Pairs : Expire(p) \/ ServeOrphan(p)
    \/ \E u \in Users : Revoke(u)

Next == Step /\ UNCHANGED world

Spec == Init /\ [][Next]_vars

-----------------------------------------------------------------------------
(* Properties                                                               *)

\* However the refreshes of several tabs race (no call lost, nobody leaves), the
\* browser keeps a refresh token the server accepts, or the answer that carries
\* the next one is about to be stored (tokenRefresh.ts, refreshAuthTokens).
SessionSurvives ==
    issued > 0 /\ world.events = {} =>
        \/ store.refresh \in live
        \/ \E t \in Tabs : rf[t].pc = "replied" /\ rf[t].refresh = store.refresh

\* A refresh in flight never brings back a session that was logged out: a refresh
\* token appears in empty storage only by a login (requestTokenPair).
LoggedOutStaysOut ==
    [][store.refresh = None /\ store'.refresh # None
        => \E t \in Tabs : auth[t].token = None /\ auth'[t].token = store'.refresh]_vars

\* The stored access and refresh token are always of one pair, so that a tab that
\* adopts them after a page load or from a peer gets a matching pair.
StoredPairWhole == store.access = store.refresh
=============================================================================
