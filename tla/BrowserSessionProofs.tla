------------------------ MODULE BrowserSessionProofs ------------------------
(***************************************************************************)
(* What holds of the session in any number of tabs, for any accounts, with   *)
(* or without Web Locks, and whatever is lost, closed or revoked.  A refresh *)
(* in flight carries the refresh token it started with, which is never       *)
(* empty: so it never stores a pair where no session is left.  And, for one  *)
(* account and while nothing fails, the session survives every race.         *)
(***************************************************************************)
EXTENDS BrowserSession, TLAPS

\* A refresh starts from a stored refresh token.
Started == \A t \in Tabs : rf[t].pc # "idle" => rf[t].refresh # None

\* What is stored, and what is about to be, is of one pair.
Whole ==
    /\ StoredPairWhole
    /\ \A t \in Tabs : rf[t].pc = "replied" => rf[t].got.access = rf[t].got.refresh

\* What a tab does.
TabStep(t) ==
    \/ Refreshing(t) \/ Answered(t) \/ Abandon(t) \/ RequestLost(t)
    \/ RefreshUser(t) \/ PerformTokenRefresh(t)
    \/ \E u \in Users : Login(t, u)
    \/ LoginFails(t) \/ Logout(t) \/ LogoutAnswered(t) \/ Load(t)

IInv == TypeOK /\ Started /\ Whole

ClientTyped ==
    /\ store \in Stored /\ auth \in [Tabs -> AuthState]
    /\ timer \in [Tabs -> {"off", "armed", "awaiting"}]
    /\ req \in [Tabs -> ReqState] /\ rf \in [Tabs -> RefreshState]
    /\ out \in [Tabs -> Tokens \cup {NotLeaving}]
    /\ lock \in Tabs \cup {Nobody}
ServerTyped ==
    /\ issued \in Tokens /\ owner \in [Pairs -> Accounts]
    /\ live \subseteq Pairs /\ expired \subseteq Pairs /\ orphans \subseteq Pairs

\* The type invariant in parts: the world, the browser, the server.
LEMMA TypeParts == /\ TypeOK <=> world \in Worlds /\ ClientTyped /\ ServerTyped
                   /\ TypeOK' <=> world' \in Worlds /\ ClientTyped' /\ ServerTyped'
BY DEF TypeOK, ClientTyped, ServerTyped

\* The empty values have their types.
LEMMA EmptyTypes == /\ Empty \in Stored /\ NoAuth \in AuthState /\ NoReq \in ReqState /\ NoRefresh \in RefreshState
                    /\ None \in Tokens /\ Nobody \in Accounts
<1>1. None \in Tokens /\ Nobody \in Accounts
  BY SessionAssumption DEF None, Tokens, Accounts
<1>2. Empty \in Stored
  BY <1>1 DEF Empty, Stored
<1> QED
  BY <1>1, <1>2 DEF NoAuth, NoReq, NoRefresh, AuthState, ReqState, RefreshState, ReqPcs, RefreshPcs

\* The server numbers the pairs it issues.
LEMMA IssueType ==
    ASSUME TypeOK, NEW u \in Accounts, NEW old, IssuePair(u, old)
    PROVE  issued + 1 \in Pairs /\ issued + 1 \in Tokens /\ issued' \in Tokens
           /\ owner' \in [Pairs -> Accounts] /\ live' \subseteq Pairs
<1>1. world.pairs \in 0..MaxPairs /\ MaxPairs \in Nat /\ issued \in 0..MaxPairs
  BY SessionAssumption DEF TypeOK, World, Tokens
<1>2. issued + 1 \in Pairs /\ issued + 1 \in Tokens /\ issued' \in Tokens
  BY <1>1 DEF IssuePair, Pairs, Tokens
<1> QED
  BY <1>2 DEF IssuePair, TypeOK

\* A refresh that starts has its type.
LEMMA StartType == ASSUME TypeOK, NEW t \in Tabs, NEW failed \in Tokens
                   PROVE  StartRefresh(t, failed) \in RefreshState
BY EmptyTypes DEF StartRefresh, TypeOK, RefreshState, RefreshPcs, Stored

\* A shared promise that fulfils or rejects keeps the types.
LEMMA FulfilType == ASSUME TypeOK, NEW t \in Tabs, NEW st \in Stored, NEW pair \in Stored, Fulfil(t, st, pair), UNCHANGED out
                    PROVE  ClientTyped'
<1>1. auth[t] \in AuthState /\ req[t] \in ReqState /\ NoRefresh \in RefreshState
  BY EmptyTypes DEF TypeOK
<1>2. [auth[t] EXCEPT !.token = pair.access, !.refresh = pair.refresh] \in AuthState
  BY <1>1 DEF AuthState, Stored
<1>3. [req[t] EXCEPT !.pc = "retry", !.token = st.access] \in ReqState
  BY <1>1 DEF ReqState, Stored, ReqPcs
<1>4. [st EXCEPT !.exp = pair.exp] \in Stored
  BY DEF Stored
<1> QED
  BY <1>1, <1>2, <1>3, <1>4 DEF Fulfil, TypeOK, ClientTyped, Unlock

\* A rejected promise keeps the types.
LEMMA RejectType == ASSUME TypeOK, NEW t \in Tabs, NEW e, Reject(t, e), UNCHANGED out
                    PROVE  ClientTyped'
BY EmptyTypes DEF Reject, TypeOK, ClientTyped, Unlock

\* A tab that unloads keeps the types.
LEMMA UnloadType == ASSUME TypeOK, NEW t \in Tabs, Unload(t)
                    PROVE  /\ rf' \in [Tabs -> RefreshState] /\ lock' \in Tabs \cup {Nobody}
                           /\ out' \in [Tabs -> Tokens \cup {NotLeaving}]
BY EmptyTypes DEF Unload, TypeOK, Unlock
\* A refresh is of a pair the server knows.
LEMMA RefreshPair == ASSUME TypeOK, Started, NEW t \in Tabs, rf[t].pc # "idle"
                     PROVE  rf[t].refresh \in Pairs /\ owner[rf[t].refresh] \in Accounts
<1>1. rf[t].refresh \in Tokens /\ rf[t].refresh # None
  BY DEF TypeOK, RefreshState, Started
<1>2. rf[t].refresh \in Pairs
  BY <1>1, SessionAssumption DEF Tokens, Pairs, None
<1> QED
  BY <1>2 DEF TypeOK

\* A token is one of an issued pair.
LEMMA TokenPair == ASSUME TypeOK, NEW n \in Tokens, n # None
                   PROVE  n \in Pairs /\ owner[n] \in Accounts
<1>1. n \in Pairs
  BY SessionAssumption DEF Tokens, Pairs, None
<1> QED
  BY <1>1 DEF TypeOK

\* The types, of the browser ...
LEMMA ClientTypeStep == ASSUME TypeOK, Started, NEW t \in Tabs, TabStep(t)
                        PROVE  ClientTyped'
<1> USE TypeParts, EmptyTypes
<1>1. CASE Acquire(t)
  <2>1. ASSUME rf' = [rf EXCEPT ![t].pc = "posted"], lock' = IF world.locks THEN t ELSE lock,
               UNCHANGED <<store, auth, timer, req, out>>
        PROVE  ClientTyped'
    BY <2>1 DEF ClientTyped, RefreshState, RefreshPcs
  <2> QED
    BY <1>1, <2>1, FulfilType DEF Acquire, TypeOK
<1>2. CASE ServerReads(t)
  BY <1>2 DEF ServerReads, ClientTyped, RefreshState, RefreshPcs
<1>3. CASE PersistReply(t)
  <2>1. rf[t].got \in Stored /\ store.user \in Accounts /\ store \in Stored
    BY DEF TypeOK, RefreshState, Stored
  <2>2. [rf[t].got EXCEPT !.user = store.user] \in Stored
    BY <2>1 DEF Stored
  <2>3. ASSUME rf' = [rf EXCEPT ![t].pc = "waiting", ![t].error = "changed"], UNCHANGED <<store, auth, timer, req, lock, out>>
        PROVE  ClientTyped'
    BY <2>3 DEF ClientTyped, RefreshState, RefreshPcs
  <2> QED
    BY <1>3, <2>1, <2>2, <2>3, FulfilType DEF PersistReply
<1>4. CASE ServerRotates(t)
  <2>1. owner[rf[t].refresh] \in Accounts
    BY <1>4, RefreshPair DEF ServerRotates
  <2>2. issued + 1 \in Tokens
    BY <1>4, <2>1, IssueType DEF ServerRotates
  <2>3. [access |-> issued + 1, refresh |-> issued + 1, exp |-> issued + 1, user |-> owner[rf[t].refresh]] \in Stored
    BY <2>1, <2>2 DEF Stored
  <2> QED
    BY <1>4, <2>3 DEF ServerRotates, ClientTyped, RefreshState, RefreshPcs
<1>5. CASE Refused(t)
  BY <1>5 DEF Refused, ClientTyped, RefreshState, RefreshPcs
<1>6. CASE WaitForPeer(t)
  BY <1>6, FulfilType, RejectType DEF WaitForPeer, TypeOK
<1>7. CASE UserLoaded(t)
  <2>1. owner[req[t].token] \in Accounts
    BY <1>7, TokenPair DEF UserLoaded, Accepts, TypeOK, ReqState
  <2> QED
    BY <1>7, <2>1 DEF UserLoaded, ClientTyped, AuthState, Stored
<1>8. CASE Unauthorized(t)
  <2>1. StartRefresh(t, req[t].token) \in RefreshState
    BY StartType DEF TypeOK, ReqState
  <2> QED
    BY <1>8, <2>1 DEF Unauthorized, ClientTyped, ReqState, ReqPcs, Stored
<1>9. CASE UnauthorizedNoRefresh(t)
  BY <1>9, UnloadType DEF UnauthorizedNoRefresh, ClientTyped
<1>10. CASE RetryUnauthorized(t)
  BY <1>10 DEF RetryUnauthorized, ClientTyped
<1>11. CASE Abandon(t)
  BY <1>11 DEF Abandon, ClientTyped, RefreshState, RefreshPcs
<1>12. CASE RequestLost(t)
  BY <1>12 DEF RequestLost, ClientTyped
<1>13. CASE RefreshUser(t)
  BY <1>13 DEF RefreshUser, ClientTyped, ReqState, ReqPcs, Stored
<1>14. CASE PerformTokenRefresh(t)
  BY <1>14, StartType DEF PerformTokenRefresh, ClientTyped
<1>15. CASE LoginFails(t)
  BY <1>15 DEF LoginFails, ClientTyped
<1>16. CASE Logout(t)
  BY <1>16 DEF Logout, ClientTyped, Stored
<1>17. CASE LogoutAnswered(t)
  BY <1>17 DEF LogoutAnswered, ClientTyped
<1>18. CASE Load(t)
  BY <1>18, UnloadType DEF Load, ClientTyped, AuthState, ReqState, ReqPcs, Stored
<1>19. ASSUME NEW u \in Users, Login(t, u) PROVE ClientTyped'
  <2>1. u \in Accounts /\ issued + 1 \in Tokens
    BY <1>19, IssueType DEF Login, Accounts
  <2> QED
    BY <1>19, <2>1 DEF Login, ClientTyped, Stored, AuthState
<1> QED
  BY <1>1, <1>2, <1>3, <1>4, <1>5, <1>6, <1>7, <1>8, <1>9, <1>10, <1>11, <1>12, <1>13, <1>14, <1>15, <1>16,
     <1>17, <1>18, <1>19 DEF TabStep, Refreshing, Answered

\* ... and of the server.
LEMMA ServerTypeStep == ASSUME TypeOK, Started, NEW t \in Tabs, TabStep(t)
                        PROVE  ServerTyped'
<1> USE TypeParts
<1>1. CASE ServerRotates(t)
  <2>1. owner[rf[t].refresh] \in Accounts
    BY <1>1, RefreshPair DEF ServerRotates
  <2> QED
    BY <1>1, <2>1, IssueType DEF ServerRotates, ServerTyped
<1>2. ASSUME NEW u \in Users, Login(t, u) PROVE ServerTyped'
  BY <1>2, IssueType DEF Login, ServerTyped, Accounts
<1>3. CASE Abandon(t)
  <2>1. rf[t].refresh \in Pairs
    BY <1>3, RefreshPair DEF Abandon
  <2> QED
    BY <1>3, <2>1 DEF Abandon, ServerTyped
<1>4. CASE UnauthorizedNoRefresh(t) \/ Load(t)
  <2>1. rf[t].pc \in {"posted", "checked"} => rf[t].refresh \in Pairs
    BY RefreshPair
  <2> QED
    BY <1>4, <2>1 DEF UnauthorizedNoRefresh, Load, Unload, ServerTyped
<1>5. CASE LogoutAnswered(t)
  BY <1>5 DEF LogoutAnswered, ServerTyped
<1>6. CASE UNCHANGED server
  BY <1>6 DEF server, ServerTyped
<1> QED
  BY <1>1, <1>2, <1>3, <1>4, <1>5, <1>6
  DEF TabStep, Refreshing, Answered, Acquire, ServerReads, PersistReply, Refused, WaitForPeer, UserLoaded, Unauthorized,
      RetryUnauthorized, RequestLost, RefreshUser, PerformTokenRefresh, LoginFails, Logout

\* A refresh begins only where a refresh token is stored, and keeps the one it began with.
LEMMA StartedStep == ASSUME TypeOK, Started, NEW t \in Tabs, TabStep(t)
                     PROVE  Started'
<1> USE TypeParts DEF Started, ClientTyped, RefreshState
<1>1. CASE UNCHANGED rf
  BY <1>1
<1>2. CASE rf' = [rf EXCEPT ![t] = NoRefresh]
  BY <1>2 DEF NoRefresh
<1>3. ASSUME NEW f, rf' = [rf EXCEPT ![t] = StartRefresh(t, f)], rf[t].pc # "idle" \/ store.refresh # None PROVE Started'
  BY <1>3 DEF StartRefresh, NoRefresh
<1>4. CASE ServerReads(t) \/ ServerRotates(t) \/ Refused(t) \/ Abandon(t)
  BY <1>4 DEF ServerReads, ServerRotates, Refused, Abandon
<1>5. CASE rf[t].pc = "locking" /\ rf' = [rf EXCEPT ![t].pc = "posted"]
  BY <1>5
<1>6. CASE rf[t].pc = "replied" /\ rf' = [rf EXCEPT ![t].pc = "waiting", ![t].error = "changed"]
  BY <1>6
<1> QED
  BY <1>1, <1>2, <1>3, <1>4, <1>5, <1>6
  DEF TabStep, Refreshing, Answered, Acquire, PersistReply, WaitForPeer, Fulfil, Reject, Unload, UserLoaded, Unauthorized,
      UnauthorizedNoRefresh, RetryUnauthorized, RequestLost, RefreshUser, PerformTokenRefresh, Login, LoginFails, Logout,
      LogoutAnswered, Load

\* Only whole pairs are written.
LEMMA WholeStep == ASSUME TypeOK, Whole, NEW t \in Tabs, TabStep(t)
                   PROVE  Whole'
<1> USE TypeParts DEF Whole, StoredPairWhole, ClientTyped, RefreshState, Stored
<1>0. store \in Stored /\ rf[t] \in RefreshState /\ rf[t].got \in Stored
  OBVIOUS
<1>1. CASE UNCHANGED <<store, rf>>
  BY <1>1
<1>2. ASSUME NEW st \in Stored, NEW pair \in Stored, st.access = st.refresh, Fulfil(t, st, pair) PROVE Whole'
  BY <1>2 DEF Fulfil, NoRefresh
<1>3. ASSUME NEW e, Reject(t, e) PROVE Whole'
  BY <1>3 DEF Reject, NoRefresh, Empty
<1>4. CASE Acquire(t) \/ WaitForPeer(t)
  BY <1>0, <1>2, <1>3, <1>4 DEF Acquire, WaitForPeer
<1>5. CASE PersistReply(t)
  <2>1. [rf[t].got EXCEPT !.user = store.user] \in Stored
    BY <1>0
  <2>2. [rf[t].got EXCEPT !.user = store.user].access = [rf[t].got EXCEPT !.user = store.user].refresh
    BY <1>0, <1>5 DEF PersistReply
  <2>3. ASSUME rf' = [rf EXCEPT ![t].pc = "waiting", ![t].error = "changed"], UNCHANGED store PROVE Whole'
    BY <1>0, <2>3
  <2> QED
    BY <1>0, <1>2, <1>5, <2>1, <2>2, <2>3 DEF PersistReply
<1>6. CASE ServerReads(t) \/ Refused(t) \/ Abandon(t)
  <2>1. UNCHANGED store /\ rf'[t].pc # "replied" /\ \A u \in Tabs \ {t} : rf'[u] = rf[u]
    <3>1. CASE ServerReads(t)
      BY <1>0, <3>1 DEF ServerReads
    <3>2. CASE Refused(t)
      BY <1>0, <3>2 DEF Refused
    <3>3. CASE Abandon(t)
      BY <1>0, <3>3 DEF Abandon
    <3> QED
      BY <1>6, <3>1, <3>2, <3>3
  <2> QED
    BY <1>0, <2>1
<1>11. CASE ServerRotates(t)
  BY <1>0, <1>11 DEF ServerRotates
<1>7. ASSUME NEW f, rf' = [rf EXCEPT ![t] = StartRefresh(t, f)], UNCHANGED store PROVE Whole'
  BY <1>7 DEF StartRefresh, NoRefresh
<1>8. CASE store' = Empty /\ (UNCHANGED rf \/ rf' = [rf EXCEPT ![t] = NoRefresh])
  <2>1. CASE UNCHANGED rf
    BY <1>8, <2>1 DEF Empty
  <2>2. CASE rf' = [rf EXCEPT ![t] = NoRefresh]
    BY <1>8, <2>2 DEF Empty, NoRefresh
  <2> QED
    BY <1>8, <2>1, <2>2
<1>9. CASE UserLoaded(t) \/ \E u \in Users : Login(t, u)
  BY <1>0, <1>9 DEF UserLoaded, Login
<1>10. CASE Load(t)
  BY <1>10 DEF Load, Unload, NoRefresh
<1> QED
  BY <1>1, <1>4, <1>5, <1>6, <1>7, <1>8, <1>9, <1>10, <1>11
  DEF TabStep, Refreshing, Answered, Unload, Unauthorized, UnauthorizedNoRefresh, RetryUnauthorized, RequestLost,
      RefreshUser, PerformTokenRefresh, LoginFails, Logout, LogoutAnswered

-----------------------------------------------------------------------------
\* The server's own steps.
LEMMA ServerStep ==
    ASSUME IInv, (\E p \in Pairs : Expire(p) \/ ServeOrphan(p)) \/ (\E u \in Users : Revoke(u))
    PROVE  ServerTyped' /\ UNCHANGED client
<1> USE TypeParts DEF IInv
<1>1. ASSUME NEW p \in Pairs, Expire(p) PROVE ServerTyped' /\ UNCHANGED client
  BY <1>1 DEF Expire, ServerTyped
<1>2. ASSUME NEW p \in Pairs, ServeOrphan(p) PROVE ServerTyped' /\ UNCHANGED client
  <2>1. owner[p] \in Accounts
    BY DEF ServerTyped
  <2> QED
    BY <1>2, <2>1, IssueType DEF ServeOrphan, ServerTyped
<1>3. ASSUME NEW u \in Users, Revoke(u) PROVE ServerTyped' /\ UNCHANGED client
  BY <1>3 DEF Revoke, ServerTyped
<1> QED
  BY <1>1, <1>2, <1>3

\* Every step keeps the invariant.
LEMMA InvStep == IInv /\ [Next]_vars => IInv'
<1> SUFFICES ASSUME IInv, [Next]_vars PROVE IInv'
  OBVIOUS
<1> USE TypeParts
<1>1. CASE UNCHANGED vars
  BY <1>1 DEF vars, IInv, Started, Whole, StoredPairWhole, ClientTyped, ServerTyped
<1>2. ASSUME NEW t \in Tabs, TabStep(t), UNCHANGED world PROVE IInv'
  BY <1>2, ClientTypeStep, ServerTypeStep, StartedStep, WholeStep DEF IInv
<1>3. ASSUME (\E p \in Pairs : Expire(p) \/ ServeOrphan(p)) \/ (\E u \in Users : Revoke(u)), UNCHANGED world PROVE IInv'
  <2>1. ServerTyped' /\ UNCHANGED <<store, auth, timer, req, rf, out, lock>>
    BY <1>3, ServerStep DEF client
  <2> QED
    BY <1>3, <2>1 DEF IInv, Started, Whole, StoredPairWhole, ClientTyped
<1> QED
  BY <1>1, <1>2, <1>3 DEF Next, Step, TabStep

\* The invariant holds throughout.
LEMMA InvHolds == Spec => []IInv
<1>1. Init => IInv
  <2> SUFFICES ASSUME Init PROVE IInv
    OBVIOUS
  <2>1. ClientTyped
    BY EmptyTypes DEF Init, ClientTyped
  <2>2. world \in Worlds /\ ServerTyped
    BY EmptyTypes, SessionAssumption DEF Init, ServerTyped, Tokens
  <2>3. Started /\ Whole
    BY DEF Init, Started, Whole, StoredPairWhole, Empty, NoRefresh
  <2> QED
    BY <2>1, <2>2, <2>3, TypeParts DEF IInv
<1> QED
  BY <1>1, InvStep, PTL DEF Spec

\* Every variable keeps its type, for any tabs, accounts and worlds.  That a request in
\* flight has a token is part of the argument: the server looks its owner up.
THEOREM SessionTypeCorrect == Spec => []TypeOK
<1>1. IInv => TypeOK
  BY DEF IInv
<1> QED
  BY <1>1, InvHolds, PTL

\* Whatever tabs race, close and lose, localStorage never holds the access token of one
\* pair with the refresh token of another (persistTokenPair, setAuthFromResponse).
THEOREM StoredPairWholeHolds == Spec => []StoredPairWhole
<1>1. IInv => StoredPairWhole
  BY DEF IInv, Whole
<1> QED
  BY <1>1, InvHolds, PTL

\* No refresh in flight brings a session back that was logged out (requestTokenPair
\* compares the storage with what it started from).
THEOREM LoggedOutStaysOutHolds == Spec => LoggedOutStaysOut
<1> DEFINE ByLogin == store.refresh = None /\ store'.refresh # None
                        => \E t \in Tabs : auth[t].token = None /\ auth'[t].token = store'.refresh
<1>1. IInv /\ [Next]_vars => [ByLogin]_vars
  <2> SUFFICES ASSUME IInv, Next, store.refresh = None, store'.refresh # None
               PROVE  \E t \in Tabs : auth[t].token = None /\ auth'[t].token = store'.refresh
    OBVIOUS
  <2>0. store' # store /\ store' # Empty /\ store \in Stored
    BY DEF Empty, IInv, TypeOK
  <2>1. PICK t \in Tabs : TabStep(t)
    BY <2>0, ServerStep DEF Next, Step, TabStep, client
  <2>2. ASSUME NEW pair, Fulfil(t, store, pair) PROVE FALSE
    BY <2>0, <2>2 DEF Fulfil, Stored
  <2>3. ~PersistReply(t)
    BY <2>0, <2>2 DEF PersistReply, IInv, Started
  <2>4. ~UserLoaded(t)
    BY <2>0 DEF UserLoaded, Stored
  <2>5. PICK u \in Users : Login(t, u)
    BY <2>0, <2>1, <2>2, <2>3, <2>4
    DEF TabStep, Refreshing, Answered, Acquire, ServerReads, ServerRotates, Refused, WaitForPeer, Reject, Unauthorized,
        UnauthorizedNoRefresh, RetryUnauthorized, Abandon, RequestLost, RefreshUser, PerformTokenRefresh, LoginFails,
        Logout, LogoutAnswered, Load
  <2> QED
    BY <2>5 DEF Login, IInv, TypeOK
<1> QED
  BY <1>1, InvHolds, PTL DEF Spec, LoggedOutStaysOut

-----------------------------------------------------------------------------
(* The session survives the races of refreshes: with one account, in a world  *)
(* where nothing is lost and nobody leaves.                                   *)

\* An access token outlives a refresh (a TTL is minutes, a refresh at most seconds).
Calm == world.events = {} /\ world.patient

\* The stages of a refresh under the Web Lock, and those after a 4xx answer.
Posted == {"posted", "checked", "replied", "rejected", "waiting"}
Refusals == {"rejected", "waiting"}

\* Every token was issued, to an account.
IssuedInv ==
    /\ live \subseteq 1..issued /\ expired \subseteq 1..issued
    /\ \A p \in 1..issued : owner[p] \in Users
    /\ store.refresh <= issued /\ store.exp = store.refresh
    /\ issued > 0 => store.user \in Users

\* A retry is sent with a token that is accepted when it arrives.
RetryInv == \A t \in Tabs : req[t].token <= issued /\ (req[t].pc = "retry" => Accepts(req[t].token))

\* A refresh that runs: the stored pair is the one it started with, or a fresh one of the
\* same account; under Web Locks it is alone; it is refused only for a token that is gone.
RunsInv(t) ==
    /\ rf[t].refresh <= issued
    /\ rf[t].pc # "idle" =>
         /\ rf[t].user = store.user
         /\ store.refresh # rf[t].refresh => store.refresh \notin expired
    /\ world.locks /\ rf[t].pc \in Posted => lock = t
    /\ rf[t].pc \in Refusals => rf[t].refresh \notin live
    /\ rf[t].pc = "waiting" => rf[t].error = "refused"

\* An answer carries a fresh pair that nobody has yet.
ReplyInv(t) ==
    rf[t].pc = "replied" =>
        /\ rf[t].got.refresh \in live \ expired
        /\ rf[t].got.exp = rf[t].got.refresh
        /\ rf[t].got.refresh # store.refresh
        /\ \A v \in Tabs : /\ rf[v].refresh # rf[t].got.refresh
                           /\ v # t /\ rf[v].pc = "replied" => rf[v].got.refresh # rf[t].got.refresh

\* The stored token is good, or its successor is on the way.
Kept ==
    issued > 0 => \/ store.refresh \in live
                  \/ \E t \in Tabs : rf[t].pc = "replied" /\ rf[t].refresh = store.refresh

Undisturbed == orphans = {} /\ \A t \in Tabs : out[t] = NotLeaving

Safe == IssuedInv /\ RetryInv /\ (\A t \in Tabs : RunsInv(t) /\ ReplyInv(t)) /\ Kept /\ Undisturbed

SurvivesInv == world.events = {} => Safe


\* What a step that is not disturbed, of one account, starts from.
Before == /\ IInv /\ Safe /\ Calm /\ TypeOK' /\ UNCHANGED world
          /\ \A u, v \in Users : u = v

\* The numbers are numbers.
LEMMA Numbers ==
    ASSUME TypeOK
    PROVE  /\ issued \in Nat /\ store.refresh \in Nat /\ store.access \in Nat /\ store.exp \in Nat
           /\ \A t \in Tabs : /\ rf[t].refresh \in Nat /\ req[t].token \in Nat
                              /\ rf[t].got \in Stored /\ rf[t].got.refresh \in Nat
<1> USE SessionAssumption DEF TypeOK, Stored, Tokens
<1>1. issued \in Nat /\ store.refresh \in Nat /\ store.access \in Nat /\ store.exp \in Nat
  OBVIOUS
<1>2. ASSUME NEW t \in Tabs PROVE rf[t].refresh \in Nat /\ req[t].token \in Nat /\ rf[t].got \in Stored
  BY DEF RefreshState, ReqState
<1>3. \A g \in Stored : g.refresh \in Nat
  OBVIOUS
<1> QED
  BY <1>1, <1>2, <1>3

\* A refresh runs only once a pair was issued, and then one is stored.
LEMMA SomePair == ASSUME IInv, Safe
                  PROVE  /\ issued > 0 => store.refresh > 0
                         /\ \A t \in Tabs : rf[t].pc # "idle" => rf[t].refresh > 0 /\ issued > 0
<1>1. ASSUME NEW t \in Tabs, rf[t].pc # "idle" PROVE rf[t].refresh > 0 /\ issued > 0
  <2>1. rf[t].refresh # 0 /\ rf[t].refresh \in Nat /\ issued \in Nat /\ rf[t].refresh <= issued
    BY <1>1, Numbers DEF IInv, Started, None, Safe, RunsInv
  <2> QED
    BY <2>1
<1>2. ASSUME issued > 0 PROVE store.refresh > 0
  <2>1. issued \in Nat /\ live \subseteq 1..issued
    BY Numbers DEF IInv, Safe, IssuedInv
  <2>2. ASSUME store.refresh \in live PROVE store.refresh > 0
    <3>1. store.refresh \in 1..issued
      BY <2>1, <2>2
    <3> QED
      BY <2>1, <3>1
  <2>3. ASSUME NEW t \in Tabs, rf[t].pc = "replied", rf[t].refresh = store.refresh PROVE store.refresh > 0
    BY <1>1, <2>3
  <2> QED
    BY <1>2, <2>2, <2>3 DEF Safe, Kept
<1> QED
  BY <1>1, <1>2

\* A refresh whose token is no longer the stored one finds the result of a peer: in a calm
\* world "the session changed" never happens.
LEMMA PeerThere == ASSUME Before, NEW t \in Tabs, rf[t].pc # "idle", store.refresh # rf[t].refresh
                   PROVE  PeerResult(rf[t])
<1>1. store.refresh > 0 /\ store.exp = store.refresh /\ store.access = store.refresh
  BY SomePair DEF Before, Safe, IssuedInv, IInv, Whole, StoredPairWhole
<1>2. store.user = rf[t].user /\ store.refresh \notin expired
  BY DEF Before, Safe, RunsInv
<1> QED
  BY <1>1, <1>2 DEF PeerResult, None

\* The stored pair that a refresh adopts is accepted.
LEMMA PeerAccepted == ASSUME Before, NEW t \in Tabs, PeerResult(rf[t])
                      PROVE  Accepts(store.access) /\ store.access <= issued
<1>1. store.exp = store.refresh /\ store.access = store.refresh /\ store.refresh <= issued
  BY DEF Before, Safe, IssuedInv, IInv, Whole, StoredPairWhole
<1> QED
  BY <1>1 DEF PeerResult, Accepts

\* One request changes.
LEMMA RetryOne ==
    ASSUME Before, NEW t \in Tabs, UNCHANGED <<issued, expired>>,
           \A v \in Tabs \ {t} : req'[v] = req[v],
           req'[t].token <= issued, req'[t].pc = "retry" => Accepts(req'[t].token)
    PROVE  RetryInv'
BY DEF Before, Safe, RetryInv, Accepts

\* A step of one refresh that leaves the stored pair and the server alone.
LEMMA RefreshAlone ==
    ASSUME Before, NEW t \in Tabs, UNCHANGED <<issued, owner, live, expired>>, Undisturbed',
           store'.refresh = store.refresh, store'.exp = store.exp, store'.user = store.user,
           \A v \in Tabs \ {t} : rf'[v] = rf[v],
           world.locks => \A v \in Tabs \ {t} : lock = v => lock' = v,
           RunsInv(t)', RetryInv',
           rf'[t].pc = "replied" => rf[t].pc = "replied" /\ rf'[t].got = rf[t].got,
           rf'[t].refresh \in {rf[t].refresh, store.refresh, None},
           rf[t].pc = "replied" /\ rf[t].refresh = store.refresh
               => rf'[t].pc = "replied" /\ rf'[t].refresh = rf[t].refresh
    PROVE  Safe'
<1>1. IssuedInv'
  BY DEF Before, Safe, IssuedInv
<1>2. ASSUME NEW v \in Tabs PROVE RunsInv(v)'
  BY DEF Before, Safe, RunsInv
<1>3. \A v \in Tabs : rf[v].pc = "replied" => rf[v].got.refresh # None
  BY Numbers DEF Before, IInv, Safe, ReplyInv, IssuedInv, None
<1>4. ASSUME NEW v \in Tabs PROVE ReplyInv(v)'
  BY <1>3 DEF Before, Safe, ReplyInv
<1>5. Kept'
  BY DEF Before, Safe, Kept
<1> QED
  BY <1>1, <1>2, <1>4, <1>5 DEF Safe


\* A refresh that ends with the pair of a peer.
LEMMA AdoptStep ==
    ASSUME Before, NEW t \in Tabs, PeerResult(rf[t]), Fulfil(t, store, store), UNCHANGED <<out, server>>,
           rf[t].pc # "replied" \/ store.refresh # rf[t].refresh
    PROVE  Safe'
<1>1. store' = store
  BY DEF Fulfil, Before, IInv, TypeOK, Stored
<1>2. rf'[t] = NoRefresh /\ \A v \in Tabs \ {t} : rf'[v] = rf[v]
  BY DEF Fulfil, Before, IInv, TypeOK
<1>3. \A v \in Tabs \ {t} : lock = v => lock' = v
  BY DEF Fulfil, Unlock
<1>4. RetryInv'
  <2>1. req[t] \in ReqState /\ \A v \in Tabs \ {t} : req'[v] = req[v]
    BY DEF Fulfil, Before, IInv, TypeOK
  <2>2. CASE req[t].pc # "refreshing"
    <3>1. req' = req
      BY <2>2 DEF Fulfil, Before, IInv, TypeOK
    <3> QED
      BY <3>1 DEF server, Before, Safe, RetryInv, Accepts
  <2>3. CASE req[t].pc = "refreshing"
    <3>1. req'[t].token = store.access
      BY <2>1, <2>3 DEF Fulfil, Before, IInv, TypeOK, ReqState
    <3> QED
      BY <2>1, <3>1, PeerAccepted, RetryOne DEF server
  <2> QED
    BY <2>2, <2>3
<1>5. RunsInv(t)'
  BY <1>2, Numbers DEF RunsInv, NoRefresh, None, Posted, Refusals, Before, IInv, server
<1> QED
  BY <1>1, <1>2, <1>3, <1>4, <1>5, RefreshAlone DEF NoRefresh, None, server, Undisturbed, Before, Safe

\* The token of a waiting refresh: stored, gone from the server, and no peer has its successor.
LEMMA NotRejected == ASSUME Before, NEW t \in Tabs, rf[t].pc = "waiting", ~PeerResult(rf[t])
                     PROVE  PeerPending(t)
<1>1. store.refresh = rf[t].refresh /\ rf[t].refresh \notin live /\ rf[t].error = "refused" /\ issued > 0
  BY PeerThere, SomePair DEF Before, Safe, RunsInv, Refusals
<1>2. PICK v \in Tabs : rf[v].pc = "replied" /\ rf[v].refresh = store.refresh
  BY <1>1 DEF Before, Safe, Kept
<1>3. ~world.locks
  BY <1>2 DEF Before, Safe, RunsInv, Posted
<1> QED
  BY <1>1, <1>2, <1>3 DEF PeerPending, Before, Calm

\* A refresh posts its token, alone under the lock.
LEMMA PostStep ==
    ASSUME Before, NEW t \in Tabs, Acquire(t), ~PeerResult(rf[t])
    PROVE  Safe'
<1>1. /\ rf' = [rf EXCEPT ![t].pc = "posted"] /\ rf[t].pc = "locking"
      /\ lock' = IF world.locks THEN t ELSE lock
      /\ world.locks => lock = Nobody
      /\ UNCHANGED <<store, req, issued, owner, live, expired, orphans, out>>
  BY DEF Acquire, server
<1>2. /\ rf'[t].pc = "posted" /\ rf'[t].refresh = rf[t].refresh /\ rf'[t].user = rf[t].user
      /\ \A v \in Tabs \ {t} : rf'[v] = rf[v]
  BY <1>1 DEF Before, IInv, TypeOK, RefreshState
<1>3. world.locks => \A v \in Tabs \ {t} : lock = v => lock' = v
  BY <1>1, SessionAssumption
<1>4. RetryInv'
  BY <1>1 DEF Before, Safe, RetryInv, Accepts
<1>5. RunsInv(t)'
  BY <1>1, <1>2 DEF RunsInv, Posted, Refusals, Before, Safe
<1> QED
  BY <1>1, <1>2, <1>3, <1>4, <1>5, RefreshAlone DEF Undisturbed, Before, Safe

\* The server reads the token; the answer is a refusal.
LEMMA ReadStep ==
    ASSUME Before, NEW t \in Tabs, ServerReads(t) \/ Refused(t)
    PROVE  Safe'
<1>1. UNCHANGED <<store, req, lock, issued, owner, live, expired, orphans, out>>
  BY DEF ServerReads, Refused, server
<1>2. /\ rf'[t].refresh = rf[t].refresh /\ rf'[t].user = rf[t].user /\ rf[t].pc \in {"posted", "rejected"}
      /\ rf'[t].pc \in {"checked", "rejected", "waiting"}
      /\ \A v \in Tabs \ {t} : rf'[v] = rf[v]
      /\ rf'[t].pc \in Refusals => rf[t].refresh \notin live
      /\ rf'[t].pc = "waiting" => rf'[t].error = "refused"
  <2>1. CASE ServerReads(t)
    BY <2>1 DEF ServerReads, Before, IInv, TypeOK, RefreshState, Refusals
  <2>2. CASE Refused(t)
    BY <2>2 DEF Refused, Before, IInv, TypeOK, RefreshState, Refusals, Safe, RunsInv
  <2> QED
    BY <2>1, <2>2
<1>4. RetryInv'
  BY <1>1 DEF Before, Safe, RetryInv, Accepts
<1>5. RunsInv(t)'
  BY <1>1, <1>2 DEF RunsInv, Posted, Before, Safe
<1> QED
  BY <1>1, <1>2, <1>4, <1>5, RefreshAlone DEF Undisturbed, Before, Safe


\* A refresh begins with the stored pair.
LEMMA StartFields ==
    ASSUME NEW t \in Tabs, NEW f, rf[t].pc = "idle"
    PROVE  /\ StartRefresh(t, f).pc = "locking" /\ StartRefresh(t, f).refresh = store.refresh
           /\ StartRefresh(t, f).user = store.user
BY DEF StartRefresh, NoRefresh

\* A refresh starts, or the one that runs is joined.
LEMMA StartStep ==
    ASSUME Before, NEW t \in Tabs, NEW f \in Tokens, rf' = [rf EXCEPT ![t] = StartRefresh(t, f)],
           rf[t].pc = "idle" => store.refresh # None, RetryInv',
           UNCHANGED <<store, lock, issued, owner, live, expired, orphans, out>>
    PROVE  Safe'
<1>1. rf'[t] = StartRefresh(t, f) /\ \A v \in Tabs \ {t} : rf'[v] = rf[v]
  BY DEF Before, IInv, TypeOK
<1>2. CASE rf[t].pc # "idle"
  <2>1. rf'[t] = rf[t]
    BY <1>1, <1>2 DEF StartRefresh
  <2>2. RunsInv(t)'
    BY <2>1 DEF Before, Safe, RunsInv
  <2> QED
    BY <1>1, <2>1, <2>2, RefreshAlone DEF Undisturbed, Before, Safe
<1>3. CASE rf[t].pc = "idle"
  <2>1. rf'[t].pc = "locking" /\ rf'[t].refresh = store.refresh /\ rf'[t].user = store.user
    BY <1>1, <1>3, StartFields
  <2>2. RunsInv(t)'
    BY <2>1 DEF Before, Safe, RunsInv, IssuedInv, Posted, Refusals
  <2> QED
    BY <1>1, <1>3, <2>1, <2>2, RefreshAlone DEF Undisturbed, Before, Safe
<1> QED
  BY <1>2, <1>3

\* A request is sent or answered, without a refresh.
LEMMA RequestStep ==
    ASSUME Before, NEW t \in Tabs, RetryInv', UNCHANGED <<rf, lock, issued, owner, live, expired, orphans, out>>,
           store'.refresh = store.refresh, store'.exp = store.exp, store'.user = store.user
    PROVE  Safe'
<1>1. RunsInv(t)'
  BY DEF Before, Safe, RunsInv
<1> QED
  BY <1>1, RefreshAlone DEF Undisturbed, Before, Safe

\* The profile that arrives is that of the one account.
LEMMA LoadedStep == ASSUME Before, NEW t \in Tabs, UserLoaded(t)
                    PROVE  Safe'
<1>1. /\ UNCHANGED <<rf, lock, issued, owner, live, expired, orphans, out>>
      /\ req' = [req EXCEPT ![t] = NoReq] /\ store' = [store EXCEPT !.user = owner[req[t].token]]
      /\ req[t].token # None
  BY DEF UserLoaded, server, Accepts
<1>2. req[t].token \in 1..issued /\ issued > 0
  BY <1>1, Numbers DEF Before, IInv, Safe, RetryInv, None
<1>3. owner[req[t].token] = store.user
  BY <1>2 DEF Before, Safe, IssuedInv
<1>4. store'.refresh = store.refresh /\ store'.exp = store.exp /\ store'.user = store.user
  BY <1>1, <1>3 DEF Before, IInv, TypeOK, Stored
<1>5. RetryInv'
  <2>1. req'[t] = NoReq /\ \A v \in Tabs \ {t} : req'[v] = req[v]
    BY <1>1 DEF Before, IInv, TypeOK
  <2> QED
    BY <1>1, <2>1, Numbers, RetryOne DEF NoReq, None, Before, IInv
<1> QED
  BY <1>1, <1>4, <1>5, RequestStep

\* The requests and the timer.
LEMMA AskStep == ASSUME Before, NEW t \in Tabs, RefreshUser(t) \/ Unauthorized(t) \/ PerformTokenRefresh(t)
                 PROVE  Safe'
<1>0. /\ store.access <= issued /\ req[t].token <= issued /\ req[t] \in ReqState
      /\ req \in [Tabs -> ReqState] /\ None \in Tokens
  BY SessionAssumption DEF Before, IInv, TypeOK, Whole, StoredPairWhole, Safe, IssuedInv, RetryInv, Tokens, None
<1>1. CASE RefreshUser(t)
  <2>1. req'[t].token = store.access /\ req'[t].pc = "sent" /\ \A v \in Tabs \ {t} : req'[v] = req[v]
    BY <1>0, <1>1 DEF RefreshUser, NoReq
  <2>2. RetryInv'
    BY <1>0, <1>1, <2>1, RetryOne DEF RefreshUser, server
  <2> QED
    BY <1>1, <2>2, RequestStep DEF RefreshUser, server
<1>2. CASE Unauthorized(t)
  <2>1. req'[t].token = req[t].token /\ req'[t].pc = "refreshing" /\ \A v \in Tabs \ {t} : req'[v] = req[v]
    BY <1>0, <1>2 DEF Unauthorized, ReqState
  <2>2. RetryInv'
    BY <1>0, <1>2, <2>1, RetryOne DEF Unauthorized, server
  <2>3. req[t].token \in Tokens
    BY <1>0 DEF ReqState
  <2> QED
    BY <1>2, <2>2, <2>3, StartStep DEF Unauthorized, server
<1>3. CASE PerformTokenRefresh(t)
  <2>1. UNCHANGED <<store, req, lock, issued, owner, live, expired, orphans, out>>
    BY <1>3 DEF PerformTokenRefresh, server
  <2>2. RetryInv'
    BY <2>1 DEF Before, Safe, RetryInv, Accepts
  <2>3. CASE rf' = rf
    BY <2>1, <2>2, <2>3, RequestStep
  <2>4. CASE rf' = [rf EXCEPT ![t] = StartRefresh(t, None)] /\ (rf[t].pc # "idle" \/ store.refresh # None)
    BY <1>0, <2>1, <2>2, <2>4, StartStep
  <2> QED
    BY <1>3, <2>3, <2>4 DEF PerformTokenRefresh
<1> QED
  BY <1>1, <1>2, <1>3

\* A page load, of a page with no refresh in flight.
LEMMA LoadStep == ASSUME Before, NEW t \in Tabs, Load(t)
                  PROVE  Safe'
<1>1. /\ rf[t].pc = "idle" /\ rf' = [rf EXCEPT ![t] = NoRefresh] /\ lock' = Unlock(t)
      /\ out' = [out EXCEPT ![t] = NotLeaving] /\ UNCHANGED <<store, issued, owner, live, expired, orphans>>
  BY DEF Load, Unload, Before, Calm
<1>2. rf'[t] = NoRefresh /\ \A v \in Tabs \ {t} : rf'[v] = rf[v]
  BY <1>1 DEF Before, IInv, TypeOK
<1>3. \A v \in Tabs \ {t} : lock = v => lock' = v
  BY <1>1 DEF Unlock
<1>4. RetryInv'
  <2>0. store.access <= issued /\ 0 <= issued
    BY Numbers DEF Before, IInv, Whole, StoredPairWhole, Safe, IssuedInv
  <2>1. /\ req'[t].token \in {store.access, None} /\ req'[t].pc # "retry"
        /\ \A v \in Tabs \ {t} : req'[v] = req[v]
    BY DEF Load, NoReq, Before, IInv, TypeOK
  <2> QED
    BY <1>1, <2>0, <2>1, RetryOne DEF None
<1>5. RunsInv(t)'
  BY <1>1, <1>2, Numbers DEF RunsInv, NoRefresh, None, Posted, Refusals, Before, IInv
<1>6. Undisturbed'
  BY <1>1 DEF Undisturbed, Before, Safe
<1> QED
  BY <1>1, <1>2, <1>3, <1>4, <1>5, <1>6, RefreshAlone DEF NoRefresh, None


\* The server rotates a token: the tab that sent it now has the answer.
LEMMA RotateStep == ASSUME Before, NEW t \in Tabs, ServerRotates(t)
                    PROVE  Safe'
<1>1. /\ rf[t].pc = "checked" /\ issued' = issued + 1 /\ owner' = [owner EXCEPT ![issued + 1] = owner[rf[t].refresh]]
      /\ live' = (live \ {rf[t].refresh}) \cup {issued + 1}
      /\ UNCHANGED <<store, req, out, lock, expired, orphans>>
  BY DEF ServerRotates, IssuePair
<1>2. /\ rf'[t].pc = "replied" /\ rf'[t].refresh = rf[t].refresh /\ rf'[t].user = rf[t].user
      /\ rf'[t].got.refresh = issued + 1 /\ rf'[t].got.exp = issued + 1
      /\ \A v \in Tabs \ {t} : rf'[v] = rf[v]
  BY DEF ServerRotates, Before, IInv, TypeOK, RefreshState
<1>3. /\ issued \in Nat /\ store.refresh \in Nat /\ \A v \in Tabs : rf[v].refresh \in Nat /\ req[v].token \in Nat
      /\ live \subseteq 1..issued /\ expired \subseteq 1..issued /\ store.refresh <= issued
      /\ \A v \in Tabs : rf[v].refresh <= issued /\ req[v].token <= issued
  BY Numbers DEF Before, IInv, Safe, IssuedInv, RunsInv, RetryInv
<1>4. rf[t].refresh \in 1..issued /\ issued > 0
  BY <1>1, <1>3, SomePair DEF Before
<1>5. issued + 1 \notin 1..issued /\ \A v \in Tabs : rf[v].refresh # issued + 1
  BY <1>3
<1>6. IssuedInv'
  <2>1. live' \subseteq 1..issued' /\ expired' \subseteq 1..issued' /\ store'.refresh <= issued'
    BY <1>1, <1>3
  <2>2. \A p \in 1..issued' : owner'[p] \in Users
    <3>1. owner[rf[t].refresh] \in Users /\ \A p \in 1..issued : owner[p] \in Users
      BY <1>4 DEF Before, Safe, IssuedInv
    <3>2. 1..issued' = 1..issued \cup {issued + 1}
      BY <1>1, <1>3
    <3>3. owner \in [Pairs -> Accounts] /\ issued' \in Tokens
      BY DEF Before, IInv, TypeOK
    <3>4. 1..issued' \subseteq Pairs
      BY <3>3, SessionAssumption DEF Tokens, Pairs
    <3> QED
      BY <1>1, <3>1, <3>2, <3>3, <3>4
  <2> QED
    BY <1>1, <1>4, <2>1, <2>2 DEF IssuedInv, Before, Safe
<1>7. RetryInv'
  BY <1>1, <1>3 DEF RetryInv, Accepts, Before, Safe
<1>8. ASSUME NEW v \in Tabs PROVE RunsInv(v)'
  <2>1. rf'[v].refresh = rf[v].refresh /\ rf'[v].user = rf[v].user /\ rf'[v].refresh <= issued'
    BY <1>1, <1>2, <1>3
  <2>2. CASE v = t
    BY <1>1, <1>2, <2>1, <2>2 DEF RunsInv, Posted, Refusals, Before, Safe
  <2>3. CASE v # t
    BY <1>1, <1>2, <1>5, <2>1, <2>3 DEF RunsInv, Before, Safe
  <2> QED
    BY <2>2, <2>3
<1>9. ASSUME NEW v \in Tabs PROVE ReplyInv(v)'
  <2>1. \A u \in Tabs \ {t} : rf[u].pc = "replied" => rf[u].got.refresh \in 1..issued
    BY <1>3 DEF ReplyInv, Before, Safe
  <2>2. CASE v = t
    BY <1>1, <1>2, <1>3, <1>5, <2>1, <2>2 DEF ReplyInv
  <2>3. CASE v # t
    BY <1>1, <1>2, <1>3, <1>5, <2>1, <2>3 DEF ReplyInv, Before, Safe
  <2> QED
    BY <2>2, <2>3
<1>10. Kept'
  BY <1>1, <1>2, <1>4 DEF Kept, Before, Safe
<1> QED
  BY <1>1, <1>6, <1>7, <1>8, <1>9, <1>10 DEF Safe, Undisturbed, Before

\* The answer is stored over the pair the refresh began with.
LEMMA PersistStep == ASSUME Before, NEW t \in Tabs, PersistReply(t)
                     PROVE  Safe'
<1>0. rf[t].pc = "replied" /\ rf[t].user = store.user /\ UNCHANGED <<out, server>>
  BY DEF PersistReply, Before, Safe, RunsInv
<1>1. CASE store.refresh # rf[t].refresh
  BY <1>0, <1>1, PeerThere, AdoptStep DEF PersistReply
<1>2. CASE store.refresh = rf[t].refresh
  <2>1. Fulfil(t, [rf[t].got EXCEPT !.user = store.user], rf[t].got)
    BY <1>0, <1>2 DEF PersistReply
  <2>2. /\ rf[t].got \in Stored /\ rf[t].got.access = rf[t].got.refresh /\ rf[t].got.exp = rf[t].got.refresh
        /\ rf[t].got.refresh \in live \ expired
        /\ \A v \in Tabs : rf[v].refresh # rf[t].got.refresh
    BY <1>0, Numbers DEF Before, IInv, Whole, Safe, ReplyInv
  <2>3. /\ store'.refresh = rf[t].got.refresh /\ store'.exp = rf[t].got.refresh /\ store'.user = store.user
    BY <2>1, <2>2 DEF Fulfil, Stored
  <2>4. rf'[t] = NoRefresh /\ \A v \in Tabs \ {t} : rf'[v] = rf[v]
    BY <2>1 DEF Fulfil, Before, IInv, TypeOK
  <2>5. \A v \in Tabs \ {t} : lock = v => lock' = v
    BY <2>1 DEF Fulfil, Unlock
  <2>6. rf[t].got.refresh \in 1..issued /\ issued \in Nat /\ UNCHANGED <<issued, owner, live, expired>> /\ Undisturbed'
    BY <1>0, <2>2, Numbers DEF Before, IInv, Safe, IssuedInv, server, Undisturbed
  <2>7. IssuedInv'
    BY <2>3, <2>6 DEF Before, Safe, IssuedInv
  <2>8. RetryInv'
    <3>1. req[t] \in ReqState /\ \A v \in Tabs \ {t} : req'[v] = req[v]
      BY <2>1 DEF Fulfil, Before, IInv, TypeOK
    <3>2. CASE req[t].pc # "refreshing"
      <4>1. req' = req
        BY <2>1, <3>2 DEF Fulfil, Before, IInv, TypeOK
      <4> QED
        BY <2>6, <4>1 DEF Before, Safe, RetryInv, Accepts
    <3>3. CASE req[t].pc = "refreshing"
      <4>1. req'[t].token = rf[t].got.refresh
        BY <2>1, <2>2, <3>1, <3>3 DEF Fulfil, Before, IInv, TypeOK, ReqState, Stored
      <4>2. Accepts(req'[t].token) /\ req'[t].token <= issued
        BY <2>2, <2>6, <4>1 DEF Accepts, None
      <4> QED
        BY <2>6, <3>1, <4>2, RetryOne
    <3> QED
      BY <3>2, <3>3
  <2>9. ASSUME NEW v \in Tabs PROVE RunsInv(v)'
    <3>1. CASE v = t
      BY <2>4, <2>6, <3>1 DEF RunsInv, NoRefresh, None, Posted, Refusals
    <3>2. CASE v # t
      BY <2>2, <2>3, <2>4, <2>5, <2>6, <3>2 DEF RunsInv, Before, Safe
    <3> QED
      BY <3>1, <3>2
  <2>10. ASSUME NEW v \in Tabs PROVE ReplyInv(v)'
    <3>1. NoRefresh.pc = "idle" /\ NoRefresh.refresh = 0
      BY DEF NoRefresh, None
    <3>2. rf[v].pc = "replied" => rf[v].got.refresh # 0
      BY Numbers DEF Before, IInv, Safe, IssuedInv, ReplyInv
    <3> QED
      BY <1>0, <2>3, <2>4, <2>6, <3>1, <3>2 DEF ReplyInv, Before, Safe
  <2>11. Kept'
    BY <2>2, <2>3, <2>6 DEF Kept
  <2> QED
    BY <2>6, <2>7, <2>8, <2>9, <2>10, <2>11 DEF Safe
<1> QED
  BY <1>1, <1>2

\* A login replaces the pair, of the same account, whatever refresh is under way.
LEMMA LoginStep == ASSUME Before, NEW t \in Tabs, NEW u \in Users, Login(t, u)
                   PROVE  Safe'
<1>1. /\ issued' = issued + 1 /\ owner' = [owner EXCEPT ![issued + 1] = u] /\ live' = live \cup {issued + 1}
      /\ UNCHANGED <<req, rf, out, lock, expired, orphans>>
      /\ store'.refresh = issued + 1 /\ store'.exp = issued + 1 /\ store'.user = u
  BY DEF Login, IssuePair
<1>3. /\ issued \in Nat /\ \A v \in Tabs : rf[v].refresh \in Nat /\ req[v].token \in Nat
      /\ live \subseteq 1..issued /\ expired \subseteq 1..issued
      /\ \A v \in Tabs : rf[v].refresh <= issued /\ req[v].token <= issued
  BY Numbers DEF Before, IInv, Safe, IssuedInv, RunsInv, RetryInv
<1>4. issued + 1 \notin 1..issued /\ \A v \in Tabs : rf[v].refresh # issued + 1
  BY <1>3
<1>5. IssuedInv'
  <2>1. 1..issued' = 1..issued \cup {issued + 1}
    BY <1>1, <1>3
  <2>2. owner \in [Pairs -> Accounts] /\ issued' \in Tokens
    BY DEF Before, IInv, TypeOK
  <2>3. 1..issued' \subseteq Pairs
    BY <2>2, SessionAssumption DEF Tokens, Pairs
  <2>4. \A p \in 1..issued' : owner'[p] \in Users
    BY <1>1, <2>1, <2>2, <2>3 DEF Before, Safe, IssuedInv
  <2>5. live' \subseteq 1..issued' /\ expired' \subseteq 1..issued' /\ store'.refresh <= issued'
    BY <1>1, <1>3
  <2> QED
    BY <1>1, <2>4, <2>5 DEF IssuedInv
<1>6. RetryInv'
  BY <1>1, <1>3 DEF RetryInv, Accepts, Before, Safe
<1>7. ASSUME NEW v \in Tabs PROVE RunsInv(v)'
  <2>1. rf[v].pc # "idle" => store.user = u
    BY SomePair DEF Before, Safe, IssuedInv
  <2>2. rf'[v].refresh <= issued'
    BY <1>1, <1>3
  <2> QED
    BY <1>1, <1>3, <1>4, <2>1, <2>2 DEF RunsInv, Before, Safe
<1>8. ASSUME NEW v \in Tabs PROVE ReplyInv(v)'
  BY <1>1, <1>3, <1>4 DEF ReplyInv, Before, Safe
<1>9. Kept'
  BY <1>1 DEF Kept
<1> QED
  BY <1>1, <1>5, <1>6, <1>7, <1>8, <1>9 DEF Safe, Undisturbed, Before


\* A 401 with no refresh token stored: no pair was issued, and there is nothing to lose.
LEMMA NothingStep == ASSUME Before, NEW t \in Tabs, UnauthorizedNoRefresh(t)
                     PROVE  Safe'
<1>1. issued = 0 /\ \A v \in Tabs : rf[v].pc = "idle"
  BY SomePair, Numbers DEF UnauthorizedNoRefresh, None, Before, IInv
<1>2. /\ rf' = [rf EXCEPT ![t] = NoRefresh] /\ out' = [out EXCEPT ![t] = NotLeaving] /\ req' = [req EXCEPT ![t] = NoReq]
      /\ UNCHANGED <<issued, owner, live, expired, orphans>> /\ store' = Empty
  BY <1>1 DEF UnauthorizedNoRefresh, Unload
<1>3. \A v \in Tabs : rf'[v].pc = "idle" /\ rf'[v].refresh <= issued
  BY <1>1, <1>2 DEF NoRefresh, None, Before, IInv, TypeOK, Safe, RunsInv
<1>4. IssuedInv'
  BY <1>1, <1>2 DEF IssuedInv, Empty, None, Before, Safe
<1>5. RetryInv'
  <2>1. req'[t] = NoReq /\ \A v \in Tabs \ {t} : req'[v] = req[v]
    BY <1>2 DEF Before, IInv, TypeOK
  <2> QED
    BY <1>1, <1>2, <2>1, RetryOne DEF NoReq, None
<1>6. \A v \in Tabs : RunsInv(v)' /\ ReplyInv(v)'
  BY <1>2, <1>3 DEF RunsInv, ReplyInv, Posted, Refusals
<1>7. Kept' /\ Undisturbed'
  BY <1>1, <1>2 DEF Kept, Undisturbed, Before, Safe
<1> QED
  BY <1>4, <1>5, <1>6, <1>7 DEF Safe

\* A retry is not refused.
LEMMA RetryServed == ASSUME Before, NEW t \in Tabs PROVE ~RetryUnauthorized(t)
BY DEF RetryUnauthorized, Before, Safe, RetryInv

\* An access token expires between two refreshes.
LEMMA ExpireStep == ASSUME Before, NEW p \in Pairs, Expire(p)
                    PROVE  Safe'
<1>1. /\ UNCHANGED <<store, req, rf, out, lock, issued, owner, live, orphans>> /\ expired' = expired \cup {p}
      /\ p <= issued /\ \A t \in Tabs : rf[t].pc = "idle" /\ req[t].pc # "retry"
  BY DEF Expire, client, Before, Calm
<1>2. p \in 1..issued
  BY <1>1, Numbers DEF Pairs, Before, IInv
<1>3. IssuedInv'
  BY <1>1, <1>2 DEF IssuedInv, Before, Safe
<1>4. RetryInv'
  BY <1>1 DEF RetryInv, Before, Safe
<1>5. \A v \in Tabs : RunsInv(v)' /\ ReplyInv(v)'
  BY <1>1 DEF RunsInv, ReplyInv, Posted, Refusals, Before, Safe
<1>6. Kept' /\ Undisturbed'
  BY <1>1 DEF Kept, Undisturbed, Before, Safe
<1> QED
  BY <1>3, <1>4, <1>5, <1>6 DEF Safe

\* Whatever a tab does.
LEMMA SafeStep == ASSUME Before, NEW t \in Tabs, TabStep(t)
                  PROVE  Safe'
<1>1. CASE Acquire(t)
  BY <1>1, PostStep, AdoptStep DEF Acquire
<1>2. CASE WaitForPeer(t)
  BY <1>2, NotRejected, AdoptStep DEF WaitForPeer
<1>3. ~LogoutAnswered(t)
  BY DEF LogoutAnswered, Before, Safe, Undisturbed
<1>4. ~Abandon(t) /\ ~RequestLost(t) /\ ~LoginFails(t) /\ ~Logout(t)
  BY DEF Abandon, RequestLost, LoginFails, Logout, Before, Calm
<1> QED
  BY <1>1, <1>2, <1>3, <1>4, ReadStep, RotateStep, PersistStep, LoadedStep, AskStep, NothingStep, RetryServed,
     LoginStep, LoadStep
  DEF TabStep, Refreshing, Answered

\* For one account, in worlds where an access token outlives a refresh: however the refreshes
\* of any number of tabs race, with or without Web Locks, the browser keeps a refresh token the
\* server accepts, or the answer with the next one is about to be stored (refreshAuthTokens,
\* waitForPeerRefresh).  With two accounts it fails: a late failure clears the other session.
THEOREM SessionSurvivesHolds ==
    ASSUME \A u, v \in Users : u = v, \A w \in Worlds : w.events = {} => w.patient
    PROVE  Spec => []SessionSurvives
<1>1. Init => SurvivesInv
  <2> SUFFICES ASSUME Init PROVE Safe
    BY DEF SurvivesInv
  <2>1. IssuedInv /\ Kept /\ Undisturbed
    BY DEF Init, IssuedInv, Kept, Undisturbed, Empty, None
  <2>2. RetryInv
    BY DEF Init, RetryInv, NoReq, None
  <2>3. \A t \in Tabs : RunsInv(t) /\ ReplyInv(t)
    BY DEF Init, RunsInv, ReplyInv, NoRefresh, None, Posted, Refusals
  <2> QED
    BY <2>1, <2>2, <2>3 DEF Safe
<1>2. IInv /\ IInv' /\ SurvivesInv /\ [Next]_vars => SurvivesInv'
  <2> SUFFICES ASSUME IInv, IInv', Safe, world.events = {}, [Next]_vars PROVE Safe'
    BY DEF SurvivesInv, Next, vars
  <2>1. Before
    BY DEF Before, Calm, IInv, TypeOK, Next, vars
  <2>2. CASE UNCHANGED vars
    BY <2>2 DEF vars, Safe, IssuedInv, RetryInv, Accepts, RunsInv, ReplyInv, Kept, Undisturbed
  <2>3. \A p \in Pairs : ~ServeOrphan(p)
    BY DEF ServeOrphan, Safe, Undisturbed
  <2>4. \A u \in Users : ~Revoke(u)
    BY DEF Revoke
  <2> QED
    BY <2>1, <2>2, <2>3, <2>4, SafeStep, ExpireStep DEF Next, Step, TabStep
<1>3. SurvivesInv => SessionSurvives
  BY DEF SurvivesInv, Safe, Kept, SessionSurvives
<1> QED
  BY <1>1, <1>2, <1>3, InvHolds, PTL DEF Spec
=============================================================================
