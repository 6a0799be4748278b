---------------------------- MODULE ArenaAdapter ----------------------------
(***************************************************************************)
(* The Arena adapter (src/tools/arena2api): one browser carries every chat *)
(* turn and every administrator login.  A chat turn is not repeatable: the *)
(* Arena session keeps whatever was submitted, so the adapter records a    *)
(* turn on disk before it submits it and treats a turn whose end it never  *)
(* saw as "outcome unknown".                                               *)
(*                                                                         *)
(* Between two awaits the handlers run without interleaving (one event     *)
(* loop); an action below is the code between two awaits.  mem is the      *)
(* SessionState object, file the JSON file it is saved to; a save writes   *)
(* the whole object and may fail.  arena is what the Arena sessions        *)
(* received, which only the properties read.                               *)
(***************************************************************************)
EXTENDS Naturals, Sequences, FiniteSets

CONSTANTS
  Sessions,     \* Arena session ids
  Ready,        \* the sessions models.json lists when the adapter first starts
  Clients,      \* client identities (X-Arena-Session-Id)
  Keys,         \* idempotency keys
  Digests,      \* digests of (model, messages)
  Reqs,         \* chat requests, one slot each; a retry is a request of its own
  Logins,       \* administrator logins, one slot each
  MaxRequests,  \* keys remembered per session (500 in the code)
  Crashes,      \* process deaths
  Faults        \* failing writes of the state file

None == "none"

ArenaAssumption ==
  /\ Ready \subseteq Sessions
  /\ {MaxRequests, Crashes, Faults} \subseteq Nat
  /\ None \notin Sessions \union Clients \union Keys \union Digests \union Reqs \union Logins

VARIABLES
  models,    \* the sessions of models.json
  mem, file, \* per session: owner, pending turn, remembered requests
  busy,      \* the server's flag: a turn owns the browser
  started,   \* the runtime's submissionStarted
  req,       \* chat requests
  active,    \* LoginSessions.active
  login,     \* login sessions
  stopping,  \* the server.stop of a SIGTERM is running
  arena,     \* per session, the turns Arena received
  budget     \* crashes and failing writes left

vars == <<models, mem, file, busy, started, req, active, login, stopping, arena, budget>>

NoEntry == [status |-> None, digest |-> None, payload |-> 0]
FreshSession == [client |-> None, pending |-> FALSE, requests |-> [k \in Keys |-> NoEntry]]
IdleReq == [phase |-> "idle", client |-> None, key |-> None, digest |-> None,
            session |-> None, aborted |-> FALSE, reply |-> 0]
IdleLogin == [phase |-> "idle", session |-> None, aborted |-> FALSE, listed |-> FALSE]

Init ==
  /\ models = Ready
  /\ mem = [s \in Sessions |-> FreshSession] /\ file = mem
  /\ busy = FALSE /\ started = FALSE
  /\ req = [r \in Reqs |-> IdleReq]
  /\ active = None
  /\ login = [l \in Logins |-> IdleLogin]
  /\ stopping = FALSE
  /\ arena = [s \in Sessions |-> <<>>]
  /\ budget = [crashes |-> Crashes, faults |-> Faults]

----------------------------------------------------------------------------
(* A chat request up to its turn: the body is read (an await), then        *)
(* everything up to runtime.generate happens at once.                      *)

Arrive(r) ==
  /\ req[r].phase = "idle" /\ ~stopping
  /\ \E c \in Clients, k \in Keys \union {None}, d \in Digests, s \in Sessions :
       req' = [req EXCEPT ![r] = [IdleReq EXCEPT !.phase = "body", !.client = c, !.key = k,
                                                 !.digest = d, !.session = s]]
  /\ UNCHANGED <<models, mem, file, busy, started, active, login, stopping, arena, budget>>

\* The browser is free for a turn of request r.
Free(r) == ~busy /\ active = None /\ req[r].session \in models

\* SessionState.claim: the first client of a session owns it.
Claimable(r) == mem[req[r].session].client \in {None, req[r].client}

NewClaim(r) == mem[req[r].session].client = None

Claimed(r) == [mem EXCEPT ![req[r].session].client = req[r].client]

\* Mutant of Prior: a key that was used is not looked up.
PriorForgotten(r) == NoEntry

Prior(r) == IF req[r].key = None THEN NoEntry ELSE mem[req[r].session].requests[req[r].key]

\* SessionState.begin replays a completed key, and refuses a key of another
\* request, a turn of unknown outcome, and a session with a full history.
Replays(r) == Prior(r).status = "completed" /\ Prior(r).digest = req[r].digest

RememberedKeys(s) == {k \in Keys : mem[s].requests[k] # NoEntry}

MayBegin(r) ==
  /\ Prior(r) = NoEntry
  /\ ~mem[req[r].session].pending
  /\ req[r].key = None \/ Cardinality(RememberedKeys(req[r].session)) < MaxRequests

Begun(r) ==
  LET s == req[r].session
      k == req[r].key
      entry == [status |-> "pending", digest |-> req[r].digest, payload |-> 0]
  IN  [Claimed(r) EXCEPT ![s].pending = TRUE,
                         ![s].requests = IF k = None THEN @ ELSE [@ EXCEPT ![k] = entry]]

Answered(r, payload) == [req EXCEPT ![r].phase = "done", ![r].reply = payload]

\* Malformed body, unknown model, busy browser, or a session of another client.
Refuse(r) ==
  /\ req[r].phase = "body"
  /\ ~Free(r) \/ ~Claimable(r)
  /\ req' = Answered(r, 0)
  /\ UNCHANGED <<models, mem, file, busy, started, active, login, stopping, arena, budget>>

SpendFault == budget.faults > 0 /\ budget' = [budget EXCEPT !.faults = @ - 1]

\* The claim is in memory, its save throws: the request fails.
ClaimUnsaved(r) ==
  /\ req[r].phase = "body" /\ Free(r) /\ NewClaim(r)
  /\ mem' = Claimed(r)
  /\ req' = Answered(r, 0)
  /\ SpendFault
  /\ UNCHANGED <<models, file, busy, started, active, login, stopping, arena>>

\* A replay, or a refusal by begin; a new claim was saved.
BeginAnswers(r) ==
  /\ req[r].phase = "body" /\ Free(r) /\ Claimable(r) /\ ~MayBegin(r)
  /\ mem' = Claimed(r)
  /\ file' = IF NewClaim(r) THEN mem' ELSE file
  /\ req' = Answered(r, IF Replays(r) THEN Prior(r).payload ELSE 0)
  /\ UNCHANGED <<models, busy, started, active, login, stopping, arena, budget>>

\* begin marked the turn in memory, its save throws: the request fails.
BeginUnsaved(r) ==
  /\ req[r].phase = "body" /\ Free(r) /\ Claimable(r) /\ MayBegin(r)
  /\ mem' = Begun(r)
  /\ file' = IF NewClaim(r) THEN Claimed(r) ELSE file
  /\ req' = Answered(r, 0)
  /\ SpendFault
  /\ UNCHANGED <<models, busy, started, active, login, stopping, arena>>

StartTurn(r) ==
  /\ req[r].phase = "body" /\ Free(r) /\ Claimable(r) /\ MayBegin(r)
  /\ mem' = Begun(r) /\ file' = mem'
  /\ busy' = TRUE /\ started' = FALSE
  /\ req' = [req EXCEPT ![r].phase = "turn"]
  /\ UNCHANGED <<models, active, login, stopping, arena, budget>>

----------------------------------------------------------------------------
(* The turn.  runtime.generate wraps the bridge's appendAgentMessage: the  *)
(* bridge calls it again when the browser broke, the wrapper lets only the *)
(* first call of a turn through.                                           *)

EndTurn(r) ==
  /\ req' = [req EXCEPT ![r].phase = "done"]
  /\ busy' = FALSE

Received(r) == [client |-> req[r].client, key |-> req[r].key, digest |-> req[r].digest, known |-> FALSE]

\* The message reaches Arena or not; the bridge cannot always tell.
AppendAgentMessage(r) ==
  /\ req[r].phase = "turn" /\ ~req[r].aborted /\ ~started
  /\ started' = TRUE
  /\ \/ arena' = [arena EXCEPT ![req[r].session] = Append(@, Received(r))]
     \/ arena' = arena
  /\ UNCHANGED <<models, mem, file, busy, req, active, login, stopping, budget>>

OwnTurn(r) ==
  {i \in 1 .. Len(arena[req[r].session]) :
     arena[req[r].session][i] = Received(r) /\ i = Len(arena[req[r].session])}

\* readLatestTurn returned a complete answer and generate's cleanup awaits.
ReadLatestTurn(r) ==
  /\ req[r].phase = "turn" /\ started /\ ~req[r].aborted
  /\ \E i \in OwnTurn(r) : req' = [req EXCEPT ![r].phase = "replied", ![r].reply = i]
  /\ UNCHANGED <<models, mem, file, busy, started, active, login, stopping, arena, budget>>

\* Login refresh, append or read fails, or the answer is not a usable text.
TurnFails(r) ==
  /\ req[r].phase = "turn"
  /\ EndTurn(r)
  /\ UNCHANGED <<models, mem, file, started, active, login, stopping, arena, budget>>

\* The request's timer, or its client closing the connection.
Abort(r) ==
  /\ req[r].phase \in {"turn", "replied"} /\ ~req[r].aborted
  /\ req' = [req EXCEPT ![r].aborted = TRUE]
  /\ UNCHANGED <<models, mem, file, busy, started, active, login, stopping, arena, budget>>

Finished(r) ==
  LET s == req[r].session
      k == req[r].key
      entry == [status |-> "completed", digest |-> req[r].digest, payload |-> req[r].reply]
  IN  [mem EXCEPT ![s].pending = FALSE,
                  ![s].requests = IF k = None THEN @ ELSE [@ EXCEPT ![k] = entry]]

\* generate returned to a handler whose signal was aborted meanwhile.
TurnAborted(r) ==
  /\ req[r].phase = "replied" /\ req[r].aborted
  /\ req' = Answered(r, 0) /\ busy' = FALSE
  /\ UNCHANGED <<models, mem, file, started, active, login, stopping, arena, budget>>

\* SessionState.finish; when its save throws the client gets an error although
\* the turn counts as completed in memory.
Finish(r) ==
  /\ req[r].phase = "replied" /\ ~req[r].aborted
  /\ mem' = Finished(r)
  /\ arena' = [arena EXCEPT ![req[r].session][req[r].reply].known = TRUE]
  /\ \/ file' = mem' /\ req' = Answered(r, req[r].reply) /\ UNCHANGED budget
     \/ file' = file /\ req' = Answered(r, 0) /\ SpendFault
  /\ busy' = FALSE
  /\ UNCHANGED <<models, started, active, login, stopping>>

----------------------------------------------------------------------------
(* Administrator logins: sign in, create a session of one's own, probe it, *)
(* save it, close the browser.                                             *)

LoginRequested(l) ==
  /\ login[l].phase = "idle" /\ ~stopping
  /\ login' = [login EXCEPT ![l].phase = "body"]
  /\ UNCHANGED <<models, mem, file, busy, started, req, active, stopping, arena, budget>>

\* LoginSessions.start after the body: one login at a time, and no turn.
LoginStart(l) ==
  /\ login[l].phase = "body"
  /\ IF busy \/ active # None
       THEN login' = [login EXCEPT ![l].phase = "done"] /\ UNCHANGED active
       ELSE /\ login' = [login EXCEPT ![l] = [IdleLogin EXCEPT !.phase = "signin", !.listed = TRUE]]
            /\ active' = l
  /\ UNCHANGED <<models, mem, file, busy, started, req, stopping, arena, budget>>

CreateSession(l) ==
  /\ login[l].phase = "signin" /\ ~login[l].aborted
  /\ \E s \in Sessions \ (models \union {login[m].session : m \in Logins}) :
       login' = [login EXCEPT ![l].phase = "probe", ![l].session = s]
  /\ UNCHANGED <<models, mem, file, busy, started, req, active, stopping, arena, budget>>

\* The probe answered: credentials and models.json are saved, the browser closes.
SaveSession(l) ==
  /\ login[l].phase = "probe" /\ ~login[l].aborted
  /\ models' = models \union {login[l].session}
  /\ login' = [login EXCEPT ![l].phase = "closing"]
  /\ UNCHANGED <<mem, file, busy, started, req, active, stopping, arena, budget>>

\* Any stage fails, or notices the abort; the browser closes.
LoginFails(l) ==
  /\ login[l].phase \in {"signin", "probe"}
  /\ login' = [login EXCEPT ![l].phase = "closing"]
  /\ UNCHANGED <<models, mem, file, busy, started, req, active, stopping, arena, budget>>

LoginSettles(l) ==
  /\ login[l].phase = "closing"
  /\ login' = [login EXCEPT ![l].phase = "done"]
  /\ active' = None
  /\ UNCHANGED <<models, mem, file, busy, started, req, stopping, arena, budget>>

LoginPhasesInBrowser == {"signin", "probe", "closing"}

\* Cancelled by its owner, or found expired: the running task ends by itself.
Cancel(l) ==
  /\ login[l].listed
  /\ login' = [login EXCEPT ![l].aborted = TRUE, ![l].listed = FALSE]
  /\ UNCHANGED <<models, mem, file, busy, started, req, active, stopping, arena, budget>>

\* The login's ten-minute timer.
LoginTimeout(l) ==
  /\ login[l].phase \in LoginPhasesInBrowser /\ ~login[l].aborted
  /\ login' = [login EXCEPT ![l].aborted = TRUE]
  /\ UNCHANGED <<models, mem, file, busy, started, req, active, stopping, arena, budget>>

----------------------------------------------------------------------------
(* SIGTERM: stop aborts the turn and the login; a request whose body is    *)
(* still being read is served.  Once the last one ended the process exits. *)

Stop ==
  /\ ~stopping /\ budget.crashes > 0
  /\ stopping' = TRUE
  /\ req' = [r \in Reqs |-> IF req[r].phase \in {"turn", "replied"}
                              THEN [req[r] EXCEPT !.aborted = TRUE] ELSE req[r]]
  /\ login' = [l \in Logins |-> IF l = active THEN [login[l] EXCEPT !.aborted = TRUE] ELSE login[l]]
  /\ UNCHANGED <<models, mem, file, busy, started, active, arena, budget>>

Served == /\ \A r \in Reqs : req[r].phase \in {"idle", "done"}
          /\ \A l \in Logins : login[l].phase \in {"idle", "done"}

\* The process starts again: it reads the files, everything else is gone.
Restart ==
  /\ budget.crashes > 0
  /\ budget' = [budget EXCEPT !.crashes = @ - 1]
  /\ stopping' = FALSE
  /\ mem' = file
  /\ busy' = FALSE /\ started' = FALSE /\ active' = None
  /\ req' = [r \in Reqs |-> IF req[r].phase = "idle" THEN req[r]
                            ELSE [req[r] EXCEPT !.phase = "done", !.aborted = FALSE,
                                                !.reply = IF req[r].phase = "done" THEN @ ELSE 0]]
  /\ login' = [l \in Logins |-> IF login[l].phase = "idle" THEN login[l]
                                ELSE [IdleLogin EXCEPT !.phase = "done"]]
  /\ UNCHANGED <<models, file, arena>>

Crash == Restart

Exit == stopping /\ Served /\ Restart

Next ==
  \/ \E r \in Reqs : \/ Arrive(r) \/ Refuse(r) \/ ClaimUnsaved(r) \/ BeginAnswers(r)
                     \/ BeginUnsaved(r) \/ StartTurn(r) \/ AppendAgentMessage(r)
                     \/ ReadLatestTurn(r) \/ TurnFails(r) \/ Abort(r) \/ TurnAborted(r)
                     \/ Finish(r)
  \/ \E l \in Logins : \/ LoginRequested(l) \/ LoginStart(l) \/ CreateSession(l)
                       \/ SaveSession(l) \/ LoginFails(l) \/ LoginSettles(l)
                       \/ Cancel(l) \/ LoginTimeout(l)
  \/ Stop \/ Crash \/ Exit

Spec == Init /\ [][Next]_vars

----------------------------------------------------------------------------
SessionRecord ==
  [client : Clients \union {None}, pending : BOOLEAN,
   requests : [Keys -> [status : {None, "pending", "completed"}, digest : Digests \union {None},
                        payload : 0 .. Cardinality(Reqs)]]]

\* Every value SessionState saves has the shape its constructor accepts.
TypeOK ==
  /\ models \subseteq Sessions
  /\ mem \in [Sessions -> SessionRecord] /\ file \in [Sessions -> SessionRecord]
  /\ busy \in BOOLEAN /\ started \in BOOLEAN /\ stopping \in BOOLEAN
  /\ \A r \in Reqs : /\ req[r].phase \in {"idle", "body", "turn", "replied", "done"}
                     /\ req[r].session \in Sessions \union {None}
                     /\ req[r].reply \in 0 .. Cardinality(Reqs)
  /\ active \in Logins \union {None}
  /\ \A l \in Logins : /\ login[l].phase \in {"idle", "body", "done"} \union LoginPhasesInBrowser
                       /\ login[l].session \in Sessions \union {None}
  /\ budget \in [crashes : 0 .. Crashes, faults : 0 .. Faults]

\* The browser the bridge holds is used by one turn or one login, also while a
\* cancelled login is still shutting down (server.mjs, logins.active).
OneBrowserUser ==
  Cardinality({r \in Reqs : req[r].phase \in {"turn", "replied"}}
              \union {l \in Logins : login[l].phase \in LoginPhasesInBrowser}) <= 1

\* After a turn whose outcome the adapter does not know, Arena receives nothing
\* more in that session: not on a retry, not after a crash, not when a save
\* failed (the turn_outcome_unknown errors of state.mjs).
NothingAfterUnknown ==
  \A s \in Sessions : \A i \in 1 .. Len(arena[s]) : i < Len(arena[s]) => arena[s][i].known

\* One idempotency key stands for one message in its Arena session, ever.
KeySubmittedOnce ==
  \A s \in Sessions : \A i, j \in 1 .. Len(arena[s]) :
    arena[s][i].key = arena[s][j].key /\ arena[s][i].key # None => i = j

\* What a client is answered is Arena's answer to that client's own message,
\* and a session only ever carries the messages of one client.
AnswersOwnTurn ==
  /\ \A r \in Reqs : req[r].phase = "done" /\ req[r].reply > 0 =>
       LET t == arena[req[r].session][req[r].reply]
       IN  t.client = req[r].client /\ t.digest = req[r].digest /\ t.key = req[r].key
  /\ \A s \in Sessions : \A i, j \in 1 .. Len(arena[s]) : arena[s][i].client = arena[s][j].client

\* The one browser slot is always given back, by a turn and by a login.
BrowserReleased == (busy ~> ~busy) /\ \A l \in Logins : (active = l ~> active # l)
=============================================================================
