-------------------------- MODULE TeleAgentWelfare --------------------------
(***************************************************************************)
(* The TeleAgent adapter's daily claim (src/tools/teleagent2api,           *)
(* welfare.mjs): once a day, for every account, a claim request is sent,   *)
(* at most MaxAttempts times, with growing delays between attempts.        *)
(*                                                                         *)
(* mem is the scheduler's state object, file welfare.json.  persist takes  *)
(* a snapshot of the whole object when it is called; the snapshots are     *)
(* written one after the other.  Accounts are numbered in the order the    *)
(* store lists them.  claims counts the claim requests that left, for the  *)
(* properties.                                                             *)
(***************************************************************************)
EXTENDS Naturals, Sequences, SequencesExt

CONSTANTS
  N,            \* accounts
  MaxAttempts,  \* MAX_ATTEMPTS (4 in the code)
  Days,         \* days the model covers
  Faults,       \* failing file operations
  Crashes       \* process deaths

WelfareAssumption ==
  /\ N \in Nat /\ {MaxAttempts, Days} \subseteq Nat \ {0} /\ {Faults, Crashes} \subseteq Nat

Accounts == 1 .. N

VARIABLES
  day,       \* the local date; open: the daily minute has come
  open,
  mem, file, \* per account: date, status, attempts
  elapsed,   \* per account: the retry delay of today's first n attempts is over
  job,       \* per account: where runAccount is, and for which date
  writes,    \* queued snapshots, each of the account whose job awaits it
  loaded,    \* readState: "no", "yes", "failed"
  stopped,   \* stop was called; resolved: its promise resolved
  resolved,
  claims,    \* per account and day, claim requests sent
  budget

vars == <<day, open, mem, file, elapsed, job, writes, loaded, stopped, resolved, claims, budget>>

NoEntry == [date |-> 0, status |-> "none", attempts |-> 0]
IdleJob == [phase |-> "idle", date |-> 0]

Init ==
  /\ day = 1 /\ open = FALSE
  /\ file = [a \in Accounts |-> NoEntry] /\ mem = file
  /\ elapsed = [a \in Accounts |-> 0]
  /\ job = [a \in Accounts |-> IdleJob]
  /\ writes = <<>>
  /\ loaded = "no" /\ stopped = FALSE /\ resolved = FALSE
  /\ claims = [a \in Accounts |-> [d \in 1 .. Days |-> 0]]
  /\ budget = [faults |-> Faults, crashes |-> Crashes]

SpendFault == budget.faults > 0 /\ budget' = [budget EXCEPT !.faults = @ - 1]

----------------------------------------------------------------------------
(* Time.                                                                   *)

OpenDay ==
  /\ ~open /\ open' = TRUE
  /\ UNCHANGED <<day, mem, file, elapsed, job, writes, loaded, stopped, resolved, claims, budget>>

NextDay ==
  /\ open /\ day < Days
  /\ day' = day + 1 /\ open' = FALSE
  /\ elapsed' = [a \in Accounts |-> 0]
  /\ UNCHANGED <<mem, file, job, writes, loaded, stopped, resolved, claims, budget>>

\* The retry delay of an account's attempts so far is over.
RetryDue(a) ==
  /\ mem[a].date = day /\ elapsed[a] < mem[a].attempts
  /\ elapsed' = [elapsed EXCEPT ![a] = mem[a].attempts]
  /\ UNCHANGED <<day, open, mem, file, job, writes, loaded, stopped, resolved, claims, budget>>

----------------------------------------------------------------------------
(* The scheduler.                                                          *)

Finished(a) == mem[a].date = day /\ (mem[a].status = "success" \/ mem[a].attempts >= MaxAttempts)

Waiting(a) == mem[a].date = day /\ mem[a].attempts > elapsed[a]

Due == {a \in Accounts : job[a].phase = "idle" /\ ~Finished(a) /\ ~Waiting(a)}

\* The entry a new attempt starts with.
Attempt(a) ==
  [date |-> day, status |-> "pending", attempts |-> IF mem[a].date = day THEN mem[a].attempts + 1 ELSE 1]

\* A tick starts runAccount for every due account, in order: each records its
\* attempt and queues a snapshot that holds the attempts recorded so far.
Tick ==
  LET order == SetToSortSeq(Due, <)
      recorded(i) == [a \in Accounts |-> IF a \in Due /\ a <= order[i] THEN Attempt(a) ELSE mem[a]]
  IN  /\ loaded = "yes" /\ ~stopped /\ open /\ Due # {}
      /\ mem' = [a \in Accounts |-> IF a \in Due THEN Attempt(a) ELSE mem[a]]
      /\ job' = [a \in Accounts |-> IF a \in Due THEN [phase |-> "recording", date |-> day] ELSE job[a]]
      /\ writes' = writes \o [i \in 1 .. Len(order) |-> [account |-> order[i], state |-> recorded(i)]]
      /\ UNCHANGED <<day, open, file, elapsed, loaded, stopped, resolved, claims, budget>>

Drop(seq, i) == SubSeq(seq, 1, i - 1) \o SubSeq(seq, i + 1, Len(seq))

\* After the attempt is recorded the claim request leaves, unless stopped.
SendClaim(a) ==
  IF stopped THEN /\ job' = [job EXCEPT ![a] = IdleJob]
                  /\ UNCHANGED claims
             ELSE /\ job' = [job EXCEPT ![a].phase = "claiming"]
                  /\ claims' = [claims EXCEPT ![a][job[a].date] = @ + 1]

\* Snapshot i reaches the disk and its job goes on.
Write(i) ==
  LET acc == writes[i].account
  IN  /\ file' = writes[i].state
      /\ writes' = Drop(writes, i)
      /\ IF job[acc].phase = "recording" THEN SendClaim(acc)
                                       ELSE job' = [job EXCEPT ![acc] = IdleJob] /\ UNCHANGED claims
      /\ UNCHANGED <<day, open, mem, elapsed, loaded, stopped, resolved, budget>>

\* writeState throws, before the rename or after it (the directory's sync); the
\* job ends there.
WriteFails(i) ==
  /\ \/ file' = file
     \/ file' = writes[i].state
  /\ writes' = Drop(writes, i)
  /\ job' = [job EXCEPT ![writes[i].account] = IdleJob]
  /\ SpendFault
  /\ UNCHANGED <<day, open, mem, elapsed, loaded, stopped, resolved, claims>>

\* Mutant of NextWrite: the writes are not chained.
AnyWrite == \E i \in 1 .. Len(writes) : Write(i) \/ WriteFails(i)

\* The writes are chained: only the oldest snapshot is being written.
NextWrite == writes # <<>> /\ (Write(1) \/ WriteFails(1))

\* claimDaily succeeded: the claim and then the status request.
ClaimSucceeds(a) ==
  /\ job[a].phase = "claiming" /\ ~stopped
  /\ mem' = [mem EXCEPT ![a].status = "success"]
  /\ job' = [job EXCEPT ![a].phase = "saving"]
  /\ writes' = Append(writes, [account |-> a, state |-> mem'])
  /\ UNCHANGED <<day, open, file, elapsed, loaded, stopped, resolved, claims, budget>>

\* Either request fails, times out or is aborted by stop; the delay starts anew.
ClaimFails(a) ==
  /\ job[a].phase = "claiming"
  /\ mem' = [mem EXCEPT ![a].status = "failed"]
  /\ elapsed' = [elapsed EXCEPT ![a] = IF job[a].date = day THEN mem[a].attempts - 1 ELSE @]
  /\ job' = [job EXCEPT ![a].phase = "saving"]
  /\ writes' = Append(writes, [account |-> a, state |-> mem'])
  /\ UNCHANGED <<day, open, file, loaded, stopped, resolved, claims, budget>>

----------------------------------------------------------------------------
(* Start, stop and crash.                                                  *)

Load ==
  /\ loaded = "no"
  /\ \/ loaded' = "yes" /\ mem' = file /\ UNCHANGED budget
     \/ loaded' = "failed" /\ SpendFault /\ UNCHANGED mem
  /\ UNCHANGED <<day, open, file, elapsed, job, writes, stopped, resolved, claims>>

Stop ==
  /\ ~stopped /\ stopped' = TRUE
  /\ UNCHANGED <<day, open, mem, file, elapsed, job, writes, loaded, resolved, claims, budget>>

\* stop awaits the initialization, the jobs and the writes.
StopResolves ==
  /\ stopped /\ ~resolved /\ loaded # "no"
  /\ \A a \in Accounts : job[a].phase = "idle"
  /\ writes = <<>>
  /\ resolved' = TRUE
  /\ UNCHANGED <<day, open, mem, file, elapsed, job, writes, loaded, stopped, claims, budget>>

Crash ==
  /\ budget.crashes > 0
  /\ budget' = [budget EXCEPT !.crashes = @ - 1]
  /\ loaded' = "no" /\ stopped' = FALSE /\ resolved' = FALSE
  /\ mem' = [a \in Accounts |-> NoEntry]
  /\ job' = [a \in Accounts |-> IdleJob]
  /\ writes' = <<>>
  /\ UNCHANGED <<day, open, file, elapsed, claims>>

Next ==
  \/ OpenDay \/ NextDay \/ Tick \/ NextWrite \/ Load \/ Stop \/ StopResolves \/ Crash
  \/ \E a \in Accounts : RetryDue(a) \/ ClaimSucceeds(a) \/ ClaimFails(a)

Spec == Init /\ [][Next]_vars

----------------------------------------------------------------------------
Entry == [date : 0 .. Days, status : {"none", "pending", "success", "failed"}, attempts : 0 .. MaxAttempts]

\* What readState demands of welfare.json, and the shape of the other state.
TypeOK ==
  /\ day \in 1 .. Days /\ open \in BOOLEAN
  /\ mem \in [Accounts -> Entry] /\ file \in [Accounts -> Entry]
  /\ \A a \in Accounts : (file[a].date = 0) <=> (file[a].attempts = 0)
  /\ elapsed \in [Accounts -> 0 .. MaxAttempts]
  /\ job \in [Accounts -> [phase : {"idle", "recording", "claiming", "saving"}, date : 0 .. Days]]
  /\ \A i \in 1 .. Len(writes) : writes[i].account \in Accounts
  /\ loaded \in {"no", "yes", "failed"} /\ stopped \in BOOLEAN /\ resolved \in BOOLEAN

\* An account sends at most MaxAttempts claim requests for one date, whatever
\* crashes and failing writes come between ("先记录尝试次数，进程中断后仍受每日重试上限约束").
ClaimLimit == \A a \in Accounts, d \in 1 .. Days : claims[a][d] <= MaxAttempts

\* Once welfare.json says a date's claim succeeded, no later snapshot of another
\* account's job takes that back, so that date is not claimed again.
SuccessSticks ==
  \A a \in Accounts : file[a].status = "success" =>
    /\ file'[a].date = file[a].date => file'[a].status = "success"
    /\ file'[a].date >= file[a].date
    /\ claims'[a][file[a].date] = claims[a][file[a].date]

\* After stop's promise resolved the scheduler neither claims nor writes.
StoppedQuiet == resolved => UNCHANGED <<file, claims, mem>> \/ ~resolved'

\* Unless it was stopped or could not read its state, the scheduler ends the
\* last day with every account claimed or out of attempts.
DayServed == <>(stopped \/ loaded = "failed" \/ (day = Days /\ \A a \in Accounts : Finished(a)))
=============================================================================
