--------------------------- MODULE BatchImageGuide ---------------------------
(***************************************************************************)
(* The batch image page of the browser (BatchImageGuideView.vue): the list   *)
(* of jobs, the detail dialog with its polling, and retries of failed items, *)
(* each a job of its own under the job it retries.                           *)
(*                                                                         *)
(* The server's pipeline is in BatchImagePipeline; here a job runs until it  *)
(* is done with some items succeeded.  Answers are snapshots taken when the  *)
(* server handles a request and arrive later, in any order.  The page covers *)
(* one API key and fits on one page of the list.                             *)
(***************************************************************************)
EXTENDS Integers, FiniteSets, FiniteSetsExt

CONSTANTS Items,        \* the prompts of a submitted job
          MaxJobs,      \* bound: jobs
          MaxReqs,      \* bound: requests under way at once
          MaxFails      \* bound: requests that fail

GuideAssumption ==
    IsFiniteSet(Items) /\ Items # {} /\ MaxJobs \in Nat \ {0} /\ MaxReqs \in Nat /\ MaxFails \in Nat

Jobs == 1..MaxJobs
NoJob == [st |-> "none", parent |-> 0, items |-> {}, ok |-> {}, bad |-> {}]
NoRows == [j \in Jobs |-> NoJob]
NoSend == [st |-> "idle", job |-> 0, list |-> {}, made |-> 0]

VARIABLES job,                   \* the server's jobs
          rows,                  \* batchJobs: the page's copies, by id
          selected, current,     \* selectedBatchId and currentJob (its id; the copy is shown)
          shown,
          items,                 \* the detail's items, each with its batch id and status
          polling, refreshing, loadingItems, deleting,
          submit,                \* submitJob
          retry,                 \* retryFailedJob
          reqs,                  \* requests under way and answers on their way
          fails                  \* requests failed

detail == <<selected, current, shown, items>>
flags == <<polling, refreshing, loadingItems, deleting>>
vars == <<job, rows, selected, current, shown, items, polling, refreshing, loadingItems, deleting,
          submit, retry, reqs, fails>>

JobRecords == [st: {"none", "running", "done", "deleted"}, parent: 0..MaxJobs,
               items: SUBSET Items, ok: SUBSET Items, bad: SUBSET Items]
ItemRows == [job: Jobs, item: Items, st: {"pending", "failed", "ok"}]
TypeOK ==
    /\ job \in [Jobs -> JobRecords] /\ rows \in [Jobs -> JobRecords] /\ shown \in JobRecords
    /\ selected \in 0..MaxJobs /\ current \in 0..MaxJobs /\ items \subseteq ItemRows
    /\ {polling, refreshing, loadingItems} \subseteq BOOLEAN /\ deleting \in 0..MaxJobs
    /\ {submit, retry} \subseteq [st: {"idle", "asking", "ready", "sent", "made"}, job: 0..MaxJobs,
                                list: SUBSET ItemRows, made: 0..MaxJobs]
    /\ retry.st = "idle" <=> retry.job = 0
    /\ fails \in 0..MaxFails
    /\ Cardinality(reqs) <= MaxReqs

Init ==
    /\ job = NoRows /\ rows = NoRows
    /\ selected = 0 /\ current = 0 /\ shown = NoJob /\ items = {}
    /\ polling = FALSE /\ refreshing = FALSE /\ loadingItems = FALSE /\ deleting = 0
    /\ submit = NoSend /\ retry = NoSend /\ reqs = {} /\ fails = 0

-----------------------------------------------------------------------------
(* The server                                                                *)

Fresh(j) == job[j].st = "none" /\ \A k \in 1..(j - 1) : job[k].st # "none"
Created(parent, list) == [st |-> "running", parent |-> parent, items |-> list, ok |-> {}, bad |-> {}]

\* A job ends with a result for every item, or fails or is cancelled before there are any.
FinishJob(j) ==
    /\ job[j].st = "running"
    /\ \/ \E ok \in SUBSET job[j].items :
            job' = [job EXCEPT ![j].st = "done", ![j].ok = ok, ![j].bad = job[j].items \ ok]
       \/ job' = [job EXCEPT ![j].st = "done"]
    /\ UNCHANGED <<rows, detail, flags, submit, retry, reqs, fails>>

\* The items of the jobs in js, as the server lists them.
ItemsOf(js) ==
    UNION {{[job |-> j, item |-> i,
             st |-> CASE i \in job[j].ok -> "ok" [] i \in job[j].bad -> "failed"
                      [] OTHER -> "pending"] : i \in job[j].items} : j \in js}

\* Items that failed in the root r and that no retry has recovered.
Recovered(r) == UNION {job[j].ok : j \in {k \in Jobs : job[k].parent = r}}
StillFailed(r) == job[r].bad \ Recovered(r)
RootOf(j) == IF job[j].parent = 0 THEN j ELSE job[j].parent

-----------------------------------------------------------------------------
(* Requests of the page and their answers                                    *)

JobReq(j) == [kind |-> "job", of |-> {j}, data |-> NoRows, list |-> {}, st |-> "sent"]
ItemsReq(js) == [JobReq(1) EXCEPT !.kind = "items", !.of = js]
ListReq == [JobReq(1) EXCEPT !.kind = "list", !.of = {}]
CancelReq(j) == [JobReq(j) EXCEPT !.kind = "cancel"]
DeleteReq(j) == [JobReq(j) EXCEPT !.kind = "delete"]
Send(rs) == reqs' = reqs \cup rs /\ Cardinality(reqs \cup rs) <= MaxReqs

\* childrenByParent and detailJobsForBatch: a root with the retries the list holds.
Children(j) == {k \in Jobs : rows[k].st # "none" /\ rows[k].parent = j}
Base(j) == IF rows[j].st # "none" THEN rows[j] ELSE IF current = j THEN shown ELSE NoJob
DetailJobs(j) ==
    IF Base(j).st = "none" THEN {} ELSE {j} \cup IF Base(j).parent # 0 THEN {} ELSE Children(j)

\* upsertJob
Upsert(j, data) == rows' = [rows EXCEPT ![j] = data]

\* loadBatchJobs, on mount and on refresh.
LoadBatchJobs ==
    /\ Send({ListReq})
    /\ UNCHANGED <<job, rows, detail, flags, submit, retry, fails>>

\* selectJob: the dialog is modal and opens with the answer.
SelectJob(j) ==
    /\ current = 0 /\ submit.st = "idle" /\ rows[j].st # "none"
    /\ selected' = j /\ items' = {} /\ refreshing' = TRUE /\ loadingItems' = TRUE
    /\ Send({JobReq(j), ItemsReq(DetailJobs(j))})
    /\ UNCHANGED <<job, rows, current, shown, polling, deleting, submit, retry, fails>>

CloseDetail ==
    /\ current # 0
    /\ current' = 0 /\ shown' = NoJob /\ selected' = 0 /\ items' = {}
    /\ UNCHANGED <<job, rows, flags, submit, retry, reqs, fails>>

\* refreshDetail, for the selected job.
RefreshDetail ==
    /\ current # 0 /\ selected # 0 /\ ~refreshing /\ ~loadingItems
    /\ refreshing' = TRUE /\ loadingItems' = TRUE
    /\ Send({JobReq(selected), ItemsReq(DetailJobs(selected))})
    /\ UNCHANGED <<job, rows, detail, polling, deleting, submit, retry, fails>>

\* One tick of the timer of startPolling.
PollTick ==
    /\ polling
    /\ \/ (current = 0 \/ shown.st = "done") /\ polling' = FALSE /\ UNCHANGED <<refreshing, reqs>>
       \/ /\ current # 0 /\ shown.st # "done" /\ selected # 0
          /\ refreshing' = TRUE /\ Send({JobReq(selected)}) /\ UNCHANGED polling
    /\ UNCHANGED <<job, rows, detail, loadingItems, deleting, submit, retry, fails>>

\* cancelSelected and deleteJob; a cancelled job ends at once or later.
CancelSelected ==
    /\ current # 0 /\ shown.st # "done" /\ Send({CancelReq(current)})
    /\ UNCHANGED <<job, rows, detail, flags, submit, retry, fails>>
DeleteJob(j) ==
    /\ current = 0 /\ submit.st = "idle" /\ rows[j].st = "done" /\ deleting = 0
    /\ deleting' = j /\ Send({DeleteReq(j)})
    /\ UNCHANGED <<job, rows, detail, polling, refreshing, loadingItems, submit, retry, fails>>

Visible(js) == [j \in Jobs |-> IF j \in js /\ job'[j].st # "deleted" THEN job'[j] ELSE NoJob]
Handled(r, data, list) == reqs' = (reqs \ {r}) \cup {[r EXCEPT !.st = "read", !.data = data, !.list = list]}
Only(r) == CHOOSE j \in r.of : TRUE

ServeRead(r) ==
    /\ r.st = "sent" /\ r.kind \in {"job", "items", "list"}
    /\ \A j \in r.of : job[j].st # "deleted"
    /\ UNCHANGED job
    /\ Handled(r, IF r.kind = "items" THEN NoRows ELSE Visible(IF r.kind = "job" THEN r.of ELSE Jobs),
                  IF r.kind = "items" THEN ItemsOf(r.of) ELSE {})
    /\ UNCHANGED <<rows, detail, flags, submit, retry, fails>>
ServeCancel(r) ==
    /\ r.st = "sent" /\ r.kind = "cancel" /\ job[Only(r)].st # "deleted"
    /\ \/ UNCHANGED job
       \/ job[Only(r)].st = "running" /\ job' = [job EXCEPT ![Only(r)].st = "done"]
    /\ Handled(r, Visible(r.of), {})
    /\ UNCHANGED <<rows, detail, flags, submit, retry, fails>>
ServeDelete(r) ==
    /\ r.st = "sent" /\ r.kind = "delete" /\ job[Only(r)].st = "done"
    /\ job' = [job EXCEPT ![Only(r)].st = "deleted"] /\ Handled(r, NoRows, {})
    /\ UNCHANGED <<rows, detail, flags, submit, retry, fails>>

\* refreshSelected, after its await: whatever job is selected by now.
JobArrives(r) ==
    /\ r.st = "read" /\ r.kind = "job" /\ reqs' = reqs \ {r}
    /\ current' = Only(r) /\ shown' = r.data[Only(r)] /\ Upsert(Only(r), r.data[Only(r)])
    /\ refreshing' = FALSE /\ polling' = (polling /\ r.data[Only(r)].st # "done")
    /\ UNCHANGED <<job, selected, items, loadingItems, deleting, submit, retry, fails>>
CancelArrives(r) ==
    /\ r.st = "read" /\ r.kind = "cancel" /\ reqs' = reqs \ {r}
    /\ current' = Only(r) /\ shown' = r.data[Only(r)] /\ Upsert(Only(r), r.data[Only(r)])
    /\ UNCHANGED <<job, selected, items, flags, submit, retry, fails>>
\* loadItems, after its await.
ItemsArrive(r) ==
    /\ r.st = "read" /\ r.kind = "items" /\ reqs' = reqs \ {r}
    /\ items' = r.list /\ loadingItems' = FALSE
    /\ UNCHANGED <<job, rows, selected, current, shown, polling, refreshing, deleting, submit, retry,
                   fails>>
\* loadBatchJobs, after its await.
ListArrives(r) ==
    /\ r.st = "read" /\ r.kind = "list" /\ reqs' = reqs \ {r}
    /\ rows' = r.data
    /\ UNCHANGED <<job, detail, flags, submit, retry, fails>>
\* removeJobFromList
DeleteArrives(r) ==
    /\ r.st = "read" /\ r.kind = "delete" /\ reqs' = reqs \ {r} /\ deleting' = 0
    /\ rows' = [rows EXCEPT ![Only(r)] = NoJob]
    /\ IF current = Only(r) THEN current' = 0 /\ shown' = NoJob /\ selected' = 0 /\ items' = {}
       ELSE UNCHANGED detail
    /\ UNCHANGED <<job, polling, refreshing, loadingItems, submit, retry, fails>>

\* The finally blocks.
Cleared(r) ==
    /\ refreshing' = (refreshing /\ r.kind # "job")
    /\ loadingItems' = (loadingItems /\ r.kind # "items")
    /\ deleting' = IF r.kind = "delete" THEN 0 ELSE deleting
RequestFails(r) ==
    /\ fails < MaxFails /\ fails' = fails + 1 /\ reqs' = reqs \ {r} /\ Cleared(r)
    /\ UNCHANGED <<job, rows, detail, polling, submit, retry>>

\* The server does not find a deleted job.
NotFound(r) ==
    /\ r.st = "sent" /\ (\E j \in r.of : job[j].st = "deleted") /\ reqs' = reqs \ {r} /\ Cleared(r)
    /\ UNCHANGED <<job, rows, detail, polling, submit, retry, fails>>

-----------------------------------------------------------------------------
(* submitJob: the create dialog is open from "sent" on                       *)

Submit ==
    /\ submit.st = "idle" /\ current = 0 /\ submit' = [submit EXCEPT !.st = "sent"]
    /\ UNCHANGED <<job, rows, detail, flags, retry, reqs, fails>>
ServeSubmit(j) ==
    /\ submit.st = "sent" /\ Fresh(j)
    /\ job' = [job EXCEPT ![j] = Created(0, Items)]
    /\ submit' = [submit EXCEPT !.st = "made", !.made = j]
    /\ UNCHANGED <<rows, detail, flags, retry, reqs, fails>>

\* The new job of a submission or a retry is shown, its items are loaded and it is polled.
ShowNew(j) ==
    /\ current' = j /\ selected' = j /\ items' = {}
    /\ shown' = Created(job[j].parent, job[j].items) /\ Upsert(j, shown')
    /\ loadingItems' = TRUE /\ polling' = TRUE /\ Send({ItemsReq({j})})
SubmitArrives ==
    /\ submit.st = "made" /\ submit' = NoSend /\ ShowNew(submit.made)
    /\ UNCHANGED <<job, refreshing, deleting, retry, fails>>
SubmitFails ==
    /\ submit.st # "idle" /\ fails < MaxFails /\ fails' = fails + 1 /\ submit' = NoSend
    /\ UNCHANGED <<job, rows, detail, flags, retry, reqs>>

-----------------------------------------------------------------------------
(* retryFailedJob                                                            *)

\* displayJob: the failures of copy, a copy of j, when the successes of j's retries are added
\* times over.
FailCount(j, copy, times) ==
    LET n == Cardinality(copy.items)
        recovered == MapThenSumSet(LAMBDA k : Cardinality(rows[k].ok), Children(j))
    IN IF copy.parent # 0 \/ Children(j) = {} THEN Cardinality(copy.bad)
       ELSE n - Min({n, Cardinality(copy.ok) + times * recovered})
\* canRetry for a row; the detail's button applies it to a job displayJob has been applied to.
CanRetry(j, copy, times) == copy.st = "done" /\ FailCount(j, copy, times) > 0

\* From a row's menu or the detail, whose items are used without asking.
RetryFailedJob(j) ==
    /\ retry.st = "idle"
    /\ \/ current = 0 /\ submit.st = "idle" /\ CanRetry(j, rows[j], 1)
       \/ current = j /\ CanRetry(j, shown, 2)
    /\ retry' = IF selected = j /\ items # {}
                THEN [NoSend EXCEPT !.st = "ready", !.job = j, !.list = items]
                ELSE [NoSend EXCEPT !.st = "asking", !.job = j]
    /\ UNCHANGED <<job, rows, detail, flags, submit, reqs, fails>>
EnsureItemsForRetry ==
    /\ retry.st = "asking" /\ job[retry.job].st # "deleted"
    /\ retry' = [retry EXCEPT !.st = "ready", !.list = ItemsOf({retry.job})]
    /\ UNCHANGED <<job, rows, detail, flags, submit, reqs, fails>>

FailedItems == {x \in retry.list : x.st = "failed"}
RetrySend ==
    /\ retry.st = "ready" /\ FailedItems # {}
    /\ retry' = [retry EXCEPT !.st = "sent", !.list = FailedItems]
    /\ UNCHANGED <<job, rows, detail, flags, submit, reqs, fails>>
RetryMissingPrompts ==
    /\ retry.st = "ready" /\ FailedItems = {} /\ retry' = NoSend
    /\ UNCHANGED <<job, rows, detail, flags, submit, reqs, fails>>
ServeRetry(j) ==
    /\ retry.st = "sent" /\ Fresh(j) /\ job[RootOf(retry.job)].st # "deleted"
    /\ job' = [job EXCEPT ![j] = Created(RootOf(retry.job), {x.item : x \in retry.list})]
    /\ retry' = [retry EXCEPT !.st = "made", !.made = j]
    /\ UNCHANGED <<rows, detail, flags, submit, reqs, fails>>
RetryArrives ==
    /\ retry.st = "made" /\ retry' = NoSend /\ ShowNew(retry.made)
    /\ UNCHANGED <<job, refreshing, deleting, submit, fails>>
RetryFails ==
    /\ retry.st \in {"asking", "sent", "made"} /\ retry' = NoSend
    /\ \/ fails < MaxFails /\ fails' = fails + 1
       \/ retry.st = "asking" /\ job[retry.job].st = "deleted" /\ UNCHANGED fails
       \/ retry.st = "sent" /\ job[RootOf(retry.job)].st = "deleted" /\ UNCHANGED fails
    /\ UNCHANGED <<job, rows, detail, flags, submit, reqs>>

-----------------------------------------------------------------------------
Answers ==
    \/ \E r \in reqs : \/ ServeRead(r) \/ ServeCancel(r) \/ ServeDelete(r)
                       \/ JobArrives(r) \/ CancelArrives(r) \/ ItemsArrive(r) \/ ListArrives(r)
                       \/ DeleteArrives(r) \/ RequestFails(r) \/ NotFound(r)
User ==
    \/ LoadBatchJobs \/ CloseDetail \/ RefreshDetail \/ CancelSelected \/ Submit
    \/ \E j \in Jobs : SelectJob(j) \/ DeleteJob(j) \/ RetryFailedJob(j)
Next ==
    \/ User \/ Answers \/ PollTick
    \/ \E j \in Jobs : FinishJob(j) \/ ServeSubmit(j) \/ ServeRetry(j)
    \/ SubmitArrives \/ SubmitFails
    \/ EnsureItemsForRetry \/ RetrySend \/ RetryMissingPrompts \/ RetryArrives \/ RetryFails

Spec == Init /\ [][Next]_vars

-----------------------------------------------------------------------------
(* Properties                                                                *)

\* What a retry sends has failed in a job that has ended: stale copies of a job
\* (BatchImageGuideView.vue, retryFailedJob) never send what succeeded or still runs.
RetriesFailedItems ==
    \A j \in Jobs : job[j].parent # 0 =>
        \A i \in job[j].items : \E k \in 1..(j - 1) : job[k].st # "running" /\ i \in job[k].bad

\* The dialog of a submitted job, left open, shows its end unless its record is deleted: a failed
\* request does not end the polling (startPolling, refreshSelected).
PolledToTheEnd ==
    polling /\ current # 0 /\ selected = current
        ~> current = 0 \/ selected # current \/ job[current].st = "deleted" \/ shown.st = "done"

=============================================================================
