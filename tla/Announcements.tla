--------------------------- MODULE Announcements ---------------------------
(***************************************************************************)
(* The announcement store of the web application (stores/announcements.ts)  *)
(* and the hooks of App.vue that drive it, in one page, over the sign-ins of *)
(* several users.  Replies arrive in any order and timers outlive the        *)
(* session that set them.  A list is shorter than the 20 entries kept.       *)
(***************************************************************************)
EXTENDS Integers, Sequences, FiniteSets, SequencesExt

CONSTANTS Users, Items,
          Popups,      \* the items whose notify_mode is 'popup'
          Nobody, None,
          Fetches,     \* bound: list requests
          Marks,       \* bound: markRead requests
          SignIns      \* bound: sign-ins

AnnouncementAssumption ==
    /\ Popups \subseteq Items /\ Nobody \notin Users /\ None \notin Items
    /\ {Fetches, Marks, SignIns} \subseteq Nat

VARIABLES published, readBy,                    \* the server: items, and who has read which
          user, signIns,                        \* authStore
          list, read, throttled, loading, gen,  \* announcements, their read_at, lastFetchTime, ...
          queue, popup, shown,                  \* popupQueue, currentPopup, shownPopupIds
          owner,                                \* history: whose list and popups these are
          edition,                              \* which array of entries the list is
          fetch, mark, markAll,                 \* requests under way
          nextTimers, loginTimers               \* setTimeout: 300 ms, 3 s

server == <<published, readBy>>
auth == <<user, signIns>>
pops == <<queue, popup, shown>>
vars == <<published, readBy, user, signIns, list, read, throttled, loading, gen, queue, popup, shown,
          owner, edition, fetch, mark, markAll, nextTimers, loginTimers>>
lists == <<list, read, owner, edition>>

NoFetch == [at |-> "free", gen |-> 0, by |-> Nobody, items |-> {}, read |-> {}]
NoMark == [at |-> "free", by |-> Nobody, item |-> None]
NoMarkAll == [todo |-> {}, by |-> Nobody, edition |-> 0]

TypeOK ==
    /\ published \subseteq Items /\ readBy \in [Users -> SUBSET Items]
    /\ user \in Users \cup {Nobody} /\ signIns \in 0..SignIns
    /\ list \subseteq Items /\ read \subseteq list /\ throttled \in BOOLEAN /\ loading \in BOOLEAN
    /\ gen \in 0..(Fetches + SignIns)
    /\ queue \in Seq(Popups) /\ popup \in Popups \cup {None} /\ shown \subseteq Popups
    /\ owner \in Users \cup {Nobody}
    /\ fetch \in [1..Fetches -> [at: {"free", "sent", "answered", "done"}, gen: Nat, by: Users \cup {Nobody},
                                 items: SUBSET Items, read: SUBSET Items]]
    /\ mark \in [1..Marks -> [at: {"free", "sent", "served", "done"}, by: Users \cup {Nobody},
                              item: Items \cup {None}]]
    /\ markAll \in [todo: SUBSET Items, by: Users \cup {Nobody}, edition: Nat] /\ edition \in Nat
    /\ nextTimers \in Nat /\ loginTimers \in 0..SignIns

Init ==
    /\ published = {} /\ readBy = [u \in Users |-> {}]
    /\ user = Nobody /\ signIns = 0
    /\ list = {} /\ read = {} /\ throttled = FALSE /\ loading = FALSE /\ gen = 0
    /\ queue = <<>> /\ popup = None /\ shown = {} /\ owner = Nobody /\ edition = 0
    /\ fetch = [i \in 1..Fetches |-> NoFetch] /\ mark = [i \in 1..Marks |-> NoMark]
    /\ markAll = NoMarkAll /\ nextTimers = 0 /\ loginTimers = 0

Publish(a) ==
    /\ a \notin published /\ published' = published \cup {a}
    /\ UNCHANGED <<readBy, auth, list, read, throttled, loading, gen, pops, owner, edition, fetch, mark, markAll,
                   nextTimers, loginTimers>>

-----------------------------------------------------------------------------
(* fetchAnnouncements                                                        *)

\* Past the throttle: the time is noted and a request of a new generation goes out.
FetchAnnouncements ==
    \E i \in 1..Fetches :
       /\ fetch[i].at = "free" /\ \A j \in 1..(i - 1) : fetch[j].at # "free"
       /\ throttled' = TRUE /\ gen' = gen + 1 /\ loading' = TRUE
       /\ fetch' = [fetch EXCEPT ![i] = [NoFetch EXCEPT !.at = "sent", !.gen = gen + 1, !.by = user]]

\* A route change, the page becoming visible again, or a restored page: throttled.
Refetch ==
    /\ user # Nobody /\ ~throttled
    /\ FetchAnnouncements
    /\ UNCHANGED <<server, auth, list, read, pops, owner, edition, mark, markAll, nextTimers, loginTimers>>

\* Three seconds after a sign-in (forced), whoever is signed in by then.
LoginTimer ==
    /\ loginTimers > 0 /\ loginTimers' = loginTimers - 1
    /\ FetchAnnouncements
    /\ UNCHANGED <<server, auth, list, read, pops, owner, edition, mark, markAll, nextTimers>>

\* Twenty minutes pass.
ThrottleEnds ==
    /\ throttled /\ throttled' = FALSE
    /\ UNCHANGED <<server, auth, list, read, loading, gen, pops, owner, edition, fetch, mark, markAll,
                   nextTimers, loginTimers>>

\* The server answers for the user whose token the request carried.
ListServed(i) ==
    /\ fetch[i].at = "sent" /\ fetch[i].by # Nobody
    /\ fetch' = [fetch EXCEPT ![i].at = "answered", ![i].items = published,
                              ![i].read = readBy[fetch[i].by] \cap published]
    /\ UNCHANGED <<server, auth, list, read, throttled, loading, gen, pops, owner, edition, mark, markAll,
                   nextTimers, loginTimers>>

\* showNextPopup
ShowNext(q) ==
    IF q = <<>>
    THEN queue' = q /\ popup' = None /\ UNCHANGED shown
    ELSE queue' = Tail(q) /\ popup' = Head(q) /\ shown' = shown \cup {Head(q)}

\* enqueueNewPopups on the list that has just arrived.
EnqueueNewPopups(items, isRead) ==
    LET new == (items \cap Popups) \ (isRead \cup shown)
        q == queue \o SetToSeq(new \ ToSet(queue))
    IN IF new # {} /\ popup = None THEN ShowNext(q) ELSE queue' = q /\ UNCHANGED <<popup, shown>>

Current(i) == fetch[i].gen = gen

ListArrives(i) ==
    /\ fetch[i].at = "answered"
    /\ fetch' = [fetch EXCEPT ![i] = [NoFetch EXCEPT !.at = "done"]]
    /\ IF Current(i)
       THEN /\ list' = fetch[i].items /\ read' = fetch[i].read
            /\ EnqueueNewPopups(fetch[i].items, fetch[i].read)
            /\ owner' = fetch[i].by /\ edition' = edition + 1 /\ loading' = FALSE
       ELSE UNCHANGED <<lists, pops, loading>>
    /\ UNCHANGED <<server, auth, throttled, gen, mark, markAll, nextTimers, loginTimers>>

\* A failed request opens the throttle again, unless a newer one was sent.
ListFails(i) ==
    /\ fetch[i].at = "sent"
    /\ fetch' = [fetch EXCEPT ![i] = [NoFetch EXCEPT !.at = "done"]]
    /\ IF Current(i) THEN throttled' = FALSE /\ loading' = FALSE ELSE UNCHANGED <<throttled, loading>>
    /\ UNCHANGED <<server, auth, list, read, gen, pops, owner, edition, mark, markAll, nextTimers, loginTimers>>

-----------------------------------------------------------------------------
(* Popups and read marks                                                     *)

SendMark(a) ==
    \E i \in 1..Marks :
       /\ mark[i].at = "free" /\ \A j \in 1..(i - 1) : mark[j].at # "free"
       /\ mark' = [mark EXCEPT ![i] = [at |-> "sent", by |-> user, item |-> a]]

\* dismissPopup
DismissPopup ==
    /\ popup # None /\ popup' = None /\ SendMark(popup)
    /\ nextTimers' = nextTimers + (IF queue # <<>> THEN 1 ELSE 0)
    /\ UNCHANGED <<server, auth, list, read, throttled, loading, gen, queue, shown, owner, edition, fetch, markAll,
                   loginTimers>>

\* The 300 ms are over: the next popup, whatever is on the screen.
NextTimer ==
    /\ nextTimers > 0 /\ nextTimers' = nextTimers - 1
    /\ ShowNext(queue)
    /\ UNCHANGED <<server, auth, list, read, throttled, loading, gen, owner, edition, fetch, mark, markAll, loginTimers>>

\* markAsRead of an entry of the bell's list.
MarkAsRead(a) ==
    /\ user # Nobody /\ a \in list \ read /\ SendMark(a)
    /\ UNCHANGED <<server, auth, list, read, throttled, loading, gen, pops, owner, edition, fetch, markAll,
                   nextTimers, loginTimers>>

MarkServed(i) ==
    /\ mark[i].at = "sent" /\ mark[i].by # Nobody
    /\ mark' = [mark EXCEPT ![i].at = "served"]
    /\ readBy' = [readBy EXCEPT ![mark[i].by] = @ \cup {mark[i].item}]
    /\ UNCHANGED <<published, auth, list, read, throttled, loading, gen, pops, owner, edition, fetch, markAll,
                   nextTimers, loginTimers>>

\* The answer marks the entry of that id in the list of the moment.
MarkArrives(i) ==
    /\ mark[i].at = "served"
    /\ read' = read \cup ({mark[i].item} \cap list)
    /\ mark' = [mark EXCEPT ![i] = [NoMark EXCEPT !.at = "done"]]
    /\ UNCHANGED <<server, auth, list, throttled, loading, gen, pops, owner, edition, fetch, markAll,
                   nextTimers, loginTimers>>

MarkFails(i) ==
    /\ mark[i].at \in {"sent", "served"}
    /\ mark' = [mark EXCEPT ![i] = [NoMark EXCEPT !.at = "done"]]
    /\ UNCHANGED <<server, auth, list, read, throttled, loading, gen, pops, owner, edition, fetch, markAll,
                   nextTimers, loginTimers>>

\* markAllAsRead: one request for each unread entry; the flag is set until the last one ends.
MarkAllAsRead ==
    /\ user # Nobody /\ list \ read # {} /\ markAll.todo = {}
    /\ markAll' = [todo |-> list \ read, by |-> user, edition |-> edition]
    /\ loading' = TRUE
    /\ UNCHANGED <<server, auth, list, read, throttled, gen, pops, owner, edition, fetch, mark, nextTimers, loginTimers>>

\* One of them ends, served or not, its answer lost or not.  It marks the entry it was sent for,
\* which a newer list no longer holds.
MarkAllStep(a) ==
    /\ a \in markAll.todo
    /\ \/ UNCHANGED <<readBy, read>>
       \/ /\ readBy' = [readBy EXCEPT ![markAll.by] = @ \cup {a}]
          /\ \/ UNCHANGED read
             \/ read' = IF markAll.edition = edition THEN read \cup {a} ELSE read
    /\ markAll' = IF markAll.todo = {a} THEN NoMarkAll ELSE [markAll EXCEPT !.todo = @ \ {a}]
    /\ loading' = IF markAll.todo = {a} THEN FALSE ELSE loading
    /\ UNCHANGED <<published, auth, list, throttled, gen, pops, owner, edition, fetch, mark, nextTimers, loginTimers>>

-----------------------------------------------------------------------------
(* Signing in and out                                                        *)

SignIn(u) ==
    /\ user = Nobody /\ signIns < SignIns /\ signIns' = signIns + 1
    /\ user' = u /\ loginTimers' = loginTimers + 1
    /\ UNCHANGED <<server, list, read, throttled, loading, gen, pops, owner, edition, fetch, mark, markAll, nextTimers>>

\* Mutant of Reset: the generation is not advanced.
ResetSameGen ==
    /\ list' = {} /\ read' = {} /\ throttled' = FALSE /\ loading' = FALSE
    /\ queue' = <<>> /\ popup' = None /\ shown' = {} /\ owner' = Nobody /\ edition' = edition + 1
    /\ UNCHANGED gen
\* reset
Reset ==
    /\ list' = {} /\ read' = {} /\ throttled' = FALSE /\ loading' = FALSE
    /\ queue' = <<>> /\ popup' = None /\ shown' = {} /\ owner' = Nobody /\ edition' = edition + 1
    /\ gen' = gen + 1

SignOut ==
    /\ user # Nobody /\ user' = Nobody /\ Reset
    /\ UNCHANGED <<server, signIns, fetch, mark, markAll, nextTimers, loginTimers>>

Replies == \E i \in 1..Fetches : ListServed(i) \/ ListArrives(i) \/ ListFails(i)
MarkReplies == \E i \in 1..Marks : MarkServed(i) \/ MarkArrives(i) \/ MarkFails(i)
MarkAllReplies == \E a \in Items : MarkAllStep(a)

Next ==
    \/ \E a \in Items : Publish(a) \/ MarkAsRead(a)
    \/ Refetch \/ LoginTimer \/ ThrottleEnds \/ Replies
    \/ DismissPopup \/ NextTimer \/ MarkReplies \/ MarkAllAsRead \/ MarkAllReplies
    \/ SignOut \/ \E u \in Users : SignIn(u)

Spec == Init /\ [][Next]_vars

-----------------------------------------------------------------------------
(* Properties                                                                *)

\* List and popups are those of the user signed in: no reply of an earlier session brings back
\* what signing out removed.
OwnAnnouncements == list # {} \/ popup # None \/ queue # <<>> => owner = user

\* No popup waits twice or waits though it was shown: in a session each comes up at most once.
PopupOnce == IsInjective(queue) /\ ToSet(queue) \cap shown = {}

\* A popup that waits while none is on the screen has a timer that will bring it up.
QueueServed == popup = None /\ queue # <<>> => nextTimers > 0

\* An entry shown as read has been read by this user as far as the server knows.
ReadIsTrue == read # {} => read \subseteq readBy[owner]

=============================================================================
