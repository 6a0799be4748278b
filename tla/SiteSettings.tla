---------------------------- MODULE SiteSettings ----------------------------
(***************************************************************************)
(* Site settings from the administrator's form to the browser's stores:      *)
(* SettingsView.vue (load, save, step-up), the public settings store         *)
(* (app.ts), the administrator's store (adminSettings.ts), and on the server *)
(* UpdateSettings and the cache of index.html, into which the public         *)
(* settings are injected (embed_on.go, html_cache.go).                       *)
(*                                                                         *)
(* Settings are a version number that every write raises; 0 stands for none. *)
(* The OpenAI fast policy and the web search configuration are stored apart. *)
(* One tab loads the site again and again; another administrator saves too.  *)
(***************************************************************************)
EXTENDS Integers, FiniteSets

CONSTANTS MaxVersion,    \* bound: versions of the settings
          MaxReqs,       \* bound: requests for the public settings in one page
          MaxInsts,      \* bound: mountings of the settings page
          MaxLoads,      \* bound: loads of the site
          MaxFails,      \* bound: requests that fail
          Renderers      \* requests for index.html served at once; 1 is the tab's

SettingsAssumption ==
    /\ {MaxVersion, MaxReqs, MaxInsts, MaxLoads} \subseteq Nat \ {0} /\ MaxFails \in Nat
    /\ 1 \in Renderers /\ IsFiniteSet(Renderers)

Mine == 1
Versions == 0..MaxVersion
Reqs == 1..MaxReqs
Insts == 1..MaxInsts
\* Rules or a configuration that an administrator wrote, or the empty ones a page starts with.
Contents == {"real", "blank"}

Idle == [st |-> "idle", v |-> 0]
NoStore == [loaded |-> FALSE, cached |-> 0, config |-> 0, active |-> 0,
            req |-> [k \in Reqs |-> Idle]]
NoAdmin == [loaded |-> FALSE, loading |-> FALSE, st |-> "idle", v |-> 0, shown |-> 0]
NoView == [st |-> "none", failed |-> FALSE, policy |-> "blank", policyLoaded |-> FALSE,
           web |-> "blank", webFailed |-> FALSE, pc |-> "idle", sends |-> "none", reply |-> "none",
           retried |-> FALSE, wrote |-> 0, saved |-> 0, on |-> 0, outcome |-> "none", base |-> 0]

VARIABLES settings, policy, web,   \* the stored settings
          granted,                 \* the session holds a step-up grant
          html, etag,              \* HTMLCache: the version its content and its ETag are made of
          foreign,                 \* another administrator's update, between write and Invalidate
          render,                  \* requests for index.html on the server
          copy,                    \* the browser's copy of index.html, its settings and ETag
          loads,                   \* loads of the site so far
          pub,                     \* app.ts: public settings
          adm,                     \* adminSettings.ts
          view,                    \* the mountings of SettingsView
          inst,                    \* the mounting on screen, 0: none
          fails

stored == <<settings, policy, web>>
page == <<html, etag, render, copy, loads>>
vars == <<settings, policy, web, granted, html, etag, foreign, render, copy, loads, pub,
          adm, view, inst, fails>>

PCs == {"idle", "sent", "written", "invalidated", "ok", "error", "required", "asking", "web",
        "refresh", "waitPub", "fetchAdm", "waitAdm"}
TypeOK ==
    /\ settings \in Versions /\ policy \in Contents /\ web \in Contents
    /\ granted \in BOOLEAN /\ html \in Versions /\ etag \in Versions
    /\ foreign \in {"idle", "written"}
    /\ render \in [Renderers -> [st: {"idle", "read", "set"}, v: Versions]]
    /\ copy \in [v: Versions, tag: Versions] /\ loads \in 0..MaxLoads
    /\ pub \in [loaded: BOOLEAN, cached: Versions, config: Versions, active: 0..MaxReqs,
                req: [Reqs -> [st: {"idle", "sent", "read", "done"}, v: Versions]]]
    /\ adm \in [loaded: BOOLEAN, loading: BOOLEAN, st: {"idle", "sent", "read"}, v: Versions,
                shown: Versions]
    /\ \A i \in Insts : /\ view[i].st \in {"none", "loading", "loadingWeb", "ready", "left", "gone"}
                        /\ view[i].pc \in PCs /\ view[i].policy \in Contents
                        /\ view[i].pc # "idle" => view[i].st \in {"ready", "left", "gone"}
    /\ inst \in 0..MaxInsts /\ fails \in 0..MaxFails

Init ==
    /\ settings = 1 /\ policy = "real" /\ web = "real" /\ granted = FALSE
    /\ html = 0 /\ etag = 0 /\ foreign = "idle" /\ render = [r \in Renderers |-> Idle]
    /\ copy = [v |-> 0, tag |-> 0] /\ loads = 0
    /\ pub = NoStore /\ adm = NoAdmin /\ view = [i \in Insts |-> NoView] /\ inst = 0 /\ fails = 0

\* The versions left, less one for every save that may still write.
MayWrite ==
    settings + Cardinality({i \in Insts : view[i].pc \in {"sent", "required", "asking"}}) < MaxVersion

Fail == fails < MaxFails /\ fails' = fails + 1

-----------------------------------------------------------------------------
(* index.html: serveIndexHTML and HTMLCache                                  *)

\* The tab starts with the settings its index.html carries: initFromInjectedConfig.
Start(v) ==
    /\ loads' = loads + 1
    /\ pub' = [NoStore EXCEPT !.loaded = (v # 0), !.cached = v, !.config = v]
    /\ adm' = NoAdmin /\ inst' = 0
    /\ view' = [i \in Insts |-> IF view[i].st = "none" THEN view[i] ELSE [view[i] EXCEPT !.st = "gone"]]

Served(r, v, tag) ==
    \/ r = Mine /\ Start(v) /\ copy' = [v |-> v, tag |-> tag]
    \/ r # Mine /\ UNCHANGED <<loads, pub, adm, inst, view, copy>>

MayAsk(r) == render[r].st = "idle" /\ loads < MaxLoads

\* A cached page, or 304 and the copy the browser has.
GetCached(r) ==
    /\ MayAsk(r) /\ html # 0
    /\ IF r = Mine /\ copy.tag = etag THEN Start(copy.v) /\ UNCHANGED copy
       ELSE Served(r, html, etag)
    /\ UNCHANGED <<stored, granted, html, etag, foreign, render, fails>>

ReadForInjection(r) ==
    /\ MayAsk(r) /\ html = 0
    /\ render' = [render EXCEPT ![r] = [st |-> "read", v |-> settings]]
    /\ UNCHANGED <<stored, granted, html, etag, foreign, copy, loads, pub, adm, view, inst, fails>>

ServeBare(r) ==
    /\ MayAsk(r) /\ html = 0 /\ Fail /\ Served(r, 0, 0)
    /\ UNCHANGED <<stored, granted, html, etag, foreign, render>>

SetHTML(r) ==
    /\ render[r].st = "read" /\ render' = [render EXCEPT ![r].st = "set"]
    /\ html' = render[r].v /\ etag' = render[r].v
    /\ UNCHANGED <<stored, granted, foreign, copy, loads, pub, adm, view, inst, fails>>

\* The ETag sent is that of the cache by now; none when it has been invalidated.
ServeRendered(r) ==
    /\ render[r].st = "set"
    /\ render' = [render EXCEPT ![r] = Idle]
    /\ Served(r, render[r].v, etag)
    /\ UNCHANGED <<stored, granted, html, etag, foreign, fails>>

Invalidate == html' = 0 /\ etag' = 0

\* Another administrator: UpdateSettings, then onUpdate.
ForeignWrite ==
    /\ foreign = "idle" /\ MayWrite
    /\ foreign' = "written" /\ settings' = settings + 1 /\ policy' = "real"
    /\ UNCHANGED <<web, granted, page, pub, adm, view, inst, fails>>
ForeignInvalidate ==
    /\ foreign = "written" /\ foreign' = "idle" /\ Invalidate
    /\ UNCHANGED <<stored, granted, render, copy, loads, pub, adm, view, inst, fails>>

-----------------------------------------------------------------------------
(* app.ts: fetchPublicSettings                                               *)

Free == {k \in Reqs : pub.req[k].st = "idle"}
NextReq == CHOOSE k \in Free : \A l \in Free : k <= l
Begin(k) == [pub EXCEPT !.req[k].st = "sent", !.active = k]

\* A forced fetch joins the request under way, or begins one; the caller waits for `on`.
JoinOrBegin(on) ==
    \/ pub.active # 0 /\ on = pub.active /\ pub' = pub
    \/ pub.active = 0 /\ Free # {} /\ on = NextReq /\ pub' = Begin(NextReq)
FetchForced(on) == JoinOrBegin(on)

\* App.vue and the other callers do not force: the cache, the injected settings, or a request.
FetchPublicSettings ==
    /\ loads > 0 /\ ~pub.loaded /\ pub.active = 0
    /\ \/ /\ pub.config # 0
          /\ pub' = [pub EXCEPT !.loaded = TRUE, !.cached = pub.config]
       \/ pub.config = 0 /\ Free # {} /\ pub' = Begin(NextReq)
    /\ UNCHANGED <<stored, granted, page, foreign, adm, view, inst, fails>>

ServePublic(k) ==
    /\ pub.req[k].st = "sent" /\ pub' = [pub EXCEPT !.req[k] = [st |-> "read", v |-> settings]]
    /\ UNCHANGED <<stored, granted, page, foreign, adm, view, inst, fails>>

\* The savers waiting for request k go on, whatever became of it.
Resumed(k) ==
    [i \in Insts |-> IF view[i].pc = "waitPub" /\ view[i].on = k /\ view[i].st # "gone"
                     THEN [view[i] EXCEPT !.pc = "fetchAdm"] ELSE view[i]]
Ended(k) == [pub EXCEPT !.req[k].st = "done", !.active = IF @ = k THEN 0 ELSE @]

PublicArrives(k) ==
    /\ pub.req[k].st = "read"
    /\ pub' = [Ended(k) EXCEPT !.loaded = TRUE, !.cached = pub.req[k].v, !.config = pub.req[k].v]
    /\ view' = Resumed(k)
    /\ UNCHANGED <<stored, granted, page, foreign, adm, inst, fails>>
PublicFails(k) ==
    /\ pub.req[k].st \in {"sent", "read"} /\ Fail
    /\ pub' = Ended(k) /\ view' = Resumed(k)
    /\ UNCHANGED <<stored, granted, page, foreign, adm, inst>>

-----------------------------------------------------------------------------
(* adminSettings.ts                                                          *)

AdminBegin == [adm EXCEPT !.loading = TRUE, !.st = "sent"]

\* The sidebar, when an administrator is signed in.
SidebarFetch ==
    /\ loads > 0 /\ ~adm.loaded /\ ~adm.loading /\ adm' = AdminBegin
    /\ UNCHANGED <<stored, granted, page, foreign, pub, view, inst, fails>>

ServeAdmin ==
    /\ adm.st = "sent" /\ adm' = [adm EXCEPT !.st = "read", !.v = settings]
    /\ UNCHANGED <<stored, granted, page, foreign, pub, view, inst, fails>>

\* The saver waiting for this fetch has finished.
Finish(v) == [v EXCEPT !.pc = "idle", !.saved = v.base, !.outcome = "saved"]
AdminResumed ==
    [i \in Insts |-> IF view[i].pc = "waitAdm" /\ view[i].st # "gone" THEN Finish(view[i]) ELSE view[i]]

AdminArrives ==
    /\ adm.st = "read"
    /\ adm' = [adm EXCEPT !.loading = FALSE, !.st = "idle", !.loaded = TRUE, !.shown = adm.v]
    /\ view' = AdminResumed
    /\ UNCHANGED <<stored, granted, page, foreign, pub, inst, fails>>
AdminFails ==
    /\ adm.st # "idle" /\ Fail
    /\ adm' = [adm EXCEPT !.loading = FALSE, !.st = "idle"]
    /\ view' = AdminResumed
    /\ UNCHANGED <<stored, granted, page, foreign, pub, inst>>

\* setOpsMonitoringEnabledLocal, when the server says that monitoring is off.
OpsMonitoringDisabled ==
    /\ loads > 0 /\ adm' = [adm EXCEPT !.loaded = TRUE]
    /\ UNCHANGED <<stored, granted, page, foreign, pub, view, inst, fails>>

-----------------------------------------------------------------------------
(* SettingsView.vue                                                          *)

Views(i, v) == view' = [view EXCEPT ![i] = v]
Running(i) == view[i].st \notin {"none", "gone"}       \* the page it belongs to is still there
Kept == UNCHANGED <<granted, page, foreign, pub, adm, inst, fails>>

Mount ==
    /\ loads > 0 /\ inst = 0
    /\ \E i \in Insts : /\ view[i].st = "none" /\ \A j \in 1..(i - 1) : view[j].st # "none"
                        /\ inst' = i /\ Views(i, [view[i] EXCEPT !.st = "loading"])
    /\ UNCHANGED <<stored, granted, page, foreign, pub, adm, fails>>

Leave ==
    /\ inst # 0 /\ inst' = 0 /\ Views(inst, [view[inst] EXCEPT !.st = "left"])
    /\ UNCHANGED <<stored, granted, page, foreign, pub, adm, fails>>

\* loadSettings: the answer may lack the fast policy, which the server reads apart.
LoadArrives(i) ==
    /\ view[i].st = "loading"
    /\ \/ Views(i, [view[i] EXCEPT !.st = "loadingWeb", !.policy = policy, !.policyLoaded = TRUE])
       \/ Views(i, [view[i] EXCEPT !.st = "loadingWeb"])
    /\ Kept /\ UNCHANGED stored
LoadFails(i) ==
    /\ view[i].st = "loading" /\ Fail
    /\ Views(i, [view[i] EXCEPT !.st = "ready", !.failed = TRUE])
    /\ UNCHANGED <<stored, granted, page, foreign, pub, adm, inst>>

\* loadWebSearchConfig: a failure leaves the empty configuration in the form.
WebArrives(i) ==
    /\ view[i].st = "loadingWeb" /\ Views(i, [view[i] EXCEPT !.st = "ready", !.web = web])
    /\ Kept /\ UNCHANGED stored
WebFails(i) ==
    /\ view[i].st = "loadingWeb" /\ Fail
    /\ Views(i, [view[i] EXCEPT !.st = "ready", !.webFailed = TRUE])
    /\ UNCHANGED <<stored, granted, page, foreign, pub, adm, inst>>

\* saveSettings, past its validations: the rules go along only if they have been loaded.
SaveSending(i, sends) ==
    /\ inst = i /\ view[i].st = "ready" /\ ~view[i].failed /\ view[i].pc = "idle" /\ MayWrite
    /\ Views(i, [view[i] EXCEPT !.pc = "sent", !.sends = sends, !.retried = FALSE, !.wrote = 0,
                                !.outcome = "none"])
    /\ Kept /\ UNCHANGED stored
\* Mutant of SaveSettings: the fast policy is sent whether it was read or not.
SaveSettingsAlways(i) == SaveSending(i, view[i].policy)
SaveSettings(i) == SaveSending(i, IF view[i].policyLoaded THEN view[i].policy ELSE "none")

\* UpdateSettings on the server.
RequireStepUp(i) ==
    /\ view[i].pc = "sent" /\ ~granted
    /\ Views(i, [view[i] EXCEPT !.pc = "required"]) /\ Kept /\ UNCHANGED stored
WriteSettings(i) ==
    /\ view[i].pc = "sent" /\ settings < MaxVersion
    /\ settings' = settings + 1
    /\ Views(i, [view[i] EXCEPT !.pc = "written", !.wrote = @ + 1, !.base = settings + 1])
    /\ Kept /\ UNCHANGED <<policy, web>>
InvalidateHTML(i) ==
    /\ view[i].pc = "written" /\ Invalidate
    /\ Views(i, [view[i] EXCEPT !.pc = "invalidated"])
    /\ UNCHANGED <<stored, granted, foreign, render, copy, loads, pub, adm, inst, fails>>
\* The answer may lack the policy again.
WritePolicy(i) ==
    /\ view[i].pc = "invalidated"
    /\ policy' = IF view[i].sends = "none" THEN policy ELSE view[i].sends
    /\ \E reply \in {"none", policy'} : Views(i, [view[i] EXCEPT !.pc = "ok", !.reply = reply])
    /\ Kept /\ UNCHANGED <<settings, web>>

\* The request, one of its writes or its answer fails.
UpdateFails(i) ==
    /\ view[i].pc \in {"sent", "invalidated", "ok"} /\ Fail
    /\ Views(i, [view[i] EXCEPT !.pc = "error"])
    /\ UNCHANGED <<stored, granted, page, foreign, pub, adm, inst>>

Abandon(i, outcome) == Views(i, [view[i] EXCEPT !.pc = "idle", !.outcome = outcome])

\* useStepUp.run: ask for a code when the server requires one, once; anything else is an error.
HandleError(i) ==
    /\ Running(i)
    /\ \/ /\ view[i].pc = "required" /\ ~view[i].retried
          /\ Views(i, [view[i] EXCEPT !.pc = "asking"])
       \/ /\ view[i].pc = "error" \/ (view[i].pc = "required" /\ view[i].retried)
          /\ Abandon(i, "error")
    /\ Kept /\ UNCHANGED stored

\* The dialog of the page on screen.
OnVerified(i) ==
    /\ inst = i /\ view[i].pc = "asking" /\ granted' = TRUE
    /\ Views(i, [view[i] EXCEPT !.pc = "sent", !.retried = TRUE])
    /\ UNCHANGED <<stored, page, foreign, pub, adm, inst, fails>>
OnCancel(i) ==
    /\ inst = i /\ view[i].pc = "asking" /\ Abandon(i, "cancelled") /\ Kept /\ UNCHANGED stored
GrantExpires ==
    /\ granted /\ granted' = FALSE
    /\ UNCHANGED <<stored, page, foreign, pub, adm, view, inst, fails>>

\* The answer fills the form, then the web search configuration is saved, with or without success.
ApplyUpdated(i) ==
    /\ Running(i) /\ view[i].pc = "ok"
    /\ Views(i, [view[i] EXCEPT !.pc = "web",
                    !.policy = IF view[i].reply = "none" THEN @ ELSE view[i].reply,
                    !.policyLoaded = @ \/ view[i].reply # "none"])
    /\ Kept /\ UNCHANGED stored
SaveWebSearchConfig(i) ==
    /\ Running(i) /\ view[i].pc = "web" /\ Views(i, [view[i] EXCEPT !.pc = "refresh"])
    /\ \/ web' = view[i].web /\ UNCHANGED fails
       \/ web' = web /\ Fail
    /\ UNCHANGED <<settings, policy, granted, page, foreign, pub, adm, inst>>

\* fetchPublicSettings(true), then adminSettingsStore.fetch(true), which returns when one is loading.
RefreshPublic(i) ==
    /\ Running(i) /\ view[i].pc = "refresh"
    /\ \E on \in Reqs : FetchForced(on) /\ Views(i, [view[i] EXCEPT !.pc = "waitPub", !.on = on])
    /\ UNCHANGED <<stored, granted, page, foreign, adm, inst, fails>>
RefreshAdmin(i) ==
    /\ Running(i) /\ view[i].pc = "fetchAdm"
    /\ \/ adm.loading /\ UNCHANGED adm /\ Views(i, Finish(view[i]))
       \/ ~adm.loading /\ adm' = AdminBegin /\ Views(i, [view[i] EXCEPT !.pc = "waitAdm"])
    /\ UNCHANGED <<stored, granted, page, foreign, pub, inst, fails>>

-----------------------------------------------------------------------------
Serve(i) ==
    \/ RequireStepUp(i) \/ WriteSettings(i) \/ InvalidateHTML(i) \/ WritePolicy(i) \/ UpdateFails(i)
Proceed(i) ==
    \/ LoadArrives(i) \/ LoadFails(i) \/ WebArrives(i) \/ WebFails(i) \/ HandleError(i)
    \/ ApplyUpdated(i) \/ SaveWebSearchConfig(i) \/ RefreshPublic(i) \/ RefreshAdmin(i)
AnswerPublic(k) == ServePublic(k) \/ PublicArrives(k) \/ PublicFails(k)
AnswerAdmin == ServeAdmin \/ AdminArrives \/ AdminFails

Next ==
    \/ \E r \in Renderers : GetCached(r) \/ ReadForInjection(r) \/ ServeBare(r) \/ SetHTML(r)
                            \/ ServeRendered(r)
    \/ ForeignWrite \/ ForeignInvalidate \/ FetchPublicSettings \/ SidebarFetch
    \/ \E k \in Reqs : AnswerPublic(k)
    \/ AnswerAdmin \/ OpsMonitoringDisabled \/ GrantExpires \/ Mount \/ Leave
    \/ \E i \in Insts : Serve(i) \/ Proceed(i) \/ SaveSettings(i) \/ OnVerified(i)
                        \/ OnCancel(i)

Spec == Init /\ [][Next]_vars

-----------------------------------------------------------------------------
(* Properties; CachedNeverOlder is about a step.                              *)

\* Within one page the public settings never go back to an older version: no answer
\* overtakes a newer one (app.ts, "no older request can overwrite a newer one").
CachedNeverOlder == loads' = loads => pub'.cached >= pub.cached

\* The stored fast policy is never replaced by the empty rules a page starts with, whichever
\* reads failed before the save (SettingsView.vue, openaiFastPolicyLoaded).
PolicyKept == policy # "blank"

\* The stored web search configuration is emptied only by a page whose read of it failed:
\* the form is not shown before that read has ended (loadSettings awaits loadWebSearchConfig).
WebSearchKept == web = "blank" => \E i \in Insts : view[i].webFailed

\* Asking for a code and retrying never writes the settings twice for one press of Save, and
\* a save that the administrator cancelled has written nothing (useStepUp.run).
StepUpWritesOnce ==
    \A i \in Insts : view[i].wrote <= 1 /\ (view[i].outcome = "cancelled" => view[i].wrote = 0)

=============================================================================
