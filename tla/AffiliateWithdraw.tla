-------------------------- MODULE AffiliateWithdraw --------------------------
(***************************************************************************)
(* Recording an offline withdrawal of affiliate quota: the administrator's   *)
(* dialog (AffiliateOfflineWithdrawDialog.vue), the idempotency keys it      *)
(* keeps for registrations of unknown outcome (affiliateWithdrawOperation.ts)*)
(* and WithdrawQuota of the server, which records a key once and for good.   *)
(*                                                                         *)
(* Requests and answers may be lost, and the server may serve a request long *)
(* after the browser has given it up.  Every mounting of the dialog is an    *)
(* instance: one that is left behind still handles the answer it waits for.  *)
(* One administrator, whose id the browser knows.                            *)
(***************************************************************************)
EXTENDS Integers, FiniteSets

CONSTANTS Users, Amounts,
          None,          \* no user, no amount
          Quota,         \* bound: each user's quota
          MaxKeys,       \* bound: keys made
          MaxSends,      \* bound: requests sent
          MaxInsts,      \* bound: mountings of the dialog
          Storage        \* sessionStorage works

WithdrawAssumption ==
    /\ Amounts \subseteq Nat \ {0} /\ None \notin Users \cup Amounts
    /\ {Quota, MaxKeys, MaxSends} \subseteq Nat /\ MaxInsts \in Nat \ {0} /\ Storage \in BOOLEAN

Slots == Users \X Amounts          \* what a key is kept for: storageKey
Keys == 1..MaxKeys
Sends == 1..MaxSends
Insts == 1..MaxInsts
NoKey == 0
NoSlot == <<None, None>>
NoOp == [key |-> NoKey, slot |-> NoSlot, uncertain |-> FALSE]
NoForm == [selected |-> None, amount |-> None, loading |-> FALSE, for |-> None, avail |-> 0]
Unsent == [inst |-> 1, op |-> NoOp, st |-> "none"]

VARIABLES quota, ledger,       \* aff_quota; the registration of each key
          memory, session,     \* pendingKeys and sessionStorage, by slot
          made, sent,          \* keys and requests so far
          wire,                \* the requests
          inst, open, form,    \* the mounted dialog and its form
          loads,               \* overview requests under way; current: the newest overviewSeq
          op,                  \* each instance's pendingOperation
          waits,               \* the request each instance's submit waits for (submitting), or 0
          acked, released,     \* history: keys shown as registered, and keys given up as refused
          deducted             \* history: deductions made for each key

store == <<memory, session>>
server == <<quota, ledger, deducted>>
dialog == <<inst, open, form, loads>>
history == <<acked, released>>
vars == <<quota, ledger, memory, session, made, sent, wire, inst, open, form, loads, op, waits,
          acked, released, deducted>>

Submitting == waits[inst] # 0
Uncertain == op[inst].uncertain

Ops == [key: Keys \cup {NoKey}, slot: Slots \cup {NoSlot}, uncertain: BOOLEAN]
TypeOK ==
    /\ quota \in [Users -> 0..Quota] /\ ledger \in [Keys -> Slots \cup {NoSlot}]
    /\ memory \in [Slots -> 0..MaxKeys] /\ session \in [Slots -> 0..MaxKeys]
    /\ made \in 0..MaxKeys /\ sent \in 0..MaxSends
    /\ wire \in [Sends -> [inst: Insts, op: Ops,
                           st: {"none", "sent", "ok", "replay", "refused", "error"}]]
    /\ inst \in Insts /\ open \in BOOLEAN
    /\ form \in [selected: Users \cup {None}, amount: Amounts \cup {None}, loading: BOOLEAN,
                 for: Users \cup {None}, avail: 0..Quota]
    /\ loads \subseteq [user: Users, current: BOOLEAN]
    /\ op \in [Insts -> Ops] /\ waits \in [Insts -> 0..MaxSends]
    /\ acked \subseteq Keys /\ released \subseteq Keys /\ deducted \in [Keys -> Nat]

Init ==
    /\ quota \in [Users -> 0..Quota] /\ ledger = [k \in Keys |-> NoSlot]
    /\ memory = [s \in Slots |-> NoKey] /\ session = [s \in Slots |-> NoKey]
    /\ made = 0 /\ sent = 0 /\ wire = [n \in Sends |-> Unsent]
    /\ inst = 1 /\ open = FALSE /\ form = NoForm /\ loads = {}
    /\ op = [i \in Insts |-> NoOp] /\ waits = [i \in Insts |-> 0]
    /\ acked = {} /\ released = {} /\ deducted = [k \in Keys |-> 0]

-----------------------------------------------------------------------------
(* The form                                                                  *)

\* What the template enables: the search, the user's delete button, the amount.
SearchShown == open /\ form.selected = None
UserChangeable == open /\ form.selected # None /\ ~Submitting /\ ~Uncertain
AmountEnabled == open /\ form.selected # None /\ ~form.loading /\ ~Submitting /\ ~Uncertain

\* overviewSeq++: no request under way is the newest any more.
Superseded == {[l EXCEPT !.current = FALSE] : l \in loads}

\* resetForm, when the dialog is shown.
Open ==
    /\ ~open /\ open' = TRUE
    /\ form' = NoForm /\ loads' = Superseded
    /\ op' = [op EXCEPT ![inst] = NoOp]
    /\ UNCHANGED <<server, store, made, sent, wire, inst, waits, history>>

Close ==
    /\ open /\ ~Submitting /\ open' = FALSE
    /\ UNCHANGED <<server, store, made, sent, wire, inst, form, loads, op, waits, history>>

LoadAvailableQuota(user) == loads' = Superseded \cup {[user |-> user, current |-> TRUE]}

SelectUser(user) ==
    /\ SearchShown
    /\ form' = [NoForm EXCEPT !.selected = user, !.loading = TRUE]
    /\ LoadAvailableQuota(user)
    /\ UNCHANGED <<server, store, made, sent, wire, inst, open, op, waits, history>>

ClearUser ==
    /\ UserChangeable
    /\ form' = NoForm /\ loads' = Superseded
    /\ UNCHANGED <<server, store, made, sent, wire, inst, open, op, waits, history>>

\* Typed, or filled in with the available quota.
EnterAmount(amount) ==
    /\ AmountEnabled
    /\ form' = [form EXCEPT !.amount = amount]
    /\ UNCHANGED <<server, store, made, sent, wire, inst, open, loads, op, waits, history>>

OverviewArrives(load) ==
    /\ load \in loads /\ loads' = loads \ {load}
    /\ form' = IF load.current
               THEN [form EXCEPT !.loading = FALSE, !.for = load.user, !.avail = quota[load.user]]
               ELSE form
    /\ UNCHANGED <<server, store, made, sent, wire, inst, open, op, waits, history>>

\* A user without an affiliate record has no quota; after another error the user is deselected,
\* unless a registration for that user is still open.
OverviewFails(load, noRecord) ==
    /\ load \in loads /\ loads' = loads \ {load}
    /\ form' = IF ~load.current THEN form
               ELSE [form EXCEPT !.loading = FALSE, !.for = None, !.avail = 0,
                                 !.selected = IF noRecord \/ Uncertain THEN @ ELSE None]
    /\ UNCHANGED <<server, store, made, sent, wire, inst, open, op, waits, history>>

-----------------------------------------------------------------------------
(* affiliateWithdrawOperation.ts                                             *)

StoredKey(slot) == IF memory[slot] # NoKey THEN memory[slot] ELSE session[slot]

KeepKey(slot, key) ==
    /\ memory' = [memory EXCEPT ![slot] = key]
    /\ session' = IF Storage THEN [session EXCEPT ![slot] = key] ELSE session

\* Mutant of PrepareAffiliateWithdrawOperation: every attempt makes a key of its own.
PrepareFresh(slot) ==
    LET key == made + 1
    IN  /\ key <= MaxKeys /\ made' = made + 1
        /\ KeepKey(slot, key)
        /\ op' = [op EXCEPT ![inst] = [key |-> key, slot |-> slot, uncertain |-> FALSE]]
PrepareAffiliateWithdrawOperation(slot) ==
    LET known == StoredKey(slot) # NoKey
        key == IF known THEN StoredKey(slot) ELSE made + 1
    IN  /\ key <= MaxKeys /\ made' = IF known THEN made ELSE key
        /\ KeepKey(slot, key)
        /\ op' = [op EXCEPT ![inst] = [key |-> key, slot |-> slot, uncertain |-> known]]

CompleteAffiliateWithdrawOperation(slot) == KeepKey(slot, NoKey)

-----------------------------------------------------------------------------
(* submit                                                                    *)

CanSubmit ==
    /\ open /\ form.selected # None /\ ~Submitting
    /\ Uncertain \/ (~form.loading /\ form.amount # None /\ form.amount <= form.avail)

Submit ==
    /\ CanSubmit
    /\ IF op[inst] = NoOp
       THEN PrepareAffiliateWithdrawOperation(<<form.selected, form.amount>>)
       ELSE UNCHANGED <<op, store, made>>
    /\ sent < MaxSends /\ sent' = sent + 1
    /\ wire' = [wire EXCEPT ![sent'] = [inst |-> inst, op |-> op'[inst], st |-> "sent"]]
    /\ waits' = [waits EXCEPT ![inst] = sent']
    /\ UNCHANGED <<server, dialog, history>>

Answered(i) == waits' = [waits EXCEPT ![i] = 0]

\* Registered, now or by an earlier request; the parent closes the dialog.
Registered(i) ==
    /\ waits[i] # 0 /\ wire[waits[i]].st \in {"ok", "replay"}
    /\ CompleteAffiliateWithdrawOperation(op[i].slot)
    /\ acked' = acked \cup {op[i].key}
    /\ op' = [op EXCEPT ![i] = NoOp] /\ Answered(i)
    /\ open' = (open /\ i # inst)
    /\ UNCHANGED <<server, made, sent, wire, inst, form, loads, released>>

\* The overview is loaded again after every failure, for the instance on the page.
ReloadQuota(i) ==
    IF i = inst
    THEN LoadAvailableQuota(op[i].slot[1]) /\ form' = [form EXCEPT !.loading = TRUE]
    ELSE UNCHANGED <<form, loads>>

\* The server refused (a 4xx other than 408 and 409): final, unless an earlier request is open.
Refused(i) ==
    /\ waits[i] # 0 /\ wire[waits[i]].st = "refused"
    /\ IF op[i].uncertain
       THEN UNCHANGED <<op, store, released>>
       ELSE /\ CompleteAffiliateWithdrawOperation(op[i].slot)
            /\ op' = [op EXCEPT ![i] = NoOp] /\ released' = released \cup {op[i].key}
    /\ Answered(i) /\ ReloadQuota(i)
    /\ UNCHANGED <<server, made, sent, wire, inst, open, acked>>

\* A server error, 408, 409, or no answer at all.
OutcomeUnknown(i) ==
    /\ waits[i] # 0
    /\ op' = [op EXCEPT ![i].uncertain = TRUE]
    /\ Answered(i) /\ ReloadQuota(i)
    /\ UNCHANGED <<server, store, made, sent, wire, inst, open, history>>

\* The administrator leaves the page while or after submitting, and comes back.
LeaveAndReturn ==
    /\ inst < MaxInsts /\ inst' = inst + 1
    /\ open' = FALSE /\ form' = NoForm /\ loads' = {}
    /\ UNCHANGED <<server, store, made, sent, wire, op, waits, history>>

\* The page is loaded anew: nobody waits for the requests under way any more.
Reload ==
    /\ memory' = [s \in Slots |-> NoKey]
    /\ open' = FALSE /\ form' = NoForm /\ loads' = {}
    /\ op' = [i \in Insts |-> NoOp] /\ waits' = [i \in Insts |-> 0]
    /\ UNCHANGED <<server, session, made, sent, wire, inst, history>>

-----------------------------------------------------------------------------
(* The server                                                                *)

\* WithdrawQuota, one transaction: the key's registration is found, or made with the deduction.
WithdrawQuota(n) ==
    LET slot == wire[n].op.slot
        found == ledger[wire[n].op.key]
    IN  IF found # NoSlot
        THEN /\ wire' = [wire EXCEPT ![n].st = IF found = slot THEN "replay" ELSE "error"]
             /\ UNCHANGED server
        ELSE IF quota[slot[1]] >= slot[2]
        THEN /\ quota' = [quota EXCEPT ![slot[1]] = @ - slot[2]]
             /\ ledger' = [ledger EXCEPT ![wire[n].op.key] = slot]
             /\ deducted' = [deducted EXCEPT ![wire[n].op.key] = @ + 1]
             /\ wire' = [wire EXCEPT ![n].st = "ok"]
        ELSE wire' = [wire EXCEPT ![n].st = "refused"] /\ UNCHANGED server

Serve(n) ==
    /\ wire[n].st = "sent" /\ WithdrawQuota(n)
    /\ UNCHANGED <<store, made, sent, dialog, op, waits, history>>

\* Turned away before the handler: 401, 423 or 429, or a server error.
TurnAway(n, st) ==
    /\ wire[n].st = "sent" /\ wire' = [wire EXCEPT ![n].st = st]
    /\ UNCHANGED <<server, store, made, sent, dialog, op, waits, history>>

Accrue(user) ==
    /\ quota[user] < Quota /\ quota' = [quota EXCEPT ![user] = Quota]
    /\ UNCHANGED <<ledger, deducted, store, made, sent, wire, dialog, op, waits, history>>

Next ==
    \/ Open \/ Close \/ ClearUser \/ Submit \/ LeaveAndReturn \/ Reload
    \/ \E user \in Users : SelectUser(user) \/ Accrue(user)
    \/ \E amount \in Amounts : EnterAmount(amount)
    \/ \E load \in loads : OverviewArrives(load) \/ \E noRecord \in BOOLEAN : OverviewFails(load, noRecord)
    \/ \E i \in Insts : Registered(i) \/ Refused(i) \/ OutcomeUnknown(i)
    \/ \E n \in Sends : Serve(n) \/ \E st \in {"refused", "error"} : TurnAway(n, st)

Spec == Init /\ [][Next]_vars

-----------------------------------------------------------------------------
(* Properties                                                                *)

\* Of the deductions for one user and amount at most one is unknown to the administrator: however
\* often a registration of unknown outcome is submitted again, nothing is deducted twice.
OneUnknown ==
    /\ \A k \in Keys : deducted[k] <= 1
    /\ \A slot \in Slots :
           Cardinality({k \in Keys : ledger[k] = slot /\ k \notin acked}) <= 1

\* A key that was given up as refused is never registered later.
RefusedStaysOut == \A k \in released : ledger[k] = NoSlot

\* While the outcome is unknown the dialog shows the user and the amount that a retry will send.
FormShowsOperation ==
    open /\ Uncertain => <<form.selected, form.amount>> = op[inst].slot

\* The quota the amount is checked against is the selected user's.
QuotaIsSelected ==
    open /\ form.selected # None /\ ~form.loading => form.for \in {form.selected, None}
=============================================================================
