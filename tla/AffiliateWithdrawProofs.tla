----------------------- MODULE AffiliateWithdrawProofs -----------------------
(***************************************************************************)
(* What holds of the dialog that records withdrawals, for any users, amounts *)
(* and numbers of requests, whatever is lost, late or refused: the form shows *)
(* what a retry will send, in any number of mountings; and, in one mounting   *)
(* with a working sessionStorage, nothing is deducted twice unnoticed.        *)
(***************************************************************************)
EXTENDS AffiliateWithdraw, FiniteSetTheorems, TLAPS

\* Requests that were sent, and operations that are under way, are for a user and an amount.
Sound ==
    /\ \A n \in Sends : wire[n].st # "none" => wire[n].op.key \in Keys /\ wire[n].op.slot \in Slots
    /\ \A i \in Insts : op[i] # NoOp => op[i].key \in Keys /\ op[i].slot \in Slots

\* An instance waits only for its operation, the one on the page with the dialog open; those
\* to come have nothing.
Waiting ==
    /\ \A i \in Insts : waits[i] # 0 => op[i] # NoOp
    /\ waits[inst] # 0 => open
    /\ \A i \in Insts : i > inst => waits[i] = 0 /\ op[i] = NoOp

\* An operation whose first request is under way was submitted with a loaded quota.
Fresh == op[inst] # NoOp /\ ~Uncertain => waits[inst] # 0 /\ ~form.loading

\* The form shows the operation, and the newest overview is the selected user's.
Shown == open /\ op[inst] # NoOp => <<form.selected, form.amount>> = op[inst].slot
Newest ==
    /\ \A l \in loads : l.current => form.loading /\ l.user = form.selected
    /\ form.selected # None /\ ~form.loading => form.for \in {form.selected, None}

DialogInv == TypeOK /\ Sound /\ Waiting /\ Fresh /\ Shown /\ Newest

-----------------------------------------------------------------------------
\* A key is kept for one user and amount; memory is a copy of sessionStorage.
KeptInv ==
    /\ \A s \in Slots : memory[s] \in {NoKey, session[s]} /\ session[s] <= made
    /\ \A s, r \in Slots : session[s] # NoKey /\ session[s] = session[r] => s = r

\* What was sent: the key of a request that may still be served is kept, or known as registered.
WireInv ==
    \A n \in Sends :
        wire[n].st # "none" =>
            /\ n <= sent /\ wire[n].op.key <= made
            /\ \A s \in Slots : session[s] = wire[n].op.key => s = wire[n].op.slot
            /\ wire[n].st = "sent" => session[wire[n].op.slot] = wire[n].op.key \/ wire[n].op.key \in acked
            /\ wire[n].st \in {"ok", "replay"} => ledger[wire[n].op.key] = wire[n].op.slot

\* The operation's key is kept; its request carries it, and is the only one unless the
\* operation is uncertain.
OpInv ==
    \A i \in Insts :
        /\ op[i] # NoOp => session[op[i].slot] = op[i].key
        /\ waits[i] # 0 => /\ wire[waits[i]].st # "none"
                           /\ wire[waits[i]].op.key = op[i].key /\ wire[waits[i]].op.slot = op[i].slot
        /\ op[i] # NoOp /\ ~op[i].uncertain =>
             \A n \in Sends : wire[n].st # "none" /\ wire[n].op.key = op[i].key => n = waits[i]

\* A registration the administrator does not know of is under a key that is kept.
LedgerInv ==
    \A k \in Keys :
        /\ deducted[k] = IF ledger[k] = NoSlot THEN 0 ELSE 1
        /\ ledger[k] # NoSlot => /\ k \in acked \/ session[ledger[k]] = k
                                 /\ \E n \in Sends : wire[n].st = "ok" /\ wire[n].op.key = k

\* Keys that are done with are kept no more.
DoneInv ==
    /\ \A k \in acked : ledger[k] # NoSlot /\ \A s \in Slots : session[s] # k
    /\ \A k \in released : ledger[k] = NoSlot /\ k <= made /\ \A s \in Slots : session[s] # k

KeyInv == KeptInv /\ WireInv /\ OpInv /\ LedgerInv /\ DoneInv

-----------------------------------------------------------------------------
(* Types                                                                     *)

Forms == [selected: Users \cup {None}, amount: Amounts \cup {None}, loading: BOOLEAN,
          for: Users \cup {None}, avail: 0..Quota]
Messages == [inst: Insts, op: Ops, st: {"none", "sent", "ok", "replay", "refused", "error"}]
Loads == [user: Users, current: BOOLEAN]

ServerTyped == /\ quota \in [Users -> 0..Quota] /\ ledger \in [Keys -> Slots \cup {NoSlot}]
               /\ deducted \in [Keys -> Nat]
StoreTyped == /\ memory \in [Slots -> 0..MaxKeys] /\ session \in [Slots -> 0..MaxKeys] /\ made \in 0..MaxKeys
WireTyped == sent \in 0..MaxSends /\ wire \in [Sends -> Messages]
FormTyped == inst \in Insts /\ open \in BOOLEAN /\ form \in Forms /\ loads \subseteq Loads
OpTyped == op \in [Insts -> Ops] /\ waits \in [Insts -> 0..MaxSends]
HistoryTyped == acked \subseteq Keys /\ released \subseteq Keys

\* The type invariant in parts.
LEMMA TypeParts ==
    /\ TypeOK <=> ServerTyped /\ StoreTyped /\ WireTyped /\ FormTyped /\ OpTyped /\ HistoryTyped
    /\ TypeOK' <=> ServerTyped' /\ StoreTyped' /\ WireTyped' /\ FormTyped' /\ OpTyped' /\ HistoryTyped'
BY DEF TypeOK, ServerTyped, StoreTyped, WireTyped, FormTyped, OpTyped, HistoryTyped, Forms, Messages, Loads

\* The empty values.
LEMMA EmptyTypes ==
    ASSUME WithdrawAssumption
    PROVE  /\ NoOp \in Ops /\ NoForm \in Forms /\ Unsent \in Messages /\ NoSlot \notin Slots
           /\ \A s \in Slots : s[1] \in Users /\ s[2] \in Amounts /\ s[2] \in Nat /\ s = <<s[1], s[2]>>
           /\ 1 \in Insts
<1>1. NoOp \in Ops
  BY DEF NoOp, Ops
<1>2. NoForm \in Forms
  <2>1. 0 \in 0..Quota
    BY DEF WithdrawAssumption
  <2> QED
    BY <2>1 DEF NoForm, Forms
<1>3. 1 \in Insts
  BY DEF Insts, WithdrawAssumption
<1>4. Unsent \in Messages
  BY <1>1, <1>3 DEF Unsent, Messages
<1>5. NoSlot \notin Slots
  BY DEF NoSlot, Slots, WithdrawAssumption
<1>6. ASSUME NEW s \in Slots PROVE s[1] \in Users /\ s[2] \in Amounts /\ s[2] \in Nat /\ s = <<s[1], s[2]>>
  <2>1. PICK u \in Users, a \in Amounts : s = <<u, a>>
    BY DEF Slots
  <2> QED
    BY <2>1 DEF WithdrawAssumption
<1> QED
  BY <1>1, <1>2, <1>3, <1>4, <1>5, <1>6

\* What a new overview request supersedes.
LEMMA SupersededType == ASSUME loads \subseteq Loads
                        PROVE  Superseded \subseteq Loads /\ \A l \in Superseded : ~l.current
BY DEF Superseded, Loads

\* A step of the form alone, and what it leaves alone.
FormStep ==
    \/ Open \/ Close \/ ClearUser \/ LeaveAndReturn \/ Reload
    \/ \E user \in Users : SelectUser(user)
    \/ \E amount \in Amounts : EnterAmount(amount)
    \/ \E load \in loads : OverviewArrives(load) \/ \E noRecord \in BOOLEAN : OverviewFails(load, noRecord)

LEMMA FormTypes ==
    ASSUME WithdrawAssumption, TypeOK, FormStep
    PROVE  TypeOK'
<1> USE TypeParts, EmptyTypes, SupersededType
<1>0. loads \subseteq Loads /\ form \in Forms /\ inst \in Insts /\ open \in BOOLEAN /\ NoKey \in 0..MaxKeys
      /\ 0 \in 0..MaxSends
  BY DEF FormTyped, NoKey, WithdrawAssumption
<1> USE <1>0
<1>1. CASE Open
  BY <1>1 DEF Open, server, store, history, ServerTyped, StoreTyped, WireTyped, FormTyped, OpTyped, HistoryTyped
<1>2. CASE Close
  BY <1>2 DEF Close, server, store, history, ServerTyped, StoreTyped, WireTyped, FormTyped, OpTyped, HistoryTyped
<1>3. CASE ClearUser
  BY <1>3 DEF ClearUser, server, store, history, ServerTyped, StoreTyped, WireTyped, FormTyped, OpTyped, HistoryTyped
<1>4. CASE LeaveAndReturn
  <2>1. inst' \in Insts
    BY <1>4 DEF LeaveAndReturn, Insts, WithdrawAssumption
  <2> QED
    BY <1>4, <2>1 DEF LeaveAndReturn, server, store, history, ServerTyped, StoreTyped, WireTyped, FormTyped, OpTyped, HistoryTyped
<1>5. CASE Reload
  BY <1>5 DEF Reload, server, history, ServerTyped, StoreTyped, WireTyped, FormTyped, OpTyped, HistoryTyped
<1>6. ASSUME NEW user \in Users, SelectUser(user) PROVE TypeOK'
  <2>1. [NoForm EXCEPT !.selected = user, !.loading = TRUE] \in Forms
    BY DEF Forms
  <2>2. [user |-> user, current |-> TRUE] \in Loads
    BY DEF Loads
  <2> QED
    BY <1>6, <2>1, <2>2 DEF SelectUser, LoadAvailableQuota, server, store, history, ServerTyped, StoreTyped, WireTyped,
                            FormTyped, OpTyped, HistoryTyped
<1>7. ASSUME NEW amount \in Amounts, EnterAmount(amount) PROVE TypeOK'
  <2>1. [form EXCEPT !.amount = amount] \in Forms
    BY DEF Forms
  <2> QED
    BY <1>7, <2>1 DEF EnterAmount, server, store, history, ServerTyped, StoreTyped, WireTyped, FormTyped, OpTyped, HistoryTyped
<1>8. ASSUME NEW load \in loads, OverviewArrives(load) PROVE TypeOK'
  <2>1. load.user \in Users /\ quota[load.user] \in 0..Quota
    BY DEF Loads, ServerTyped
  <2>2. [form EXCEPT !.loading = FALSE, !.for = load.user, !.avail = quota[load.user]] \in Forms
    BY <2>1 DEF Forms
  <2> QED
    BY <1>8, <2>2 DEF OverviewArrives, server, store, history, ServerTyped, StoreTyped, WireTyped, FormTyped, OpTyped,
                      HistoryTyped
<1>9. ASSUME NEW load \in loads, NEW noRecord \in BOOLEAN, OverviewFails(load, noRecord) PROVE TypeOK'
  <2>0. 0 \in 0..Quota
    BY DEF WithdrawAssumption
  <2>1. ASSUME NEW u \in Users \cup {None}
        PROVE  [form EXCEPT !.loading = FALSE, !.for = None, !.avail = 0, !.selected = u] \in Forms
    BY <2>0 DEF Forms
  <2>2. form' \in Forms
    <3>1. (IF noRecord \/ Uncertain THEN form.selected ELSE None) \in Users \cup {None}
      BY DEF Forms
    <3> QED
      BY <1>9, <2>1, <3>1 DEF OverviewFails
  <2> QED
    BY <1>9, <2>2 DEF OverviewFails, server, store, history, ServerTyped, StoreTyped, WireTyped, FormTyped, OpTyped,
                      HistoryTyped
<1> QED
  BY <1>1, <1>2, <1>3, <1>4, <1>5, <1>6, <1>7, <1>8, <1>9 DEF FormStep

-----------------------------------------------------------------------------
(* Submitting                                                                *)

\* A retry of an operation whose outcome is unknown.
LEMMA SubmitAgain ==
    ASSUME WithdrawAssumption, DialogInv, Submit, op[inst] # NoOp
    PROVE  Uncertain /\ UNCHANGED <<op, memory, session, made>>
BY DEF Submit, CanSubmit, Submitting, DialogInv, Fresh, store

\* A new operation, with the key that is kept for the user and amount, or a new one.
LEMMA SubmitNew ==
    ASSUME WithdrawAssumption, DialogInv, Submit, op[inst] = NoOp
    PROVE  LET slot == <<form.selected, form.amount>>
               known == StoredKey(slot) # NoKey
               key == IF known THEN StoredKey(slot) ELSE made + 1
           IN  /\ slot \in Slots /\ key \in Keys /\ ~form.loading
               /\ made' = (IF known THEN made ELSE key) /\ made' \in 0..MaxKeys
               /\ memory' = [memory EXCEPT ![slot] = key]
               /\ session' = (IF Storage THEN [session EXCEPT ![slot] = key] ELSE session)
               /\ op' = [op EXCEPT ![inst] = [key |-> key, slot |-> slot, uncertain |-> known]]
               /\ StoreTyped'
<1> DEFINE slot == <<form.selected, form.amount>>
           known == StoredKey(slot) # NoKey
           key == IF known THEN StoredKey(slot) ELSE made + 1
<1>0. TypeOK /\ StoreTyped /\ FormTyped /\ MaxKeys \in Nat
  BY TypeParts DEF DialogInv, WithdrawAssumption
<1>1. form.selected # None /\ form.amount # None /\ ~form.loading /\ PrepareAffiliateWithdrawOperation(slot)
  BY DEF Submit, CanSubmit, Uncertain, NoOp
<1>2. slot \in Slots
  BY <1>0, <1>1 DEF Slots, FormTyped, Forms
<1>3. StoredKey(slot) \in 0..MaxKeys /\ made \in 0..MaxKeys
  BY <1>0, <1>2 DEF StoredKey, StoreTyped
<1>4. key <= MaxKeys /\ made' = (IF known THEN made ELSE key) /\ KeepKey(slot, key)
      /\ op' = [op EXCEPT ![inst] = [key |-> key, slot |-> slot, uncertain |-> known]]
  BY <1>1 DEF PrepareAffiliateWithdrawOperation
<1>5. key \in Keys /\ key \in 0..MaxKeys /\ made' \in 0..MaxKeys
  BY <1>0, <1>3, <1>4 DEF Keys, NoKey
<1>6. memory' = [memory EXCEPT ![slot] = key] /\ session' = IF Storage THEN [session EXCEPT ![slot] = key] ELSE session
  BY <1>4 DEF KeepKey
<1> HIDE DEF key, known
<1>7. StoreTyped'
  BY <1>0, <1>2, <1>5, <1>6 DEF StoreTyped
<1>8. /\ slot \in Slots /\ key \in Keys /\ ~form.loading
      /\ made' = (IF known THEN made ELSE key) /\ made' \in 0..MaxKeys
      /\ memory' = [memory EXCEPT ![slot] = key]
      /\ session' = (IF Storage THEN [session EXCEPT ![slot] = key] ELSE session)
      /\ op' = [op EXCEPT ![inst] = [key |-> key, slot |-> slot, uncertain |-> known]]
      /\ StoreTyped'
  BY <1>1, <1>2, <1>4, <1>5, <1>6, <1>7
<1> QED
  BY <1>8 DEF key, known

\* The request that goes out.
LEMMA SubmitSends ==
    ASSUME WithdrawAssumption, DialogInv, Submit
    PROVE  /\ open /\ waits[inst] = 0 /\ sent' = sent + 1 /\ sent' \in Sends
           /\ UNCHANGED <<quota, ledger, deducted, inst, open, form, loads, acked, released>>
           /\ op'[inst] \in Ops /\ op'[inst].key \in Keys /\ op'[inst].slot \in Slots /\ op'[inst] # NoOp
           /\ op' = [op EXCEPT ![inst] = op'[inst]]
           /\ wire' = [wire EXCEPT ![sent + 1] = [inst |-> inst, op |-> op'[inst], st |-> "sent"]]
           /\ waits' = [waits EXCEPT ![inst] = sent + 1]
           /\ StoreTyped'
<1>0. TypeOK /\ StoreTyped /\ OpTyped /\ WireTyped /\ inst \in Insts /\ NoSlot \notin Slots
  BY TypeParts, EmptyTypes DEF DialogInv, FormTyped
<1>1. /\ open /\ waits[inst] = 0 /\ sent' = sent + 1
      /\ UNCHANGED <<quota, ledger, deducted, inst, open, form, loads, acked, released>>
      /\ wire' = [wire EXCEPT ![sent + 1] = [inst |-> inst, op |-> op'[inst], st |-> "sent"]]
      /\ waits' = [waits EXCEPT ![inst] = sent + 1]
  BY DEF Submit, CanSubmit, Submitting, server, dialog, history
<1>2. sent' \in Sends
  BY <1>0, <1>1 DEF Submit, Sends, WireTyped, WithdrawAssumption
<1>3. CASE op[inst] # NoOp
  <2>1. UNCHANGED <<op, memory, session, made>>
    BY <1>3, SubmitAgain
  <2>2. op[inst] \in Ops /\ op[inst].key \in Keys /\ op[inst].slot \in Slots
    BY <1>0, <1>3 DEF DialogInv, Sound, OpTyped
  <2>3. StoreTyped'
    BY <1>0, <2>1 DEF StoreTyped
  <2>4. op' = [op EXCEPT ![inst] = op'[inst]]
    BY <1>0, <2>1 DEF OpTyped
  <2> QED
    BY <1>1, <1>2, <1>3, <2>1, <2>2, <2>3, <2>4
<1>4. CASE op[inst] = NoOp
  <2>1. PICK key \in Keys, slot \in Slots, known \in BOOLEAN :
          op' = [op EXCEPT ![inst] = [key |-> key, slot |-> slot, uncertain |-> known]] /\ StoreTyped'
    BY <1>4, SubmitNew
  <2>2. op'[inst] = [key |-> key, slot |-> slot, uncertain |-> known]
    BY <1>0, <2>1 DEF OpTyped
  <2>3. op'[inst] \in Ops /\ op'[inst].key \in Keys /\ op'[inst].slot \in Slots
    BY <2>2 DEF Ops
  <2>4. op'[inst] # NoOp
    BY <1>0, <2>3 DEF NoOp
  <2>5. op' = [op EXCEPT ![inst] = op'[inst]]
    BY <1>0, <2>1, <2>2 DEF OpTyped
  <2> QED
    BY <1>1, <1>2, <2>1, <2>3, <2>4, <2>5
<1> QED
  BY <1>3, <1>4

-----------------------------------------------------------------------------
(* Answers                                                                   *)

Answer(i) == Registered(i) \/ Refused(i) \/ OutcomeUnknown(i)

\* A key that is given up.
LEMMA CompleteType == ASSUME TypeOK, WithdrawAssumption, NEW slot, CompleteAffiliateWithdrawOperation(slot), UNCHANGED made
                      PROVE  StoreTyped'
<1>1. NoKey \in 0..MaxKeys
  BY DEF NoKey, WithdrawAssumption
<1> QED
  BY <1>1, TypeParts DEF CompleteAffiliateWithdrawOperation, KeepKey, StoreTyped

\* What any answer does to the operation and the page.
LEMMA AnswerFacts ==
    ASSUME WithdrawAssumption, DialogInv, NEW i \in Insts, Answer(i)
    PROVE  /\ waits[i] # 0 /\ op[i] # NoOp /\ op[i].slot \in Slots /\ op[i].key \in Keys
           /\ waits' = [waits EXCEPT ![i] = 0]
           /\ UNCHANGED <<quota, ledger, deducted, made, sent, wire, inst>>
           /\ op' = [op EXCEPT ![i] = op'[i]] /\ op'[i] \in Ops
           /\ \/ op'[i] = NoOp
              \/ op'[i] # NoOp /\ op'[i].key = op[i].key /\ op'[i].slot = op[i].slot /\ op'[i].uncertain
           /\ StoreTyped' /\ HistoryTyped'
           /\ open' \in BOOLEAN
           /\ i # inst => UNCHANGED <<open, form, loads>>
           /\ i = inst =>
                \/ ~open' /\ UNCHANGED <<form, loads>> /\ op'[i] = NoOp
                \/ /\ open' = open /\ form' = [form EXCEPT !.loading = TRUE]
                   /\ loads' = Superseded \cup {[user |-> op[i].slot[1], current |-> TRUE]}
<1>0. TypeOK /\ StoreTyped /\ OpTyped /\ HistoryTyped /\ inst \in Insts /\ NoSlot \notin Slots /\ NoOp \in Ops /\ open \in BOOLEAN
  BY TypeParts, EmptyTypes DEF DialogInv, FormTyped
<1>1. waits[i] # 0 /\ waits' = [waits EXCEPT ![i] = 0] /\ UNCHANGED <<quota, ledger, deducted, made, sent, wire, inst>>
  BY DEF Answer, Registered, Refused, OutcomeUnknown, Answered, server
<1>2. op[i] # NoOp /\ op[i].slot \in Slots /\ op[i].key \in Keys /\ op[i] \in Ops
  BY <1>0, <1>1 DEF DialogInv, Waiting, Sound, OpTyped
<1>3. CASE Registered(i)
  <2>1. StoreTyped'
    BY <1>0, <1>3, CompleteType DEF Registered
  <2>2. op' = [op EXCEPT ![i] = NoOp] /\ op'[i] = NoOp
    BY <1>0, <1>3 DEF Registered, OpTyped
  <2>3. HistoryTyped'
    BY <1>0, <1>2, <1>3 DEF Registered, HistoryTyped
  <2>4. UNCHANGED <<form, loads>> /\ open' \in BOOLEAN /\ (i = inst => ~open') /\ (i # inst => open' = open)
    BY <1>0, <1>3 DEF Registered
  <2> QED
    BY <1>0, <1>1, <1>2, <2>1, <2>2, <2>3, <2>4
<1>4. ASSUME ReloadQuota(i), open' = open
      PROVE  /\ i # inst => UNCHANGED <<open, form, loads>>
             /\ i = inst => /\ open' = open /\ form' = [form EXCEPT !.loading = TRUE]
                            /\ loads' = Superseded \cup {[user |-> op[i].slot[1], current |-> TRUE]}
  BY <1>4 DEF ReloadQuota, LoadAvailableQuota
<1>5. CASE Refused(i) /\ ~op[i].uncertain
  <2>1. StoreTyped'
    BY <1>0, <1>5, CompleteType DEF Refused
  <2>2. op' = [op EXCEPT ![i] = NoOp] /\ op'[i] = NoOp
    BY <1>0, <1>5 DEF Refused, OpTyped
  <2>3. HistoryTyped'
    BY <1>0, <1>2, <1>5 DEF Refused, HistoryTyped
  <2>4. ReloadQuota(i) /\ open' = open
    BY <1>5 DEF Refused
  <2> QED
    BY <1>0, <1>1, <1>2, <1>4, <2>1, <2>2, <2>3, <2>4
<1>6. CASE Refused(i) /\ op[i].uncertain
  <2>1. UNCHANGED <<op, memory, session, made, released, acked>> /\ ReloadQuota(i) /\ open' = open
    BY <1>6 DEF Refused, store
  <2>2. StoreTyped' /\ HistoryTyped'
    BY <1>0, <2>1 DEF StoreTyped, HistoryTyped
  <2>3. op' = [op EXCEPT ![i] = op'[i]]
    BY <1>0, <2>1 DEF OpTyped
  <2> QED
    BY <1>0, <1>1, <1>2, <1>4, <1>6, <2>1, <2>2, <2>3
<1>7. CASE OutcomeUnknown(i)
  <2>1. op' = [op EXCEPT ![i].uncertain = TRUE] /\ UNCHANGED <<memory, session, made, released, acked>> /\ ReloadQuota(i)
        /\ open' = open
    BY <1>7 DEF OutcomeUnknown, store, history
  <2>2. StoreTyped' /\ HistoryTyped'
    BY <1>0, <2>1 DEF StoreTyped, HistoryTyped
  <2>3. op'[i] = [op[i] EXCEPT !.uncertain = TRUE] /\ op' = [op EXCEPT ![i] = op'[i]]
    BY <1>0, <2>1 DEF OpTyped
  <2>4. op'[i].key = op[i].key /\ op'[i].slot = op[i].slot /\ op'[i].uncertain /\ op'[i] \in Ops
    BY <1>2, <2>3 DEF Ops
  <2>5. op'[i] # NoOp
    BY <1>0, <1>2, <2>4 DEF NoOp
  <2> QED
    BY <1>0, <1>1, <1>2, <1>4, <2>1, <2>2, <2>3, <2>4, <2>5
<1> QED
  BY <1>3, <1>5, <1>6, <1>7 DEF Answer

-----------------------------------------------------------------------------
(* The server                                                                *)

ServerStep ==
    \/ \E user \in Users : Accrue(user)
    \/ \E n \in Sends : Serve(n) \/ \E st \in {"refused", "error"} : TurnAway(n, st)

\* A registration is made: for a key that has none, out of a quota that covers it.
Deduct(n) ==
    LET slot == wire[n].op.slot
        key == wire[n].op.key
    IN  /\ wire[n].st = "sent" /\ ledger[key] = NoSlot /\ quota[slot[1]] >= slot[2]
        /\ quota' = [quota EXCEPT ![slot[1]] = @ - slot[2]]
        /\ ledger' = [ledger EXCEPT ![key] = slot]
        /\ deducted' = [deducted EXCEPT ![key] = @ + 1]
        /\ wire' = [wire EXCEPT ![n].st = "ok"]

\* A request is answered and nothing is registered.
Reply(n, st) ==
    /\ wire[n].st = "sent" /\ wire' = [wire EXCEPT ![n].st = st]
    /\ UNCHANGED <<quota, ledger, deducted>>
    /\ st = "replay" => ledger[wire[n].op.key] = wire[n].op.slot

\* These are the server's steps.
LEMMA ServerFacts ==
    ASSUME ServerStep
    PROVE  /\ UNCHANGED <<memory, session, made, sent, inst, open, form, loads, op, waits, acked, released>>
           /\ \/ \E user \in Users : Accrue(user)
              \/ \E n \in Sends : Deduct(n)
              \/ \E n \in Sends, st \in {"replay", "refused", "error"} : Reply(n, st)
<1>1. UNCHANGED <<memory, session, made, sent, inst, open, form, loads, op, waits, acked, released>>
  BY DEF ServerStep, Serve, TurnAway, Accrue, store, dialog, history
<1>2. ASSUME NEW n \in Sends, Serve(n) PROVE Deduct(n) \/ \E st \in {"replay", "refused", "error"} : Reply(n, st)
  <2>1. CASE ledger[wire[n].op.key] # NoSlot
    BY <1>2, <2>1 DEF Serve, WithdrawQuota, Reply, server
  <2>2. CASE ledger[wire[n].op.key] = NoSlot /\ quota[wire[n].op.slot[1]] >= wire[n].op.slot[2]
    BY <1>2, <2>2 DEF Serve, WithdrawQuota, Deduct
  <2>3. CASE ledger[wire[n].op.key] = NoSlot /\ ~(quota[wire[n].op.slot[1]] >= wire[n].op.slot[2])
    BY <1>2, <2>3 DEF Serve, WithdrawQuota, Reply, server
  <2> QED
    BY <2>1, <2>2, <2>3
<1>3. ASSUME NEW n \in Sends, NEW st \in {"refused", "error"}, TurnAway(n, st) PROVE Reply(n, st)
  BY <1>3 DEF TurnAway, Reply, server
<1> QED
  BY <1>1, <1>2, <1>3 DEF ServerStep

-----------------------------------------------------------------------------
(* The dialog's invariant                                                    *)

\* A submission keeps it ...
LEMMA SubmitDialog == ASSUME WithdrawAssumption, DialogInv, Submit
                      PROVE  DialogInv'
<1>0. TypeOK /\ OpTyped /\ WireTyped /\ FormTyped /\ sent + 1 \in Sends /\ ServerTyped /\ HistoryTyped
  BY TypeParts, SubmitSends DEF DialogInv
<1>a. sent + 1 # 0 /\ sent + 1 \in 0..MaxSends
  BY <1>0 DEF Sends
<1>1. /\ \A i \in Insts \ {inst} : op'[i] = op[i] /\ waits'[i] = waits[i]
      /\ waits'[inst] = sent + 1
      /\ \A n \in Sends \ {sent + 1} : wire'[n] = wire[n]
      /\ wire'[sent + 1].op = op'[inst]
  BY <1>0, SubmitSends DEF OpTyped, WireTyped, FormTyped
<1>2. TypeOK'
  <2>1. [inst |-> inst, op |-> op'[inst], st |-> "sent"] \in Messages
    BY <1>0, SubmitSends DEF Messages, FormTyped
  <2>2. WireTyped'
    BY <1>0, <1>a, <2>1, SubmitSends DEF WireTyped
  <2>3. OpTyped'
    BY <1>0, <1>a, SubmitSends DEF OpTyped
  <2>4. ServerTyped' /\ FormTyped' /\ HistoryTyped'
    BY <1>0, SubmitSends DEF ServerTyped, FormTyped, HistoryTyped
  <2> QED
    BY <2>2, <2>3, <2>4, SubmitSends, TypeParts
<1>3. Sound'
  BY <1>1, SubmitSends DEF Sound, DialogInv
<1>4. Waiting'
  BY <1>0, <1>1, SubmitSends DEF Waiting, DialogInv, FormTyped, Insts
<1>5. Fresh' /\ Shown'
  <2>1. CASE op[inst] # NoOp
    BY <2>1, SubmitAgain, SubmitSends DEF Fresh, Shown, Uncertain, DialogInv
  <2>2. CASE op[inst] = NoOp
    <3>1. ~form.loading /\ op'[inst].slot = <<form.selected, form.amount>>
      BY <1>0, <2>2, SubmitNew DEF OpTyped, FormTyped
    <3> QED
      BY <1>1, <1>a, <3>1, SubmitSends DEF Fresh, Shown, Uncertain
  <2> QED
    BY <2>1, <2>2
<1>6. Newest'
  BY SubmitSends DEF Newest, DialogInv
<1> QED
  BY <1>2, <1>3, <1>4, <1>5, <1>6 DEF DialogInv

\* ... and so do an answer, which starts a new overview for the user that is shown, ...
LEMMA AnswerDialog == ASSUME WithdrawAssumption, DialogInv, NEW i \in Insts, Answer(i)
                      PROVE  DialogInv'
<1>0. TypeOK /\ OpTyped /\ WireTyped /\ FormTyped /\ ServerTyped /\ HistoryTyped /\ MaxSends \in Nat
      /\ op[i].slot[1] \in Users /\ op[i].slot = <<op[i].slot[1], op[i].slot[2]>>
  BY TypeParts, EmptyTypes, AnswerFacts DEF DialogInv, WithdrawAssumption
<1>1. /\ \A j \in Insts \ {i} : op'[j] = op[j] /\ waits'[j] = waits[j]
      /\ waits'[i] = 0 /\ inst' = inst
  BY <1>0, AnswerFacts DEF OpTyped
<1>2. i = inst => open
  BY AnswerFacts DEF DialogInv, Waiting
<1>3. i = inst => form.selected = op[i].slot[1] /\ form.amount = op[i].slot[2]
  <2>1. i = inst => <<form.selected, form.amount>> = op[i].slot
    BY <1>2, AnswerFacts DEF DialogInv, Shown
  <2>2. <<form.selected, form.amount>>[1] = form.selected /\ <<form.selected, form.amount>>[2] = form.amount
    OBVIOUS
  <2> QED
    BY <2>1, <2>2
<1>4. FormTyped'
  <2>1. [form EXCEPT !.loading = TRUE] \in Forms /\ [user |-> op[i].slot[1], current |-> TRUE] \in Loads
    BY <1>0 DEF FormTyped, Forms, Loads
  <2>2. CASE i # inst
    BY <1>0, <2>2, AnswerFacts DEF FormTyped
  <2>3. CASE i = inst
    <3>1. loads' \subseteq Loads /\ form' \in Forms /\ open' \in BOOLEAN
      BY <1>0, <2>1, <2>3, AnswerFacts, SupersededType DEF FormTyped
    <3> QED
      BY <1>0, <1>1, <3>1 DEF FormTyped
  <2> QED
    BY <2>2, <2>3
<1>5. TypeOK'
  <2>1. OpTyped'
    BY <1>0, AnswerFacts DEF OpTyped
  <2>2. WireTyped' /\ ServerTyped'
    BY <1>0, AnswerFacts DEF WireTyped, ServerTyped
  <2> QED
    BY <1>4, <2>1, <2>2, AnswerFacts, TypeParts
<1>6. Sound'
  BY <1>1, AnswerFacts DEF Sound, DialogInv
<1>7. Waiting'
  BY <1>0, <1>1, AnswerFacts DEF Waiting, DialogInv, FormTyped
<1>8. CASE i # inst
  BY <1>0, <1>1, <1>5, <1>6, <1>7, <1>8, AnswerFacts DEF DialogInv, Fresh, Shown, Newest, Uncertain, FormTyped
<1>9. CASE i = inst /\ ~open' /\ UNCHANGED <<form, loads>> /\ op'[i] = NoOp
  BY <1>1, <1>5, <1>6, <1>7, <1>9 DEF DialogInv, Fresh, Shown, Newest, Uncertain
<1>10. CASE /\ i = inst /\ open' = open /\ form' = [form EXCEPT !.loading = TRUE]
            /\ loads' = Superseded \cup {[user |-> op[i].slot[1], current |-> TRUE]}
  <2>1. form'.loading /\ form'.selected = form.selected /\ form'.amount = form.amount
    BY <1>0, <1>10 DEF FormTyped, Forms
  <2>2. Newest'
    BY <1>0, <1>3, <1>10, <2>1, SupersededType DEF Newest, FormTyped
  <2>3. Fresh' /\ Shown'
    BY <1>0, <1>1, <1>3, <1>10, <2>1, AnswerFacts DEF Fresh, Shown, Uncertain
  <2> QED
    BY <1>5, <1>6, <1>7, <2>2, <2>3 DEF DialogInv
<1> QED
  BY <1>8, <1>9, <1>10, AnswerFacts

\* ... a step of the server, ...
LEMMA ServerDialog == ASSUME WithdrawAssumption, DialogInv, ServerStep
                      PROVE  DialogInv'
<1>0. TypeOK /\ StoreTyped /\ OpTyped /\ WireTyped /\ FormTyped /\ ServerTyped /\ HistoryTyped /\ Quota \in Nat
  BY TypeParts DEF DialogInv, WithdrawAssumption
<1>1. UNCHANGED <<memory, session, made, sent, inst, open, form, loads, op, waits, acked, released>>
  BY ServerFacts
<1>2. StoreTyped' /\ OpTyped' /\ FormTyped' /\ HistoryTyped'
  BY <1>0, <1>1 DEF StoreTyped, OpTyped, FormTyped, HistoryTyped
<1>3. ASSUME NEW n \in Sends, NEW st \in {"ok", "replay", "refused", "error"}, wire[n].st = "sent",
             wire' = [wire EXCEPT ![n].st = st]
      PROVE  WireTyped' /\ Sound'
  <2>1. wire'[n].st = st /\ wire'[n].op = wire[n].op /\ \A m \in Sends \ {n} : wire'[m] = wire[m]
    BY <1>0, <1>3 DEF WireTyped, Messages
  <2>2. WireTyped'
    BY <1>0, <1>1, <1>3 DEF WireTyped, Messages
  <2> QED
    BY <1>1, <1>3, <2>1, <2>2 DEF Sound, DialogInv
<1>4. WireTyped' /\ Sound' /\ ServerTyped'
  <2>1. ASSUME NEW user \in Users, Accrue(user) PROVE WireTyped' /\ Sound' /\ ServerTyped'
    BY <1>0, <1>1, <2>1 DEF Accrue, WireTyped, Sound, ServerTyped, DialogInv
  <2>2. ASSUME NEW n \in Sends, Deduct(n) PROVE WireTyped' /\ Sound' /\ ServerTyped'
    <3>1. wire[n].op.slot \in Slots /\ wire[n].op.slot[1] \in Users /\ wire[n].op.slot[2] \in Nat /\ wire[n].op.key \in Keys
      BY <2>2, EmptyTypes DEF Deduct, DialogInv, Sound
    <3>2. quota[wire[n].op.slot[1]] - wire[n].op.slot[2] \in 0..Quota
      BY <1>0, <2>2, <3>1 DEF Deduct, ServerTyped
    <3>3. ServerTyped'
      BY <1>0, <2>2, <3>1, <3>2 DEF Deduct, ServerTyped
    <3> QED
      BY <1>3, <2>2, <3>3 DEF Deduct
  <2>3. ASSUME NEW n \in Sends, NEW st \in {"replay", "refused", "error"}, Reply(n, st)
        PROVE  WireTyped' /\ Sound' /\ ServerTyped'
    BY <1>0, <1>3, <2>3 DEF Reply, ServerTyped
  <2> QED
    BY <2>1, <2>2, <2>3, ServerFacts
<1>5. Waiting' /\ Fresh' /\ Shown' /\ Newest'
  BY <1>1 DEF Waiting, Fresh, Shown, Newest, Uncertain, DialogInv
<1> QED
  BY <1>2, <1>4, <1>5, TypeParts DEF DialogInv

\* ... and a step of the form.
LEMMA FormDialog == ASSUME WithdrawAssumption, DialogInv, FormStep
                    PROVE  DialogInv'
<1>0. TypeOK /\ OpTyped /\ FormTyped /\ TypeOK' /\ form \in Forms /\ loads \subseteq Loads /\ inst \in Insts
  BY TypeParts, FormTypes DEF DialogInv, FormTyped
<1>1. UNCHANGED wire /\ (Sound /\ (UNCHANGED op \/ \A i \in Insts : op'[i] \in {op[i], NoOp}) => Sound')
  BY DEF FormStep, Open, Close, ClearUser, LeaveAndReturn, Reload, SelectUser, EnterAmount, OverviewArrives, OverviewFails,
         Sound
<1>2. NoForm.selected = None /\ ~NoForm.loading /\ NoForm.for = None
  BY DEF NoForm
<1> USE DEF DialogInv
<1>3. CASE Open
  <2>1. op'[inst] = NoOp /\ (\A i \in Insts \ {inst} : op'[i] = op[i]) /\ waits[inst] = 0
        /\ UNCHANGED <<waits, inst>> /\ open' /\ form' = NoForm /\ loads' = Superseded
    BY <1>0, <1>3 DEF Open, OpTyped, Waiting
  <2>2. Sound'
    BY <1>1, <2>1
  <2>3. Waiting'
    BY <1>0, <2>1 DEF Waiting
  <2>4. Fresh' /\ Shown' /\ Newest'
    BY <1>0, <1>2, <2>1, SupersededType DEF Fresh, Shown, Newest, Uncertain
  <2> QED
    BY <1>0, <2>2, <2>3, <2>4
<1>4. CASE Close
  BY <1>0, <1>1, <1>4 DEF Close, Submitting, Waiting, Fresh, Shown, Newest, Uncertain
<1>5. CASE ClearUser
  <2>1. UNCHANGED <<op, waits, inst, open>> /\ form' = NoForm /\ loads' = Superseded /\ waits[inst] = 0 /\ ~Uncertain
    BY <1>5 DEF ClearUser, UserChangeable, Submitting
  <2>2. op[inst] = NoOp
    BY <2>1 DEF Fresh
  <2> QED
    BY <1>0, <1>1, <1>2, <2>1, <2>2, SupersededType DEF Waiting, Fresh, Shown, Newest, Uncertain
<1>6. CASE LeaveAndReturn
  <2>1. UNCHANGED <<op, waits>> /\ inst' = inst + 1 /\ ~open' /\ form' = NoForm /\ loads' = {}
    BY <1>6 DEF LeaveAndReturn
  <2>2. inst' \in Insts /\ inst \in Nat /\ \A i \in Insts : i \in Nat
    BY <1>0, TypeParts DEF FormTyped, Insts
  <2>3. inst' > inst /\ \A i \in Insts : i > inst' => i > inst
    BY <2>1, <2>2
  <2>4. op'[inst'] = NoOp /\ waits'[inst'] = 0
    BY <2>1, <2>2, <2>3 DEF Waiting
  <2>5. Waiting'
    BY <2>1, <2>3, <2>4 DEF Waiting
  <2> QED
    BY <1>0, <1>1, <1>2, <2>1, <2>4, <2>5 DEF Fresh, Shown, Newest, Uncertain
<1>7. CASE Reload
  <2>1. inst' = inst /\ ~open' /\ form' = NoForm /\ loads' = {} /\ \A i \in Insts : op'[i] = NoOp /\ waits'[i] = 0
    BY <1>7 DEF Reload
  <2>2. Sound'
    BY <1>1, <2>1
  <2> QED
    BY <1>0, <1>2, <2>1, <2>2 DEF Waiting, Fresh, Shown, Newest, Uncertain
<1>8. ASSUME NEW user \in Users, SelectUser(user) PROVE DialogInv'
  <2>1. UNCHANGED <<op, waits, inst, open>> /\ form' = [NoForm EXCEPT !.selected = user, !.loading = TRUE]
        /\ loads' = Superseded \cup {[user |-> user, current |-> TRUE]} /\ open /\ form.selected = None
    BY <1>8 DEF SelectUser, SearchShown, LoadAvailableQuota
  <2>2. form'.selected = user /\ form'.loading
    BY <2>1 DEF NoForm
  <2>3. op[inst] = NoOp
    <3>1. op[inst] # NoOp => <<form.selected, form.amount>> \in Slots
      BY <1>0, <2>1 DEF Shown, Sound
    <3>2. <<None, form.amount>> \notin Slots
      BY DEF Slots, WithdrawAssumption
    <3> QED
      BY <2>1, <3>1, <3>2
  <2>4. Newest'
    BY <1>0, <2>1, <2>2, SupersededType DEF Newest
  <2> QED
    BY <1>0, <1>1, <2>1, <2>3, <2>4 DEF Waiting, Fresh, Shown, Uncertain
<1>9. ASSUME NEW amount \in Amounts, EnterAmount(amount) PROVE DialogInv'
  <2>1. UNCHANGED <<op, waits, inst, open, loads>> /\ form' = [form EXCEPT !.amount = amount] /\ waits[inst] = 0
        /\ ~Uncertain
    BY <1>9 DEF EnterAmount, AmountEnabled, Submitting
  <2>2. form'.selected = form.selected /\ form'.loading = form.loading /\ form'.for = form.for
    BY <1>0, <2>1 DEF Forms
  <2>3. op[inst] = NoOp
    BY <2>1 DEF Fresh
  <2> QED
    BY <1>0, <1>1, <2>1, <2>2, <2>3 DEF Waiting, Fresh, Shown, Newest, Uncertain
<1>10. ASSUME NEW load \in loads, OverviewArrives(load) PROVE DialogInv'
  <2>1. UNCHANGED <<op, waits, inst, open>> /\ loads' = loads \ {load}
    BY <1>10 DEF OverviewArrives
  <2>2. CASE ~load.current
    BY <1>0, <1>1, <1>10, <2>1, <2>2 DEF OverviewArrives, Waiting, Fresh, Shown, Newest, Uncertain
  <2>3. CASE load.current
    <3>1. form'.selected = form.selected /\ form'.amount = form.amount /\ ~form'.loading /\ form'.for = load.user
      BY <1>0, <1>10, <2>3 DEF OverviewArrives, Forms
    <3>2. load.user = form.selected /\ \A l \in loads' : ~l.current
      BY <1>0, <2>1, <2>3 DEF Newest, Loads
    <3>3. Newest'
      BY <3>1, <3>2 DEF Newest
    <3> QED
      BY <1>0, <1>1, <2>1, <3>1, <3>3 DEF Waiting, Fresh, Shown, Uncertain
  <2> QED
    BY <2>2, <2>3
<1>11. ASSUME NEW load \in loads, NEW noRecord \in BOOLEAN, OverviewFails(load, noRecord) PROVE DialogInv'
  <2>1. UNCHANGED <<op, waits, inst, open>> /\ loads' = loads \ {load}
    BY <1>11 DEF OverviewFails
  <2>2. CASE ~load.current
    BY <1>0, <1>1, <1>11, <2>1, <2>2 DEF OverviewFails, Waiting, Fresh, Shown, Newest, Uncertain
  <2>3. CASE load.current
    <3>1. /\ form'.selected = IF noRecord \/ Uncertain THEN form.selected ELSE None
          /\ form'.amount = form.amount /\ ~form'.loading /\ form'.for = None
      BY <1>0, <1>11, <2>3 DEF OverviewFails, Forms
    <3>2. form.loading /\ \A l \in loads' : ~l.current
      BY <1>0, <2>1, <2>3 DEF Newest, Loads
    <3>3. op[inst] # NoOp => form'.selected = form.selected
      BY <3>1, <3>2 DEF Fresh
    <3>4. Newest'
      BY <3>1, <3>2 DEF Newest
    <3> QED
      BY <1>0, <1>1, <2>1, <3>1, <3>2, <3>3, <3>4 DEF Waiting, Fresh, Shown, Uncertain
  <2> QED
    BY <2>2, <2>3
<1> QED
  BY <1>3, <1>4, <1>5, <1>6, <1>7, <1>8, <1>9, <1>10, <1>11 DEF FormStep

\* Every step is one of these.
LEMMA Steps == Next => FormStep \/ Submit \/ ServerStep \/ \E i \in Insts : Answer(i)
BY DEF Next, FormStep, ServerStep, Answer

\* The dialog's invariant holds throughout.
LEMMA DialogHolds == ASSUME WithdrawAssumption PROVE Spec => []DialogInv
<1>1. Init => DialogInv
  <2> SUFFICES ASSUME Init PROVE DialogInv
    OBVIOUS
  <2>1. TypeOK
    <3>1. StoreTyped /\ WireTyped
      BY EmptyTypes DEF Init, StoreTyped, WireTyped, NoKey, WithdrawAssumption
    <3>2. ServerTyped /\ FormTyped /\ HistoryTyped
      BY EmptyTypes DEF Init, ServerTyped, FormTyped, HistoryTyped
    <3>3. OpTyped
      BY EmptyTypes DEF Init, OpTyped, WithdrawAssumption
    <3> QED
      BY <3>1, <3>2, <3>3, TypeParts
  <2>2. Sound /\ Waiting /\ Fresh /\ Shown
    BY EmptyTypes DEF Init, Sound, Waiting, Fresh, Shown, Uncertain, Unsent
  <2>3. Newest
    BY DEF Init, Newest, NoForm
  <2> QED
    BY <2>1, <2>2, <2>3 DEF DialogInv
<1>2. DialogInv /\ [Next]_vars => DialogInv'
  <2> SUFFICES ASSUME DialogInv, [Next]_vars PROVE DialogInv'
    OBVIOUS
  <2>1. CASE UNCHANGED vars
    BY <2>1 DEF vars, DialogInv, TypeOK, Sound, Waiting, Fresh, Shown, Newest, Uncertain
  <2> QED
    BY <2>1, Steps, FormDialog, SubmitDialog, ServerDialog, AnswerDialog
<1> QED
  BY <1>1, <1>2, PTL DEF Spec

\* However the dialog is left, opened again, reloaded and answered late, in any number of
\* mountings: while the outcome of a registration is unknown it shows the user and the amount
\* that a retry will send, and it checks an amount against the quota of the user it shows
\* (AffiliateOfflineWithdrawDialog.vue, overviewSeq).
THEOREM DialogShowsOperation ==
    ASSUME WithdrawAssumption
    PROVE  Spec => [](TypeOK /\ FormShowsOperation /\ QuotaIsSelected)
<1>1. DialogInv => TypeOK /\ FormShowsOperation /\ QuotaIsSelected
  BY DEF DialogInv, Shown, Newest, FormShowsOperation, QuotaIsSelected, Uncertain, NoOp
<1> QED
  BY <1>1, DialogHolds, PTL

-----------------------------------------------------------------------------
(* One mounting, with a working sessionStorage                               *)

Single == WithdrawAssumption /\ MaxInsts = 1 /\ Storage

\* There is one instance, and keys and requests are numbers.
LEMMA SingleFacts ==
    ASSUME Single, DialogInv
    PROVE  /\ Insts = {1} /\ inst = 1 /\ made \in Nat /\ sent \in Nat
           /\ \A s \in Slots : session[s] \in Nat /\ memory[s] \in Nat
           /\ \A k \in Keys : k \in Nat /\ k # NoKey
           /\ \A n \in Sends : n \in Nat /\ n # 0
<1>1. TypeOK /\ FormTyped /\ StoreTyped /\ WireTyped
  BY TypeParts DEF DialogInv
<1> QED
  BY <1>1 DEF Single, FormTyped, StoreTyped, WireTyped, Insts, Keys, Sends, NoKey

\* A new registration keeps the keys: its own is kept, or was there and is kept again.
LEMMA SubmitKeys == ASSUME Single, DialogInv, KeyInv, Submit
                    PROVE  KeyInv'
<1> USE DEF KeyInv
<1>0. WithdrawAssumption /\ Storage /\ OpTyped /\ StoreTyped /\ WireTyped
  BY TypeParts DEF Single, DialogInv
<1>1. /\ UNCHANGED <<ledger, deducted, acked, released>> /\ sent' = sent + 1 /\ sent + 1 \in Sends
      /\ wire'[sent + 1].st = "sent" /\ wire'[sent + 1].op = op'[1] /\ op'[1].key \in Keys /\ op'[1].slot \in Slots
      /\ \A n \in Sends \ {sent + 1} : wire'[n] = wire[n]
      /\ waits'[1] = sent + 1 /\ op'[1] # NoOp
  BY <1>0, SingleFacts, SubmitSends DEF WireTyped, OpTyped
<1>2. wire[sent + 1].st = "none"
  BY <1>1, SingleFacts DEF WireInv
<1>3. /\ session'[op'[1].slot] = op'[1].key /\ made' >= made /\ op'[1].key <= made' /\ made' \in Nat
      /\ \A s \in Slots : s # op'[1].slot => session'[s] = session[s] /\ memory'[s] = memory[s]
      /\ memory'[op'[1].slot] \in {NoKey, op'[1].key}
      /\ \/ op'[1].uncertain /\ session[op'[1].slot] = op'[1].key
         \/ op'[1].key = made + 1 /\ session[op'[1].slot] = NoKey
  <2>1. CASE op[inst] # NoOp
    <3>1. op' = op /\ session' = session /\ memory' = memory /\ made' = made /\ op[1].uncertain /\ session[op[1].slot] = op[1].key
      BY <2>1, SubmitAgain, SingleFacts, <1>0 DEF Uncertain, OpInv
    <3> QED
      BY <1>0, <1>1, <3>1, SingleFacts DEF KeptInv
  <2>2. CASE op[inst] = NoOp
    <3> DEFINE slot == <<form.selected, form.amount>>
               known == StoredKey(slot) # NoKey
               key == IF known THEN StoredKey(slot) ELSE made + 1
    <3>1. /\ slot \in Slots /\ made' = (IF known THEN made ELSE key)
          /\ memory' = [memory EXCEPT ![slot] = key] /\ session' = [session EXCEPT ![slot] = key]
          /\ op' = [op EXCEPT ![inst] = [key |-> key, slot |-> slot, uncertain |-> known]]
      BY <1>0, <2>2, SubmitNew
    <3>2. StoredKey(slot) = session[slot] /\ session[slot] \in Nat /\ session[slot] <= made
      BY <3>1, SingleFacts DEF KeptInv, StoredKey
    <3>3. op'[1].key = key /\ op'[1].slot = slot /\ op'[1].uncertain = known
      BY <1>0, <3>1, SingleFacts DEF OpTyped
    <3>4. memory'[slot] = key /\ session'[slot] = key
          /\ \A s \in Slots \ {slot} : session'[s] = session[s] /\ memory'[s] = memory[s]
      BY <1>0, <3>1 DEF StoreTyped
    <3>5. /\ made' >= made /\ key <= made' /\ made' \in Nat
          /\ \/ known /\ session[slot] = key
             \/ key = made + 1 /\ session[slot] = NoKey
      BY <3>1, <3>2, SingleFacts
    <3> HIDE DEF key, known, slot
    <3> QED
      BY <3>3, <3>4, <3>5
  <2> QED
    BY <2>1, <2>2
<1> DEFINE slot == op'[1].slot
           key == op'[1].key
<1>4. key # NoKey /\ key \in Nat /\ slot \in Slots /\ \A s \in Slots \ {slot} : session[s] # key
  <2>1. CASE session[slot] = key
    BY <1>1, <2>1, SingleFacts DEF KeptInv
  <2>2. CASE key = made + 1
    BY <1>1, <2>2, SingleFacts DEF KeptInv
  <2> QED
    BY <1>1, <1>3, <2>1, <2>2, SingleFacts
<1>5. \A s \in Slots : session'[s] = (IF s = slot THEN key ELSE session[s])
                      /\ (session[s] # NoKey => session'[s] = session[s])
  BY <1>3
<1>6. key \notin acked /\ key \notin released
  BY <1>1, <1>3, <1>4, SingleFacts DEF DoneInv, DialogInv, TypeOK, LedgerInv, WireInv
<1> HIDE DEF slot, key
<1>7. KeptInv'
  <2>1. \A s \in Slots : memory'[s] \in {NoKey, session'[s]} /\ session'[s] <= made'
    BY <1>3, <1>5, SingleFacts DEF KeptInv, slot, key
  <2>2. ASSUME NEW s \in Slots, NEW r \in Slots, session'[s] # NoKey, session'[s] = session'[r] PROVE s = r
    BY <1>4, <1>5, <2>2 DEF KeptInv
  <2> QED
    BY <2>1, <2>2 DEF KeptInv
<1>8. \A n \in Sends : wire[n].st # "none" /\ wire[n].op.key = key => op'[1].uncertain /\ wire[n].op.slot = slot
  <2>1. CASE key = made + 1
    BY <2>1, SingleFacts DEF WireInv, DialogInv, Sound
  <2>2. CASE op'[1].uncertain /\ session[slot] = key
    BY <1>4, <2>2 DEF WireInv
  <2> QED
    BY <1>3, <2>1, <2>2 DEF slot, key
<1>9. WireInv'
  <2> SUFFICES ASSUME NEW n \in Sends, wire'[n].st # "none"
               PROVE  /\ n <= sent' /\ wire'[n].op.key <= made'
                      /\ \A s \in Slots : session'[s] = wire'[n].op.key => s = wire'[n].op.slot
                      /\ wire'[n].st = "sent" => session'[wire'[n].op.slot] = wire'[n].op.key \/ wire'[n].op.key \in acked'
                      /\ wire'[n].st \in {"ok", "replay"} => ledger'[wire'[n].op.key] = wire'[n].op.slot
    BY DEF WireInv
  <2>1. CASE n = sent + 1
    BY <1>1, <1>3, <1>4, <1>5, <2>1, SingleFacts DEF slot, key
  <2>2. CASE n # sent + 1
    <3>1. wire'[n] = wire[n] /\ wire[n].op.key \in Keys /\ wire[n].op.slot \in Slots
      BY <1>1, <2>2 DEF DialogInv, Sound
    <3>2. n <= sent' /\ wire[n].op.key <= made'
      BY <1>1, <1>3, <3>1, SingleFacts DEF WireInv
    <3>3. \A s \in Slots : session'[s] = wire[n].op.key => s = wire[n].op.slot
      BY <1>5, <1>8, <3>1 DEF WireInv
    <3>4. wire[n].st = "sent" => session'[wire[n].op.slot] = wire[n].op.key \/ wire[n].op.key \in acked
      BY <1>5, <3>1, SingleFacts DEF WireInv
    <3> QED
      BY <1>1, <3>1, <3>2, <3>3, <3>4 DEF WireInv
  <2> QED
    BY <2>1, <2>2
<1>10. OpInv'
  <2>1. ASSUME ~op'[1].uncertain, NEW n \in Sends, wire'[n].st # "none", wire'[n].op.key = key PROVE n = sent + 1
    BY <1>1, <1>8, <2>1
  <2> QED
    BY <1>1, <1>3, <2>1, SingleFacts DEF OpInv, slot, key
<1>11. LedgerInv'
  <2>1. \A k \in Keys : ledger[k] # NoSlot => ledger[k] \in Slots
    BY DEF DialogInv, TypeOK
  <2>2. ASSUME NEW k \in Keys, ledger[k] # NoSlot PROVE k \in acked \/ session'[ledger[k]] = k
    BY <1>5, <2>1, <2>2, SingleFacts DEF LedgerInv
  <2>3. ASSUME NEW k \in Keys, ledger[k] # NoSlot PROVE \E n \in Sends : wire'[n].st = "ok" /\ wire'[n].op.key = k
    BY <1>1, <1>2, <2>3 DEF LedgerInv
  <2> QED
    BY <1>1, <2>2, <2>3 DEF LedgerInv
<1>12. DoneInv'
  <2>1. \A k \in released : k <= made'
    BY <1>3, SingleFacts DEF DoneInv, DialogInv, TypeOK
  <2> QED
    BY <1>1, <1>5, <1>6, <2>1 DEF DoneInv
<1> QED
  BY <1>7, <1>9, <1>10, <1>11, <1>12

\* A key that is given up, as registered or as refused, is the operation's, and nobody else's.
LEMMA GiveUpKeys ==
    ASSUME Single, DialogInv, KeyInv, waits[1] # 0, CompleteAffiliateWithdrawOperation(op[1].slot),
           op' = [op EXCEPT ![1] = NoOp], waits' = [waits EXCEPT ![1] = 0], UNCHANGED <<ledger, deducted, made, sent, wire>>,
           \/ /\ acked' = acked \cup {op[1].key} /\ released' = released
              /\ ledger[op[1].key] # NoSlot
           \/ /\ acked' = acked /\ released' = released \cup {op[1].key}
              /\ ledger[op[1].key] = NoSlot /\ \A n \in Sends : wire[n].st = "sent" => wire[n].op.key # op[1].key
    PROVE  KeyInv'
<1> USE DEF KeyInv
<1> DEFINE slot == op[1].slot
           key == op[1].key
<1>0. StoreTyped /\ OpTyped /\ Storage /\ 1 \in Insts
  BY TypeParts, SingleFacts DEF Single, DialogInv
<1>1. op[1] # NoOp /\ slot \in Slots /\ key \in Keys /\ session[slot] = key
  BY <1>0 DEF DialogInv, Waiting, Sound, OpInv
<1>2. \A s \in Slots : session'[s] = (IF s = slot THEN NoKey ELSE session[s])
                      /\ memory'[s] = (IF s = slot THEN NoKey ELSE memory[s])
  BY <1>0, <1>1 DEF CompleteAffiliateWithdrawOperation, KeepKey, StoreTyped
<1>3. op'[1] = NoOp /\ waits'[1] = 0
  BY <1>0 DEF OpTyped
<1>4. key <= made
  BY <1>1 DEF KeptInv
<1> HIDE DEF slot, key
<1>5. KeptInv'
  <2>1. \A s \in Slots : memory'[s] \in {NoKey, session'[s]} /\ session'[s] <= made'
    BY <1>2, SingleFacts DEF KeptInv, NoKey
  <2>2. ASSUME NEW s \in Slots, NEW r \in Slots, session'[s] # NoKey, session'[s] = session'[r] PROVE s = r
    BY <1>2, <2>2 DEF KeptInv
  <2> QED
    BY <2>1, <2>2 DEF KeptInv
<1>6. WireInv'
  <2> SUFFICES ASSUME NEW n \in Sends, wire[n].st # "none"
               PROVE  /\ n <= sent /\ wire[n].op.key <= made
                      /\ \A s \in Slots : session'[s] = wire[n].op.key => s = wire[n].op.slot
                      /\ wire[n].st = "sent" => session'[wire[n].op.slot] = wire[n].op.key \/ wire[n].op.key \in acked'
                      /\ wire[n].st \in {"ok", "replay"} => ledger[wire[n].op.key] = wire[n].op.slot
    BY DEF WireInv
  <2>1. wire[n].op.key \in Keys /\ wire[n].op.slot \in Slots /\ wire[n].op.key # NoKey
    BY SingleFacts DEF DialogInv, Sound
  <2>2. \A s \in Slots : session'[s] = wire[n].op.key => s = wire[n].op.slot
    BY <1>2, <2>1 DEF WireInv
  <2>3. wire[n].st = "sent" => session'[wire[n].op.slot] = wire[n].op.key \/ wire[n].op.key \in acked'
    BY <1>1, <1>2, <2>1 DEF WireInv, slot, key
  <2> QED
    BY <2>2, <2>3 DEF WireInv
<1>7. OpInv'
  BY <1>3, SingleFacts DEF OpInv
<1>8. LedgerInv'
  <2>1. ASSUME NEW k \in Keys, ledger[k] # NoSlot PROVE k \in acked' \/ session'[ledger[k]] = k
    <3>1. ledger[k] \in Slots
      BY <2>1 DEF DialogInv, TypeOK
    <3>2. k \in acked \/ session[ledger[k]] = k
      BY <2>1 DEF LedgerInv
    <3> QED
      BY <1>1, <1>2, <2>1, <3>1, <3>2 DEF slot, key
  <2> QED
    BY <2>1 DEF LedgerInv
<1>9. DoneInv'
  <2>1. \A s \in Slots : session'[s] # key
    BY <1>1, <1>2, SingleFacts DEF KeptInv
  <2>2. \A k \in acked \cup released : \A s \in Slots : session'[s] # k
    BY <1>2, SingleFacts DEF DoneInv, DialogInv, TypeOK
  <2> QED
    BY <1>1, <1>4, <2>1, <2>2 DEF DoneInv, key
<1> QED
  BY <1>5, <1>6, <1>7, <1>8, <1>9

\* Answers keep the keys.  A refusal is final only if the refused request is the key's only one.
LEMMA AnswerKeys == ASSUME Single, DialogInv, KeyInv, NEW i \in Insts, Answer(i)
                    PROVE  KeyInv'
<1>0. i = 1 /\ 1 \in Insts /\ WithdrawAssumption /\ OpTyped
  BY SingleFacts, TypeParts DEF Single, DialogInv
<1>1. waits[1] # 0 /\ op[1] # NoOp /\ op[1].slot \in Slots /\ op[1].key \in Keys /\ waits[1] \in Sends
  BY <1>0, AnswerFacts DEF OpTyped, Sends
<1>2. wire[waits[1]].op.key = op[1].key /\ wire[waits[1]].op.slot = op[1].slot /\ NoSlot \notin Slots
  BY <1>0, <1>1, EmptyTypes DEF KeyInv, OpInv
<1>3. CASE Registered(1)
  <2>1. ledger[op[1].key] = op[1].slot
    BY <1>1, <1>2, <1>3 DEF Registered, KeyInv, WireInv
  <2> QED
    BY <1>1, <1>2, <1>3, <2>1, GiveUpKeys DEF Registered, Answered, server
<1>4. CASE Refused(1) /\ ~op[1].uncertain
  <2>1. \A n \in Sends : wire[n].st # "none" /\ wire[n].op.key = op[1].key => n = waits[1] /\ wire[n].st = "refused"
    BY <1>0, <1>1, <1>4 DEF KeyInv, OpInv, Refused
  <2>2. ledger[op[1].key] = NoSlot
    BY <1>1, <2>1 DEF KeyInv, LedgerInv
  <2>3. \A n \in Sends : wire[n].st = "sent" => wire[n].op.key # op[1].key
    BY <2>1
  <2> QED
    BY <1>1, <1>4, <2>2, <2>3, GiveUpKeys DEF Refused, Answered, server
<1>5. CASE (Refused(1) /\ op[1].uncertain) \/ OutcomeUnknown(1)
  <2>1. UNCHANGED <<ledger, deducted, memory, session, made, sent, wire, acked, released>>
    BY <1>5 DEF Refused, OutcomeUnknown, server, store, history
  <2>2. waits'[1] = 0 /\ op'[1].key = op[1].key /\ op'[1].slot = op[1].slot /\ op'[1].uncertain
    <3>1. CASE Refused(1) /\ op[1].uncertain
      BY <1>0, <3>1 DEF Refused, Answered, OpTyped
    <3>2. CASE OutcomeUnknown(1)
      BY <1>0, <3>2 DEF OutcomeUnknown, Answered, OpTyped, Ops
    <3> QED
      BY <1>5, <3>1, <3>2
  <2>3. OpInv'
    BY <1>0, <1>1, <2>1, <2>2, SingleFacts DEF OpInv, KeyInv
  <2> QED
    BY <2>1, <2>3 DEF KeyInv, KeptInv, WireInv, LedgerInv, DoneInv
<1> QED
  BY <1>0, <1>3, <1>4, <1>5 DEF Answer

\* The server registers only under a key that is kept.
LEMMA ServerKeys == ASSUME Single, DialogInv, KeyInv, ServerStep
                    PROVE  KeyInv'
<1> USE DEF KeyInv
<1>0. WireTyped /\ ServerTyped /\ WithdrawAssumption
  BY TypeParts DEF Single, DialogInv
<1>1. UNCHANGED <<memory, session, made, sent, op, waits, acked, released>>
  BY ServerFacts
<1>2. ASSUME NEW user \in Users, Accrue(user) PROVE KeyInv'
  BY <1>1, <1>2 DEF Accrue, KeptInv, WireInv, OpInv, LedgerInv, DoneInv
<1>3. ASSUME NEW n \in Sends, NEW st, wire[n].st = "sent", wire' = [wire EXCEPT ![n].st = st], st # "none"
      PROVE  /\ wire'[n].st = st /\ wire'[n].op = wire[n].op /\ \A m \in Sends \ {n} : wire'[m] = wire[m]
             /\ OpInv' /\ KeptInv'
  <2>1. wire'[n].st = st /\ wire'[n].op = wire[n].op /\ \A m \in Sends \ {n} : wire'[m] = wire[m]
    BY <1>0, <1>3 DEF WireTyped, Messages
  <2>2. \A m \in Sends : wire'[m].op = wire[m].op /\ (wire'[m].st # "none" <=> wire[m].st # "none")
    BY <1>3, <2>1
  <2>3. \A i \in Insts : waits[i] # 0 => waits[i] \in Sends
    BY DEF DialogInv, TypeOK, Sends
  <2>4. OpInv'
    BY <1>1, <2>2, <2>3 DEF OpInv
  <2> QED
    BY <1>1, <2>1, <2>4 DEF KeptInv
<1>4. ASSUME NEW n \in Sends, NEW st \in {"replay", "refused", "error"}, Reply(n, st) PROVE KeyInv'
  <2>1. /\ UNCHANGED <<ledger, deducted>> /\ wire[n].st = "sent" /\ wire'[n].st = st /\ wire'[n].op = wire[n].op
        /\ (\A m \in Sends \ {n} : wire'[m] = wire[m]) /\ OpInv' /\ KeptInv'
        /\ st = "replay" => ledger[wire[n].op.key] = wire[n].op.slot
    BY <1>3, <1>4 DEF Reply
  <2>2. WireInv'
    BY <1>1, <2>1 DEF WireInv
  <2>3. LedgerInv' /\ DoneInv'
    BY <1>1, <2>1 DEF LedgerInv, DoneInv
  <2> QED
    BY <2>1, <2>2, <2>3
<1>5. ASSUME NEW n \in Sends, Deduct(n) PROVE KeyInv'
  <2> DEFINE slot == wire[n].op.slot
             key == wire[n].op.key
  <2>1. /\ wire[n].st = "sent" /\ wire'[n].st = "ok" /\ wire'[n].op = wire[n].op
        /\ (\A m \in Sends \ {n} : wire'[m] = wire[m]) /\ OpInv' /\ KeptInv' /\ ledger[key] = NoSlot
    BY <1>3, <1>5 DEF Deduct
  <2>2. slot \in Slots /\ key \in Keys /\ slot # NoSlot
    BY <1>0, <2>1, EmptyTypes DEF DialogInv, Sound
  <2>3. /\ ledger'[key] = slot /\ deducted'[key] = deducted[key] + 1
        /\ \A k \in Keys \ {key} : ledger'[k] = ledger[k] /\ deducted'[k] = deducted[k]
    BY <1>0, <1>5, <2>2 DEF Deduct, ServerTyped
  <2>4. key \notin acked /\ session[slot] = key /\ key \notin released /\ deducted[key] = 0
    BY <2>1, <2>2 DEF DoneInv, WireInv, LedgerInv
  <2> HIDE DEF slot, key
  <2>5. \A m \in Sends : wire[m].op.key = key => wire[m].st \notin {"ok", "replay"}
    BY <1>0, <2>1, EmptyTypes DEF WireInv, DialogInv, Sound
  <2>6. WireInv'
    <3> SUFFICES ASSUME NEW m \in Sends, wire'[m].st # "none"
                 PROVE  /\ m <= sent' /\ wire'[m].op.key <= made'
                        /\ \A s \in Slots : session'[s] = wire'[m].op.key => s = wire'[m].op.slot
                        /\ wire'[m].st = "sent" => session'[wire'[m].op.slot] = wire'[m].op.key \/ wire'[m].op.key \in acked'
                        /\ wire'[m].st \in {"ok", "replay"} => ledger'[wire'[m].op.key] = wire'[m].op.slot
      BY DEF WireInv
    <3>1. CASE m = n
      BY <1>1, <2>1, <2>3, <3>1 DEF WireInv, slot, key
    <3>2. CASE m # n
      <4>1. wire'[m] = wire[m] /\ wire[m].op.key \in Keys
        BY <2>1, <3>2 DEF DialogInv, Sound
      <4> QED
        BY <1>1, <2>3, <2>5, <4>1 DEF WireInv
    <3> QED
      BY <3>1, <3>2
  <2>7. LedgerInv'
    <3> SUFFICES ASSUME NEW k \in Keys
                 PROVE  /\ deducted'[k] = IF ledger'[k] = NoSlot THEN 0 ELSE 1
                        /\ ledger'[k] # NoSlot => /\ k \in acked' \/ session'[ledger'[k]] = k
                                                  /\ \E m \in Sends : wire'[m].st = "ok" /\ wire'[m].op.key = k
      BY DEF LedgerInv
    <3>1. CASE k = key
      BY <1>1, <2>1, <2>2, <2>3, <2>4, <3>1 DEF key
    <3>2. CASE k # key
      BY <1>1, <2>1, <2>3, <3>2 DEF LedgerInv, key
    <3> QED
      BY <3>1, <3>2
  <2>8. DoneInv'
    BY <1>1, <2>2, <2>3, <2>4 DEF DoneInv, DialogInv, TypeOK
  <2> QED
    BY <2>1, <2>6, <2>7, <2>8
<1> QED
  BY <1>2, <1>4, <1>5, ServerFacts

\* The form never touches a key; a page that is loaded again finds them in sessionStorage.
LEMMA FormKeys == ASSUME Single, DialogInv, KeyInv, FormStep
                  PROVE  KeyInv'
<1>0. OpTyped /\ inst = 1 /\ 1 \in Insts /\ Insts = {1} /\ ~LeaveAndReturn
  BY SingleFacts, TypeParts DEF DialogInv, LeaveAndReturn, Single
<1>1. /\ UNCHANGED <<ledger, deducted, session, made, sent, wire, acked, released>>
      /\ memory' = memory \/ memory' = [s \in Slots |-> NoKey]
      /\ UNCHANGED <<op, waits>> \/ (op'[1] = NoOp /\ waits'[1] = 0)
  <2>1. CASE Open
    <3>1. waits[1] = 0 /\ op' = [op EXCEPT ![1] = NoOp] /\ waits' = waits
      BY <1>0, <2>1 DEF Open, DialogInv, Waiting
    <3> QED
      BY <1>0, <2>1, <3>1 DEF Open, server, store, history, OpTyped
  <2>2. CASE Reload
    BY <1>0, <2>2 DEF Reload, server, history
  <2> QED
    BY <1>0, <2>1, <2>2 DEF FormStep, Close, ClearUser, SelectUser, EnterAmount, OverviewArrives, OverviewFails,
                            server, store, history
<1>2. OpInv'
  BY <1>0, <1>1 DEF KeyInv, OpInv
<1>3. KeptInv'
  BY <1>1 DEF KeyInv, KeptInv
<1> QED
  BY <1>1, <1>2, <1>3 DEF KeyInv, WireInv, LedgerInv, DoneInv

\* One mounting of the dialog in a browser whose sessionStorage works: however often a
\* registration of unknown outcome is submitted again, with another user in between, after a
\* reload or while the first request is still under way, no key is deducted twice, at most one
\* deduction for a user and an amount is unknown to the administrator, and a key that was given
\* up as refused is never registered later (affiliateWithdrawOperation.ts, WithdrawQuota).
THEOREM WithdrawnOnceHolds ==
    ASSUME WithdrawAssumption, MaxInsts = 1, Storage
    PROVE  Spec => [](OneUnknown /\ RefusedStaysOut)
<1>0. Single
  BY DEF Single
<1>1. Init => KeyInv
  <2> SUFFICES ASSUME Init PROVE KeyInv
    OBVIOUS
  <2>1. KeptInv /\ WireInv /\ LedgerInv /\ DoneInv
    BY DEF Init, KeptInv, WireInv, LedgerInv, DoneInv, Unsent, NoKey
  <2>2. OpInv
    BY DEF Init, OpInv
  <2> QED
    BY <2>1, <2>2 DEF KeyInv
<1>2. DialogInv /\ KeyInv /\ [Next]_vars => KeyInv'
  <2> SUFFICES ASSUME DialogInv, KeyInv, [Next]_vars PROVE KeyInv'
    OBVIOUS
  <2>1. CASE UNCHANGED vars
    BY <2>1 DEF vars, KeyInv, KeptInv, WireInv, OpInv, LedgerInv, DoneInv
  <2> QED
    BY <1>0, <2>1, Steps, FormKeys, SubmitKeys, ServerKeys, AnswerKeys
<1>3. DialogInv /\ KeyInv => OneUnknown /\ RefusedStaysOut
  <2> SUFFICES ASSUME DialogInv, KeyInv PROVE OneUnknown /\ RefusedStaysOut
    OBVIOUS
  <2>1. \A k \in Keys : deducted[k] <= 1
    BY DEF KeyInv, LedgerInv
  <2>2. ASSUME NEW slot \in Slots PROVE Cardinality({k \in Keys : ledger[k] = slot /\ k \notin acked}) <= 1
    <3>1. {k \in Keys : ledger[k] = slot /\ k \notin acked} \subseteq {session[slot]}
      BY EmptyTypes DEF KeyInv, LedgerInv
    <3>2. IsFiniteSet({session[slot]}) /\ Cardinality({session[slot]}) = 1
      BY FS_Singleton
    <3> QED
      BY <3>1, <3>2, FS_Subset
  <2>3. RefusedStaysOut
    BY DEF RefusedStaysOut, KeyInv, DoneInv
  <2> QED
    BY <2>1, <2>2, <2>3 DEF OneUnknown
<1> QED
  BY <1>1, <1>2, <1>3, DialogHolds, PTL DEF Spec
=============================================================================
