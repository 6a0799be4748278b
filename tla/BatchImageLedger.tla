-------------------------- MODULE BatchImageLedger --------------------------
(***************************************************************************)
(* The money of one user: users.balance, users.frozen_balance and the       *)
(* usage_billing_dedup claims (repository/usage_billing_repo.go).  Every     *)
(* call is one PostgreSQL transaction that claims its request id and applies *)
(* its effect, or does neither.                                             *)
(*                                                                         *)
(* Amounts are whole multiples of a smallest unit; the 1e-8 comparison slack *)
(* of the code is below that unit.                                          *)
(***************************************************************************)
EXTENDS BatchImage

CONSTANTS Hold,            \* hold amount of each job
          InitialBalance,  \* the user's balance at the start
          OtherFrozen,     \* frozen by jobs outside the model
          MaxCost,         \* bound: one usage charge
          MaxSpend         \* bound: total usage charges

ASSUME LedgerAssumption ==
    /\ Hold \in [Jobs -> Nat]
    /\ InitialBalance \in Nat
    /\ OtherFrozen \in Nat
    /\ MaxCost \in Nat
    /\ MaxSpend \in Nat

VARIABLES balance,   \* users.balance (usage charges may overdraw it)
          frozen,    \* users.frozen_balance
          claim,     \* fingerprint stored for each request id, or NoClaim
          moved,     \* history: request ids whose transaction moved money
          charged    \* history: total amount taken from the user

lvars == <<balance, frozen, claim, moved, charged>>

NoClaim == -1
Kinds == {"hold", "capture", "release"}

\* Request ids batch_image_hold:, batch_image_capture: and batch_image_release:.
RequestIDs == Kinds \X Jobs

\* RequestFingerprint: hold and release always carry the same amounts and the
\* job's request hash; a capture carries its amount and manifest.
RequestFp == 0
CaptureFp(a) == a

LTypeOK ==
    /\ balance \in Int
    /\ frozen \in Nat
    /\ claim \in [RequestIDs -> Int]
    /\ moved \subseteq RequestIDs
    /\ charged \in Nat

LInit ==
    /\ balance = InitialBalance
    /\ frozen = OtherFrozen
    /\ claim = [r \in RequestIDs |-> NoClaim]
    /\ moved = {}
    /\ charged = 0

-----------------------------------------------------------------------------
(* claimUsageBillingRequest                                                 *)

Claimed(k, j) == claim[<<k, j>>] # NoClaim

\* Mutant of ClaimResult: duplicates are not recognised as such.
ClaimAlwaysNew(k, j, fp) == "new"

ClaimResult(k, j, fp) ==
    IF ~ Claimed(k, j) THEN "new"
    ELSE IF claim[<<k, j>>] = fp THEN "duplicate" ELSE "conflict"

SetClaim(k, j, fp) == claim' = [claim EXCEPT ![<<k, j>>] = fp]

-----------------------------------------------------------------------------
(* The three hold transactions: what a call returns, and what it commits.   *)

\* reserveBatchImageBalanceHold skips a zero hold before calling the repository.
ReserveResult(j) ==
    LET c == ClaimResult("hold", j, RequestFp)
    IN  IF Hold[j] = 0 THEN "skipped"
        ELSE IF c # "new" THEN c
        ELSE IF balance < Hold[j] THEN "insufficient"
        ELSE "ok"

ReserveTx(j) ==
    IF ReserveResult(j) = "ok"
    THEN /\ balance' = balance - Hold[j]
         /\ frozen' = frozen + Hold[j]
         /\ SetClaim("hold", j, RequestFp)
         /\ moved' = moved \cup {<<"hold", j>>}
         /\ UNCHANGED charged
    ELSE UNCHANGED lvars

CaptureResult(j, a) ==
    LET c == ClaimResult("capture", j, CaptureFp(a))
    IN  IF c # "new" THEN c
        ELSE IF a > Hold[j] THEN "exceeds"
        ELSE IF frozen < Hold[j] THEN "insufficient"
        ELSE "ok"

\* Mutant of CaptureTx: the unused part of the hold is not given back.
CaptureKeepsRest(j, a) ==
    IF CaptureResult(j, a) = "ok"
    THEN /\ frozen' = frozen - Hold[j]
         /\ SetClaim("capture", j, CaptureFp(a))
         /\ moved' = moved \cup {<<"capture", j>>}
         /\ charged' = charged + a
         /\ UNCHANGED balance
    ELSE UNCHANGED lvars

\* The unused part of the hold goes back to the balance.
CaptureTx(j, a) ==
    IF CaptureResult(j, a) = "ok"
    THEN /\ balance' = balance + (Hold[j] - a)
         /\ frozen' = frozen - Hold[j]
         /\ SetClaim("capture", j, CaptureFp(a))
         /\ moved' = moved \cup {<<"capture", j>>}
         /\ charged' = charged + a
    ELSE UNCHANGED lvars

\* Mutant of ReleaseResult: no look-up of the hold claim.
ReleaseWithoutHold(j) ==
    LET c == ClaimResult("release", j, RequestFp)
    IN  IF Hold[j] = 0 THEN "skipped"
        ELSE IF c # "new" THEN c
        ELSE IF frozen < Hold[j] THEN "insufficient"
        ELSE "ok"

\* A release for which no hold was ever claimed returns success without moving
\* money ("phantom"); its own request id stays claimed.
ReleaseResult(j) ==
    LET c == ClaimResult("release", j, RequestFp)
    IN  IF Hold[j] = 0 THEN "skipped"
        ELSE IF c # "new" THEN c
        ELSE IF ~ Claimed("hold", j) THEN "phantom"
        ELSE IF frozen < Hold[j] THEN "insufficient"
        ELSE "ok"

ReleaseTx(j) ==
    \/ /\ ReleaseResult(j) = "ok"
       /\ balance' = balance + Hold[j]
       /\ frozen' = frozen - Hold[j]
       /\ SetClaim("release", j, RequestFp)
       /\ moved' = moved \cup {<<"release", j>>}
       /\ UNCHANGED charged
    \/ /\ ReleaseResult(j) = "phantom"
       /\ SetClaim("release", j, RequestFp)
       /\ UNCHANGED <<balance, frozen, moved, charged>>
    \/ ReleaseResult(j) \notin {"ok", "phantom"} /\ UNCHANGED lvars

\* releaseBatchImageBalanceHold reports success, a fingerprint conflict included.
Released(j) == ReleaseResult(j) # "insufficient"

\* Apply with a balance cost (deductUsageBillingBalance): overdraws if it must.
Deduct(c) ==
    /\ balance' = balance - c
    /\ charged' = charged + c
    /\ UNCHANGED <<frozen, claim, moved>>

-----------------------------------------------------------------------------
(* The ledger on its own: callers in any order, as often as they like.      *)

LNext ==
    \/ \E j \in Jobs : \/ ReserveTx(j)
                       \/ \E a \in 0..MaxCost : CaptureTx(j, a)
                       \/ ReleaseTx(j)
    \/ \E c \in 1..MaxCost : charged + c <= MaxSpend /\ Deduct(c)

LSpec == LInit /\ [][LNext]_lvars

-----------------------------------------------------------------------------
(* Properties.                                                              *)

\* Whatever the order and repetition of the calls, no transaction creates or
\* destroys money: what left the user's two balances is what was charged.
MoneyConserved == balance + frozen + charged = InitialBalance + OtherFrozen

\* Did request (k, j) move money?
Moved(k, j) == <<k, j>> \in moved

\* A release only ever returns money a committed hold froze: for no job does a
\* release move money without a hold (batchImageHoldClaimExists).
NoPhantomRelease == \A j \in Jobs : Moved("release", j) => Moved("hold", j)
=============================================================================
