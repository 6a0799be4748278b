--------------------------- MODULE BatchImageHold ---------------------------
(***************************************************************************)
(* What the batch image billing promises a user, without queues, workers,   *)
(* retries or request ids: the funds of a job are frozen at most once, and   *)
(* then either charged or given back, never both; and the charge is exactly   *)
(* what the delivered images are worth, never more than was frozen.          *)
(***************************************************************************)
EXTENDS Integers

CONSTANTS Jobs,     \* as in BatchImage
          Hold,     \* the amount each job needs
          Initial   \* what the user starts with

VARIABLES fund,     \* what happened to the funds of each job
          worth,    \* what the images delivered for each job are worth
          money     \* the user's spendable balance

vars == <<fund, worth, money>>

HInit ==
    /\ fund = [j \in Jobs |-> "free"]
    /\ worth = [j \in Jobs |-> 0]
    /\ money = Initial

Freeze(j) ==
    /\ fund[j] = "free"
    /\ money >= Hold[j]
    /\ fund' = [fund EXCEPT ![j] = "frozen"]
    /\ money' = money - Hold[j]
    /\ UNCHANGED worth

\* Images arrive before the job is charged. The amount is the provider's
\* choice: the equation only says that no other job's worth changes.
Deliver(j) ==
    /\ fund[j] # "charged"
    /\ worth' = [worth EXCEPT ![j] = worth'[j]]
    /\ UNCHANGED <<fund, money>>

Charge(j) ==
    /\ fund[j] = "frozen"
    /\ worth[j] <= Hold[j]
    /\ fund' = [fund EXCEPT ![j] = "charged"]
    /\ money' = money + (Hold[j] - worth[j])
    /\ UNCHANGED worth

GiveBack(j) ==
    /\ fund[j] = "frozen"
    /\ fund' = [fund EXCEPT ![j] = "returned"]
    /\ money' = money + Hold[j]
    /\ UNCHANGED worth

HNext == \E j \in Jobs : Freeze(j) \/ Deliver(j) \/ Charge(j) \/ GiveBack(j)

HSpec == HInit /\ [][HNext]_vars
=============================================================================
