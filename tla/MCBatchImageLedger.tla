-------------------------- MODULE MCBatchImageLedger --------------------------
(* Model-checking instance of BatchImageLedger: two jobs with holds of          *)
(* different size, so that one job's claim cannot stand in for the other's.     *)
EXTENDS BatchImageLedger, FiniteSetsExt

CONSTANTS j1, j2

MCHold == [j \in Jobs |-> IF j = j1 THEN 1 ELSE 2]

\* Sum of the holds of the jobs for which request k moved money.
Total(k) == MapThenSumSet(LAMBDA j : Hold[j], {j \in Jobs : Moved(k, j)})

\* Every request id moves its hold at most once, however often it is retried:
\* the frozen balance is what the moved requests add up to, and never negative.
FrozenAccounted == frozen = OtherFrozen + Total("hold") - Total("capture") - Total("release")
=============================================================================
