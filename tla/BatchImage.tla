----------------------------- MODULE BatchImage -----------------------------
(***************************************************************************)
(* What every batch image module shares: the jobs, the job statuses and the *)
(* transition table of service/batch_image.go.                              *)
(***************************************************************************)
EXTENDS Integers, FiniteSets

CONSTANT Jobs   \* batch ids

ASSUME JobsAssumption == IsFiniteSet(Jobs)

\* "none": the row does not exist yet.
Statuses == {"none", "created", "uploading", "submitted", "running", "indexing",
             "settling", "completed", "failed", "cancelled", "output_deleted"}

IsTerminal(s) == s \in {"completed", "failed", "cancelled", "output_deleted"}

\* The rows of the transition table for non-terminal statuses.
Allowed(from) ==
    CASE from = "created"   -> {"uploading", "submitted", "cancelled"}
      [] from = "uploading" -> {"submitted", "cancelled"}
      [] from = "submitted" -> {"running", "indexing", "failed", "cancelled"}
      [] from = "running"   -> {"running", "indexing", "failed", "cancelled"}
      [] from = "indexing"  -> {"settling", "failed"}
      [] from = "settling"  -> {"completed"}
      [] OTHER              -> {}

\* CanTransitionBatchImageJob
CanTransition(from, to) ==
    IF IsTerminal(from)
    THEN to = "output_deleted" /\ from # "output_deleted"
    ELSE from # "none" /\ (to = "failed" \/ to \in Allowed(from))
=============================================================================
