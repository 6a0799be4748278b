-------------------------- MODULE MCBatchImageQueue --------------------------
(* Model-checking instance of BatchImageQueue.  Jobs and workers are           *)
(* interchangeable: no definition of the model tells two of them apart.        *)
EXTENDS BatchImageQueue, TLC

MCSymmetry == Permutations(Workers) \cup Permutations(Jobs)
=============================================================================
