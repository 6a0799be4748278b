------------------------ MODULE MCBatchImagePipeline ------------------------
(* Model-checking instance of BatchImagePipeline.                              *)
EXTENDS BatchImagePipeline, TLC

MCHold == [j \in Jobs |-> 2]

\* Cheaper than the hold, dearer than the hold, unusable.
MCOutputs == {1, 3, BadOutput}

MCSymmetry == Permutations(Workers)
=============================================================================
