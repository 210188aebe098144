------------------------ MODULE MCSubmissionPipeline ------------------------
(* Small instances of SubmissionPipeline. *)
EXTENDS SubmissionPipeline, TLC

\* Places in the queue, catalogue items and submissions of one kind are alike.
PipelineSymmetry == Permutations(Jobs) \union Permutations(Items)
=============================================================================
