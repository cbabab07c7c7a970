------------------------- MODULE MCSubmissionPipeline -------------------------
(* The instance of SubmissionPipeline that TLC checks; submissions and      *)
(* verdicts are model values.                                               *)
EXTENDS SubmissionPipeline, TLC
=============================================================================
