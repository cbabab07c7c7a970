--------------------------- MODULE MCVerdictHandler ---------------------------
(* VerdictHandler for TLC. *)
EXTENDS VerdictHandler, TLC

CONSTANTS good, stopper, broken

MCAnswers == (good :> <<"wrong">>) @@ (stopper :> <<"accepted", "wrong", "accepted">>) @@ (broken :> <<>>)
===============================================================================
