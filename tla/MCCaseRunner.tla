---------------------------- MODULE MCCaseRunner ----------------------------
(* Instances of CaseRunner for TLC. *)
EXTENDS CaseRunner

MCExpected == <<"x", "x">>
=============================================================================
