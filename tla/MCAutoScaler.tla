---------------------------- MODULE MCAutoScaler ----------------------------
(* The instance of AutoScaler that TLC checks; agents are model values. *)
EXTENDS AutoScaler, TLC
=============================================================================
