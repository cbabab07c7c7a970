----------------------------- MODULE MCAgentPool -----------------------------
(* Instances of AgentPool for TLC. *)
EXTENDS AgentPool, TLC

PoolSymmetry == Permutations(Tasks) \cup Permutations(Agents)
=============================================================================
