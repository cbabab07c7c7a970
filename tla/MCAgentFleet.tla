---------------------------- MODULE MCAgentFleet ----------------------------
(* Instances of AgentFleet for TLC. *)
EXTENDS AgentFleet, TLC

FleetSymmetry == Permutations(Agents)
=============================================================================
