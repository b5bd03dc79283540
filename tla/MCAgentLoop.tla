---------------------------- MODULE MCAgentLoop ----------------------------
(* Instances of AgentLoop for TLC: message numbers for each queue.         *)
EXTENDS AgentLoop

TwoSteers == {1, 2}
OneSteer  == {1}
OneFollow == {3}
OneAside  == {5}
TwoAsides == {5, 6}
NoMessage == {}
=============================================================================
