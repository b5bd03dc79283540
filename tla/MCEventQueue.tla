---------------------------- MODULE MCEventQueue ----------------------------
(* Two deliveries, about the one issue or the one pull request of the bot. *)
(* The second is about the pull request: it is routed before or after the  *)
(* record of its issue is made, by the first or by itself.                 *)
EXTENDS EventQueue

MCInit == Init /\ subject[2] \in Pulls
MCSpec == MCInit /\ [][Next]_vars /\ Fairness
=============================================================================
