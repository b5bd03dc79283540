--------------------------- MODULE MCRefreshLease ---------------------------
(* Two requests in one process and one in another. *)
EXTENDS RefreshLease

MCProcOf == [c \in Calls |-> IF c = "c" THEN "q" ELSE "p"]
=============================================================================
