---------------------------- MODULE MCToolBatch ----------------------------
(* Small batches for TLC. *)
EXTENDS ToolBatch

(* Exclusive calls before, between, after and around shared ones; the      *)
(* middle call is a wait.                                                  *)
MCSchedules ==
    {b \in [Calls -> [exclusive : BOOLEAN, interruptible : BOOLEAN, prepared : {"ok"}]] :
        /\ \A c \in Calls : b[c].interruptible <=> c = 2
        /\ \E c \in Calls : b[c].exclusive
        /\ \A c \in 1..(N-1) : ~(b[c].exclusive /\ b[c+1].exclusive)}

(* A wait beside a foreground tool, with every outcome of the prepare      *)
(* phase for the wait.                                                     *)
MCWaitAndWork ==
    {b \in [Calls -> [exclusive : {FALSE}, interruptible : BOOLEAN,
                      prepared : {"ok", "invalid", "refused"}]] :
        \A c \in Calls : (b[c].interruptible <=> c = 1) /\ (b[c].prepared # "ok" => c = 1)}
=============================================================================
