---------------------------- MODULE MCPooledTurns ----------------------------
(* Instances of PooledTurns for TLC. *)
EXTENDS PooledTurns

=============================================================================
