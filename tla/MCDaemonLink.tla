------------------------------ MODULE MCDaemonLink ------------------------------
(* A finite instance of DaemonLink for TLC. *)
EXTENDS DaemonLink

CONSTANT p1
================================================================================
