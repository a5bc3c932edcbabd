------------------------------- MODULE MCFileLock -------------------------------
(* A finite instance of FileLock for TLC: three processes of a host, the third *)
(* with the pid of the first, and one of another host with the same pid.       *)
EXTENDS FileLock

CONSTANTS a, b, c, d

MCHostOf == [p \in Proc |-> IF p = d THEN 2 ELSE 1]
MCPidOf  == [p \in Proc |-> IF p = b THEN 2 ELSE 1]
================================================================================
