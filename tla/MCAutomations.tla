----------------------------- MODULE MCAutomations -----------------------------
(* A finite instance of Automations for TLC: one client pauses and resumes, one *)
(* changes the trigger and sets and lifts the limit, both delete.  A cancelled  *)
(* automation behaves as a completed one, which the runs make.                  *)
EXTENDS Automations

CONSTANTS q1, q2

MCAsked == [r \in Req |->
  IF r = q1 THEN {Patch("status", s) : s \in {"active", "paused"}}
            ELSE {Patch("trigger", t) : t \in Trigger} \cup {Patch("limit", m) : m \in Limit}]
================================================================================
