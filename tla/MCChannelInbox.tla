---------------------------- MODULE MCChannelInbox ----------------------------
(* A finite instance of ChannelInbox for TLC. *)
EXTENDS ChannelInbox

CONSTANTS r1, r2, r3
================================================================================
