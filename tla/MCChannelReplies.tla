--------------------------- MODULE MCChannelReplies ---------------------------
(* Finite instances of ChannelReplies for TLC. *)
EXTENDS ChannelReplies

CONSTANTS s1, s2, r1, x1, b1
===============================================================================
