----------------------------- MODULE MCApprovals -----------------------------
(* Finite instances of Approvals for TLC. *)
EXTENDS ApprovalsInv

CONSTANTS w1, h1
==============================================================================
