------------------------------ MODULE MessageLine ------------------------------
(***************************************************************************)
(* What the message queue of a session promises, whatever runtime stands   *)
(* behind the session's name: one line of waiting messages, in priority    *)
(* bands and first come first served within a band unless the user orders  *)
(* them otherwise, whose head is handed to the provider once.              *)
(***************************************************************************)
EXTENDS Integers, SequencesExt

CONSTANTS
  Msg,       \* messages
  Priority,  \* [Msg -> {"normal", "low"}]
  Limit      \* messages that may wait

VARIABLES
  waiting,  \* the line, next message first
  handed    \* messages the provider was given

lineVars == <<waiting, handed>>

Rank(m) == IF Priority[m] = "normal" THEN 1 ELSE 2

LineInit == waiting = <<>> /\ handed = {}

\* A message joins the line behind everything that is not less urgent.
Join(m) ==
  /\ m \notin ToSet(waiting) \cup handed
  /\ Len(waiting) < Limit
  /\ \E i \in 1..(Len(waiting) + 1) :
       /\ \A j \in 1..(i - 1) : Rank(waiting[j]) <= Rank(m)
       /\ \A j \in i..Len(waiting) : Rank(waiting[j]) > Rank(m)
       /\ waiting' = InsertAt(waiting, i, m)
  /\ UNCHANGED handed

\* The head is handed over, once, and leaves the line in the same step.
HandHead ==
  /\ waiting # <<>>
  /\ Head(waiting) \notin handed
  /\ handed' = handed \cup {Head(waiting)}
  /\ waiting' = Tail(waiting)

\* A direct send passes the line.
HandDirect(m) ==
  /\ m \notin ToSet(waiting) \cup handed
  /\ handed' = handed \cup {m}
  /\ UNCHANGED waiting

Withdraw(m) ==
  /\ \E i \in DOMAIN waiting : waiting[i] = m /\ waiting' = RemoveAt(waiting, i)
  /\ UNCHANGED handed

WithdrawAll == waiting' = <<>> /\ UNCHANGED handed

\* The user reorders the line; no message leaves its band.
Rearrange ==
  /\ Len(waiting') = Len(waiting)
  /\ ToSet(waiting') = ToSet(waiting)
  /\ \A i \in DOMAIN waiting : Rank(waiting'[i]) = Rank(waiting[i])
  /\ UNCHANGED handed

LineNext ==
  \/ \E m \in Msg : Join(m) \/ HandDirect(m) \/ Withdraw(m)
  \/ HandHead \/ WithdrawAll \/ Rearrange

LineSpec == LineInit /\ [][LineNext]_lineVars
================================================================================
