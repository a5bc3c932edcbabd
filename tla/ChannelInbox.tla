----------------------------- MODULE ChannelInbox -----------------------------
(***************************************************************************)
(* POST /channel-message for one message of an external channel that names *)
(* its source id.  The channel sends the message again when it is not sure *)
(* of the answer, so several requests may carry it at once.  Three layers  *)
(* keep it from reaching the session twice: the map of deliveries in       *)
(* flight, the ledger on disk, and the ids the session and the tail of its *)
(* transcript still show.  Each layer forgets: the first with the process, *)
(* the second when its entry expires, the third when the tail moves on.    *)
(*                                                                         *)
(* The ledger has one file per message, so one message is modelled; what   *)
(* requests of others do to it is to start the prune, which reads and      *)
(* removes every file.  An await on the disk or on the delivery is the end *)
(* of a step.                                                              *)
(*                                                                         *)
(* A message that asks for deep thinking does not go to the session when   *)
(* it is delivered: an operation in memory takes it, lets workers think    *)
(* about it, and hands it over later, or never.                            *)
(***************************************************************************)
EXTENDS Naturals

CONSTANTS
  Req,         \* the requests that carry the message
  None,
  MaxCrashes   \* bound: restarts of the server

ASSUME InboxAssumption ==
  None \notin Req \cup {"delivered", "duplicate"} /\ MaxCrashes \in Nat

VARIABLES
  pc, answer,  \* of each request
  on,          \* the delivery a request waits for
  inFlight,    \* inFlightChannelMessageDeliveries: the request that delivers
  entry,       \* the file of the ledger
  pruner, due, \* pruneExpiredEntries, and whether PRUNE_INTERVAL_MS has passed
  live, tail,  \* the id is in the session's memory, in the transcript's tail
  deep,        \* the message asks for deep thinking
  operation,   \* deepThinkingOperations: "running", or the last one "dropped" it
  sent,        \* history: times the message was handed to the session
  overtaken,   \* history: by an operation, after the last delivery had checked
  crashes

inbox == <<pc, answer, on, inFlight>>
hand  == <<operation, sent, overtaken>>
vars  == <<inbox, entry, pruner, due, live, tail, deep, hand, crashes>>

\* A lookup is made before the reservation and again by a request that waited
\* for the reservation of another.
Rounds == {"first", "second"}
At(step, round) == <<step, round>>

Over   == {At("idle", "first"), At("ended", "first")}
Active(r) == pc[r] \notin Over

Init ==
  /\ pc = [r \in Req |-> At("idle", "first")]
  /\ answer = [r \in Req |-> None]
  /\ on = [r \in Req |-> None]
  /\ inFlight = None
  /\ entry = "none"
  /\ pruner = "none" /\ due = TRUE
  /\ live = FALSE /\ tail = FALSE
  /\ deep \in BOOLEAN /\ operation = "none" /\ overtaken = FALSE
  /\ sent = 0
  /\ crashes = 0

Goto(r, where) == pc' = [pc EXCEPT ![r] = where]
Answer(r, a) ==
  /\ pc' = [pc EXCEPT ![r] = At("ended", "first")]
  /\ answer' = [answer EXCEPT ![r] = a]

--------------------------------------------------------------------------------
(***************************************************************************)
(* Is it a duplicate?                                                      *)
(***************************************************************************)

\* waitForInFlightChannelMessageDelivery, then the ledger.
Look(r, round) ==
  IF inFlight = None
    THEN Goto(r, At("ask", round)) /\ UNCHANGED on
    ELSE Goto(r, At("wait", round)) /\ on' = [on EXCEPT ![r] = inFlight]

Arrive(r) ==
  /\ pc[r] = At("idle", "first")
  /\ Look(r, "first")
  /\ UNCHANGED <<answer, inFlight, entry, pruner, due, live, tail, deep, hand, crashes>>

\* pruneIfDue: start the prune or join the one that runs, and resume at its end.
AwaitPrune(r, here, pruning, next) ==
  /\ pc[r] = here
  /\ \/ /\ due
        /\ pruner' = IF pruner = "none" THEN "reading" ELSE pruner
        /\ Goto(r, pruning)
     \/ /\ ~due
        /\ Goto(r, next)
        /\ UNCHANGED pruner
  /\ UNCHANGED <<answer, on, inFlight, entry, due, live, tail, deep, hand, crashes>>

PruneEnds ==
  /\ pruner' = "none" /\ due' = FALSE
  /\ pc' = [r \in Req |-> CASE pc[r][1] = "pruneAsk" -> At("read", pc[r][2])
                            [] pc[r][1] = "pruneClaim" -> At("create", pc[r][2])
                            [] OTHER -> pc[r]]

Ask(r) ==
  \E round \in Rounds :
    AwaitPrune(r, At("ask", round), At("pruneAsk", round), At("read", round))

\* reserveInFlightChannelMessageDelivery, or wait for whoever has the reservation.
Reserve(r) ==
  IF inFlight = None
    THEN /\ inFlight' = r
         /\ Goto(r, At("check", "first"))
         /\ UNCHANGED on
    ELSE /\ Goto(r, At("wait", "second"))
         /\ on' = [on EXCEPT ![r] = inFlight]
         /\ UNCHANGED inFlight

\* The ledger knows nothing: reserve, or after a wait ask for a retry (409).
NotSeen(r, round) ==
  \/ /\ round = "first"
     /\ Reserve(r)
     /\ UNCHANGED answer
  \/ /\ round = "second"
     /\ Answer(r, "retry")
     /\ UNCHANGED <<on, inFlight>>

\* ChannelMessageIdempotencyLedger.get
ReadEntry(r) ==
  \E round \in Rounds :
    /\ pc[r] = At("read", round)
    /\ \/ /\ entry = "fresh"
          /\ Answer(r, "duplicate")
          /\ UNCHANGED <<on, inFlight>>
       \/ /\ entry = "expired"
          /\ Goto(r, At("remove", round))
          /\ UNCHANGED <<answer, on, inFlight>>
       \/ /\ entry \in {"none", "unreadable"}
          /\ NotSeen(r, round)
    /\ UNCHANGED <<entry, pruner, due, live, tail, deep, hand, crashes>>

\* It removes what it read as expired, whatever the file is by then.
RemoveExpired(r) ==
  \E round \in Rounds :
    /\ pc[r] = At("remove", round)
    /\ entry' = "none"
    /\ NotSeen(r, round)
    /\ UNCHANGED <<pruner, due, live, tail, deep, hand, crashes>>

--------------------------------------------------------------------------------
(***************************************************************************)
(* Delivery and claim                                                      *)
(***************************************************************************)

Waiting(r) == {w \in Req : on[w] = r}

\* Deviation from Released: a failed delivery keeps its reservation.
ReleasedOnSuccess(r, delivered, a) ==
  IF delivered
    THEN /\ inFlight' = None
         /\ pc' = [w \in Req |-> IF w \in Waiting(r) \cup {r} THEN At("ended", "first") ELSE pc[w]]
         /\ answer' = [w \in Req |-> IF w \in Waiting(r) THEN "duplicate"
                                     ELSE IF w = r THEN a ELSE answer[w]]
         /\ on' = [w \in Req |-> IF w \in Waiting(r) THEN None ELSE on[w]]
    ELSE Answer(r, a) /\ UNCHANGED <<inFlight, on>>

\* The finally block: the reservation goes, and its waiters learn whether the
\* message was delivered and claimed; if not they turn to the ledger.
Released(r, delivered, a) ==
  /\ inFlight' = None
  /\ pc' = [w \in Req |->
       CASE w = r \/ (w \in Waiting(r) /\ delivered) -> At("ended", "first")
         [] w \in Waiting(r) /\ ~delivered -> At("ask", pc[w][2])
         [] OTHER -> pc[w]]
  /\ answer' = [w \in Req |->
       CASE w = r -> a
         [] w \in Waiting(r) /\ delivered -> "duplicate"
         [] OTHER -> answer[w]]
  /\ on' = [w \in Req |-> IF w \in Waiting(r) THEN None ELSE on[w]]

\* Deviation from AlreadyHas: only what the running session shows.
OnlyLive == live

\* conversationAlreadyHasClientSendId
AlreadyHas == live \/ tail

\* deliverConversationMessage looks first whether the session has it; before it
\* goes on, it waits for the budget and for the record of the expected reply.
Check(r) ==
  /\ pc[r] = At("check", "first")
  /\ \/ /\ Released(r, FALSE, "failed")
        /\ UNCHANGED overtaken
     \/ /\ AlreadyHas
        /\ Goto(r, At("claim", "first"))
        /\ UNCHANGED <<answer, on, inFlight, overtaken>>
     \/ /\ ~AlreadyHas
        /\ Goto(r, At("deliver", "first"))
        /\ overtaken' = FALSE
        /\ UNCHANGED <<answer, on, inFlight>>
  /\ UNCHANGED <<entry, pruner, due, live, tail, deep, operation, sent, crashes>>

\* The session has it, or an operation has taken it from the one before.
Taken ==
  IF deep
    THEN operation' = "running" /\ UNCHANGED <<live, sent>>
    ELSE live' = TRUE /\ sent' = sent + 1 /\ UNCHANGED operation

\* Deviation from Deliver: a delivery the session refuses is claimed as well.
DeliverUnchecked(r) ==
  /\ pc[r] = At("deliver", "first")
  /\ Taken \/ UNCHANGED <<live, operation, sent>>
  /\ Goto(r, At("claim", "first"))
  /\ UNCHANGED <<answer, on, inFlight, entry, pruner, due, tail, deep, overtaken, crashes>>

\* The message is refused, taken, or taken before a later step throws.
Deliver(r) ==
  /\ pc[r] = At("deliver", "first")
  /\ \/ /\ Taken \/ UNCHANGED <<live, operation, sent>>
        /\ Released(r, FALSE, "failed")
     \/ /\ Taken
        /\ Goto(r, At("claim", "first"))
        /\ UNCHANGED <<answer, on, inFlight>>
  /\ UNCHANGED <<entry, pruner, due, tail, deep, overtaken, crashes>>

\* The workers have answered: the message goes to the session with what they say.
HandOver ==
  /\ operation = "running"
  /\ operation' = "none"
  /\ live' = TRUE /\ sent' = sent + 1
  /\ overtaken' = TRUE
  /\ UNCHANGED <<inbox, entry, pruner, due, tail, deep, crashes>>

\* A worker fails or takes too long, the session has gone, the request was closed,
\* or another message that asks for deep thinking takes the place of this one.
Drop ==
  /\ operation = "running"
  /\ operation' = "dropped"
  /\ UNCHANGED <<inbox, entry, pruner, due, live, tail, deep, sent, overtaken, crashes>>

Claim(r) ==
  AwaitPrune(r, At("claim", "first"), At("pruneClaim", "first"), At("create", "first"))

\* claimNormalized creates the file, which no other process may have done.
Create(r) ==
  /\ pc[r] = At("create", "first")
  /\ \/ /\ entry = "none"
        /\ entry' = "unreadable"
        /\ Goto(r, At("write", "first"))
        /\ UNCHANGED <<answer, on, inFlight>>
     \/ /\ entry # "none"
        /\ Goto(r, At("exists", "first"))
        /\ UNCHANGED <<answer, on, inFlight, entry>>
     \/ /\ Released(r, FALSE, "failed")
        /\ UNCHANGED entry
  /\ UNCHANGED <<pruner, due, live, tail, deep, hand, crashes>>

\* The content reaches the file it created, unless that was removed meanwhile;
\* a failed write leaves the file as it is.
Write(r) ==
  /\ pc[r] = At("write", "first")
  /\ \/ /\ entry' = IF entry = "unreadable" THEN "fresh" ELSE entry
        /\ Released(r, TRUE, "delivered")
     \/ /\ UNCHANGED entry
        /\ Released(r, FALSE, "failed")
  /\ UNCHANGED <<pruner, due, live, tail, deep, hand, crashes>>

\* The file was there, and nobody can read it.  An expired one would be replaced,
\* but a request that has the reservation meets none: TypeOK says so.
Exists(r) ==
  /\ pc[r] = At("exists", "first")
  /\ Released(r, TRUE, "delivered")
  /\ UNCHANGED <<entry, pruner, due, live, tail, deep, hand, crashes>>

--------------------------------------------------------------------------------
(***************************************************************************)
(* The prune, time, the transcript and restarts                            *)
(***************************************************************************)

\* pruneExpiredEntries reads a file and removes it when it was expired.
PruneReads ==
  /\ pruner = "reading"
  /\ \/ entry = "expired" /\ pruner' = "removing" /\ UNCHANGED <<pc, due>>
     \/ entry # "expired" /\ PruneEnds
  /\ UNCHANGED <<answer, on, inFlight, entry, live, tail, deep, hand, crashes>>

PruneRemoves ==
  /\ pruner = "removing"
  /\ entry' = "none"
  /\ PruneEnds
  /\ UNCHANGED <<answer, on, inFlight, live, tail, deep, hand, crashes>>

PruneIsDue ==
  /\ ~due
  /\ due' = TRUE
  /\ UNCHANGED <<pc, answer, on, inFlight, entry, pruner, live, tail, deep, hand, crashes>>

Expires ==
  /\ entry = "fresh"
  /\ entry' = "expired"
  /\ UNCHANGED <<pc, answer, on, inFlight, pruner, due, live, tail, deep, hand, crashes>>

TranscriptWritten ==
  /\ live /\ ~tail
  /\ tail' = TRUE
  /\ UNCHANGED <<pc, answer, on, inFlight, entry, pruner, due, live, deep, hand, crashes>>

\* CLIENT_SEND_ID_DEDUPE_TAIL_TURNS turns later: no request lasts that long.
TailMovesOn ==
  /\ tail /\ pruner = "none" /\ \A r \in Req : ~Active(r)
  /\ live' = FALSE /\ tail' = FALSE
  /\ UNCHANGED <<pc, answer, on, inFlight, entry, pruner, due, deep, hand, crashes>>

\* The server stops anywhere and starts again.
Crash ==
  /\ crashes < MaxCrashes
  /\ crashes' = crashes + 1
  /\ pc' = [r \in Req |-> IF Active(r) THEN At("ended", "first") ELSE pc[r]]
  /\ on' = [r \in Req |-> None]
  /\ inFlight' = None
  /\ pruner' = "none" /\ due' = TRUE
  /\ live' = FALSE
  /\ operation' = IF operation = "running" THEN "dropped" ELSE operation
  /\ UNCHANGED <<answer, entry, tail, deep, sent, overtaken>>

--------------------------------------------------------------------------------
Step(r) ==
  \/ Ask(r) \/ ReadEntry(r) \/ RemoveExpired(r) \/ Check(r) \/ Deliver(r)
  \/ Claim(r) \/ Create(r) \/ Write(r) \/ Exists(r)

Prune == PruneReads \/ PruneRemoves

Next ==
  \/ \E r \in Req : Arrive(r) \/ Step(r)
  \/ HandOver \/ Drop
  \/ Prune \/ PruneIsDue
  \/ Expires \/ TranscriptWritten \/ TailMovesOn \/ Crash

Spec == Init /\ [][Next]_vars

\* The disk answers and a delivery ends.
FairSpec ==
  /\ Spec
  /\ WF_vars(Prune)
  /\ \A r \in Req : WF_vars(Step(r))

--------------------------------------------------------------------------------
(***************************************************************************)
(* Properties                                                              *)
(***************************************************************************)

Steps == {"idle", "ended", "wait", "ask", "pruneAsk", "read", "remove", "check",
          "deliver", "claim", "pruneClaim", "create", "write", "exists"}

\* The types; a request has the reservation exactly while it delivers and claims,
\* and until it is done nobody else leaves an entry that can be read.
TypeOK ==
  /\ pc \in [Req -> Steps \X Rounds]
  /\ answer \in [Req -> {None, "delivered", "duplicate", "retry", "failed"}]
  /\ on \in [Req -> Req \cup {None}] /\ inFlight \in Req \cup {None}
  /\ entry \in {"none", "unreadable", "fresh", "expired"}
  /\ pruner \in {"none", "reading", "removing"} /\ due \in BOOLEAN
  /\ live \in BOOLEAN /\ tail \in BOOLEAN
  /\ deep \in BOOLEAN /\ overtaken \in BOOLEAN
  /\ operation \in {"none", "running", "dropped"} /\ (operation # "none" => deep)
  /\ sent \in Nat /\ crashes \in 0..MaxCrashes
  /\ \A r \in Req : inFlight = r <=>
       pc[r][1] \in {"check", "deliver", "claim", "pruneClaim", "create", "write", "exists"}
  /\ inFlight # None => entry \in {"none", "unreadable"}

\* The channel stops sending a message when it is told "delivered" or
\* "duplicate": then the session has been handed it, whichever request did it
\* and however it ended.  Only one that asks for deep thinking may still be with
\* an operation, or be lost because its operation ended early.
AcceptedIsDelivered ==
  \A r \in Req : answer[r] \in {"delivered", "duplicate"} =>
    sent > 0 \/ (deep /\ operation \in {"running", "dropped"})

\* The message is not handed over again while anything remembers it: the session,
\* the tail of the transcript, or an entry that has not expired, unless this one
\* speaks of an operation that only now hands over; not even by a request that
\* asked the ledger before another request claimed.  The exception is a delivery
\* that an operation overtakes between its look at the session and its end.
NotTwice ==
  [][sent' # sent => /\ (~live /\ ~tail) \/ (deep /\ overtaken)
                     /\ entry = "fresh" => operation = "running"]_vars

\* Every request is answered, those that wait for the delivery of another too,
\* unless the server restarts.
RequestsEnd == \A r \in Req : Active(r) ~> ~Active(r)
================================================================================
