---------------------------- MODULE ChannelReplies ----------------------------
(***************************************************************************)
(* The automatic replies of one channel conversation.  A message from a    *)
(* chat is recorded as a pending intent before it is handed to the live    *)
(* session.  When its turn ends, the forwarder (a listener on the events   *)
(* of the session) or a reconciliation run (a timer that reads the         *)
(* transcript) claims the intent, posts the reply and settles the intent.  *)
(* The record of the conversation holds the intents and one delivery slot. *)
(*                                                                         *)
(* On a chat service whose messages can be edited, the forwarder claims    *)
(* the intent at the first text of a turn and edits the message it posted. *)
(*                                                                         *)
(* Left out: failing writes of the store, the pruning of settled intents,  *)
(* inbound fates, the throttling of edits, failure notices posted as a     *)
(* message of their own, messages too long for an edit, and the start-up   *)
(* turns the forwarder skips.                                              *)
(***************************************************************************)
EXTENDS Naturals, FiniteSets

CONSTANTS
  Send,        \* clientSendIds: messages from the chat
  Reconciler,  \* bound: reconciliation runs at a time
  Removal,     \* bound: removed forwarders being settled at a time
  Begin,       \* bound: streams being begun at a time
  None,
  MaxDue,      \* bound: reconciliation timers that count
  MaxBreaks,   \* bound: refused hand-overs, stops of the session, crashes of the server
  MaxEdited    \* bound: messages of a conversation whose replies are edited

ASSUME ChannelAssumption ==
  /\ None \notin Send \cup Begin \cup (Send \X {"claim", "failure"}) \cup {"notice"}
  /\ MaxDue \in Nat \ {0} /\ MaxBreaks \in Nat /\ MaxEdited \in Nat

VARIABLES
  \* the record of the conversation
  rec,        \* in the memory of the store: channelReplyIntents, channelReplyDelivery
  disk,       \* in its file
  \* memory of the server
  inFlight,   \* inFlightChannelReplyDeliveryIds
  due,        \* reconciliation timers set after a message
  retry,      \* channelReplyReconciliationRetryTimers has the conversation
  forwarder,  \* the forwarder of the session
  begin,      \* calls of beginAutomaticChannelReplyStream
  ingest,     \* the delivery of each message to the session
  job,        \* what settles turns: per turn, per removed forwarder, per run
  todo,       \* what a reconciliation run has read and not dealt with
  \* the session
  session, turn,
  \* the chat service
  editable,   \* its messages can be edited
  shown,      \* what the message posted for an intent shows: a reply or a notice
  draft,      \* the stream of an intent: "new", "open" (posted), "off" (disabled)
  \* history
  started,    \* how many times the reply to a message was claimed and begun
  breaks

vars == <<rec, disk, inFlight, due, retry, forwarder, begin, ingest, job, todo,
          session, turn, editable, shown, draft, started, breaks>>

timers    == <<due, retry>>
listening == <<forwarder, begin>>
work      == <<job, todo>>
life      == <<session, turn, breaks>>
chat      == <<editable, shown, draft, started>>

Worker == Send \cup Reconciler \cup Removal

\* The delivery a claim of s creates, and the one created to record a failure.
Claim(s)  == <<s, "claim">>
Minted(s) == <<s, "failure">>
Delivery  == Send \X {"claim", "failure"}

Idle   == [pc |-> "idle", send |-> None, stream |-> None, wait |-> None]
NoTodo == [claimed |-> {}, open |-> {}, slot |-> None, status |-> "none", read |-> FALSE]
Unused == [pc |-> "unused", send |-> None, attached |-> FALSE]
NoForwarder == [pending |-> {}, active |-> None, stream |-> None, promise |-> None]

Init ==
  /\ rec = [intent |-> [s \in Send |-> "none"], ref |-> [s \in Send |-> None],
            slot |-> None, status |-> "none"]
  /\ disk = rec
  /\ inFlight = {} /\ due = 0 /\ retry = FALSE
  /\ forwarder = NoForwarder
  /\ begin = [b \in Begin |-> Unused]
  /\ ingest = [s \in Send |-> "idle"]
  /\ job = [w \in Worker |-> Idle]
  /\ todo = [r \in Reconciler |-> NoTodo]
  /\ session = "none" /\ turn = [s \in Send |-> "none"]
  /\ editable \in BOOLEAN
  /\ shown = [s \in Send |-> None] /\ draft = [s \in Send |-> "new"]
  /\ started = [s \in Send |-> 0]
  /\ breaks = 0

--------------------------------------------------------------------------------
(***************************************************************************)
(* The conversation record.  An update changes the memory under the lock   *)
(* of the store, and the lock is free again when the file is written.      *)
(***************************************************************************)

Free ==
  /\ \A s \in Send : ingest[s] \notin {"recording", "rerecording", "withdrawing"}
  /\ \A b \in Begin : begin[b].pc # "claiming"
  /\ \A w \in Worker : job[w].pc \notin {"claiming", "settling", "undoing", "failing"}

\* Deviation from Saves: the update does not wait for the file.
SavesNothing == disk' = disk

Saves == disk' = rec

Pending(s) == rec.intent[s] = "pending"

Recorded(s) == [rec EXCEPT !.intent[s] = IF @ = "none" THEN "pending" ELSE @]

Withdrawn(s) ==
  [rec EXCEPT !.intent[s] = IF Pending(s) /\ rec.ref[s] = None THEN "none" ELSE @]

SlotActive ==
  /\ rec.status = "pending"
  /\ \/ rec.slot \in inFlight
     \/ \E s \in Send : Pending(s) /\ rec.ref[s] = rec.slot

\* Deviation from Claimable: an intent that was claimed before may be claimed again.
ClaimableAgain(s) == Pending(s) /\ ~SlotActive

Claimable(s) == Pending(s) /\ rec.ref[s] = None /\ ~SlotActive

Claimed(s) ==
  [rec EXCEPT !.ref[s] = Claim(s), !.slot = Claim(s), !.status = "pending"]

\* Deviation from Settled: the slot is settled whoever it belongs to.
SettledAny(d, status) ==
  [rec EXCEPT !.status = status,
              !.intent = [s \in Send |-> IF rec.ref[s] = rec.slot THEN status ELSE @[s]]]

Settled(d, status) ==
  IF rec.slot # d THEN rec
  ELSE [rec EXCEPT !.status = status,
                   !.intent = [s \in Send |-> IF rec.ref[s] = d THEN status ELSE @[s]]]

Failed(s) ==
  IF ~Pending(s) THEN rec
  ELSE LET d == IF rec.ref[s] # None /\ rec.slot = rec.ref[s] THEN rec.slot ELSE Minted(s)
       IN [rec EXCEPT !.intent[s] = "failed", !.ref[s] = d, !.slot = d, !.status = "failed"]

--------------------------------------------------------------------------------
(***************************************************************************)
(* Delivering a message of the chat to the session                         *)
(***************************************************************************)

TimersSet(n) == due' = IF due + n > MaxDue THEN MaxDue ELSE due + n

\* The session or its transcript has the message: a redelivery.
Known(s) == turn[s] # "none"

\* How the turn of s, or a removed forwarder with s active, is settled: with the stream
\* of the forwarder, with the one that is being begun, or without.
Settling(s, ok) ==
  LET f == forwarder
  IN [pc |-> CASE f.stream # None -> IF ok THEN "finalize" ELSE "undo"
               [] f.stream = None /\ f.promise # None -> IF ok THEN "await" ELSE "awaitUndo"
               [] OTHER -> IF ok THEN "claim" ELSE "fail",
      send |-> s, stream |-> f.stream, wait |-> IF f.stream = None THEN f.promise ELSE None]

\* A forwarder is removed: what it had begun is settled as interrupted.
Removes ==
  LET busy == forwarder.active # None \/ forwarder.stream # None \/ forwarder.promise # None
  IN /\ begin' = [b \in Begin |-> [begin[b] EXCEPT !.attached = FALSE]]
     /\ \/ ~busy /\ job' = job
        \/ /\ busy
           /\ \E x \in Removal :
                /\ job[x].pc = "idle"
                /\ job' = [job EXCEPT ![x] = Settling(forwarder.active, FALSE)]

\* A redelivery only makes sure of the intent; without a session one is started,
\* with a forwarder of its own.
Arrive(s) ==
  /\ ingest[s] = "idle" /\ Free
  /\ editable => Cardinality({t \in Send : rec.intent[t] # "none"} \cup {s}) <= MaxEdited
  /\ rec' = Recorded(s)
  /\ \/ /\ Known(s)
        /\ ingest' = [ingest EXCEPT ![s] = "rerecording"]
        /\ UNCHANGED <<due, listening, job, session>>
     \/ /\ ~Known(s) /\ session # "none"
        /\ ingest' = [ingest EXCEPT ![s] = "recording"]
        /\ UNCHANGED <<due, listening, job, session>>
     \/ /\ ~Known(s) /\ session = "none"
        /\ ingest' = [ingest EXCEPT ![s] = "recording"]
        /\ session' = "live"
        /\ Removes /\ forwarder' = NoForwarder
        /\ TimersSet(1)
  /\ UNCHANGED <<disk, inFlight, retry, todo, turn, chat, breaks>>

\* The intent is saved: the forwarder is armed, and arming it starts a reconciliation.
Arm(s) ==
  /\ ingest[s] = "recording"
  /\ Saves
  /\ ingest' = [ingest EXCEPT ![s] = "armed"]
  /\ forwarder' = [forwarder EXCEPT !.pending = @ \cup {s}]
  /\ TimersSet(1)
  /\ UNCHANGED <<rec, inFlight, retry, begin, work, life, chat>>

Rearm(s) ==
  /\ ingest[s] = "rerecording"
  /\ Saves
  /\ ingest' = [ingest EXCEPT ![s] = "done"]
  /\ TimersSet(3)
  /\ UNCHANGED <<rec, inFlight, retry, listening, work, life, chat>>

HandOver(s) ==
  /\ ingest[s] = "armed" /\ session # "none"
  /\ turn' = [turn EXCEPT ![s] = "queued"]
  /\ ingest' = [ingest EXCEPT ![s] = "done"]
  /\ TimersSet(3)
  /\ UNCHANGED <<rec, disk, inFlight, retry, listening, work, session, chat, breaks>>

\* The session is gone or refuses the message: the forwarder is disarmed, the intent withdrawn.
HandOverFails(s) ==
  /\ ingest[s] = "armed"
  /\ \/ session = "none" /\ breaks' = breaks
     \/ breaks < MaxBreaks /\ breaks' = breaks + 1
  /\ ingest' = [ingest EXCEPT ![s] = "refused"]
  /\ forwarder' = [forwarder EXCEPT !.pending = @ \ {s}, !.active = IF @ = s THEN None ELSE @]
  /\ UNCHANGED <<rec, disk, inFlight, timers, begin, work, session, turn, chat>>

Withdraw(s) ==
  /\ ingest[s] = "refused" /\ Free
  /\ rec' = Withdrawn(s)
  /\ ingest' = [ingest EXCEPT ![s] = "withdrawing"]
  /\ UNCHANGED <<disk, inFlight, timers, listening, work, life, chat>>

\* A delivery that started the session stops it; which one did is not recorded.
Withdrew(s) ==
  /\ ingest[s] = "withdrawing"
  /\ Saves
  /\ ingest' = [ingest EXCEPT ![s] = "idle"]
  /\ \/ UNCHANGED <<listening, job, session>>
     \/ /\ session = "live" /\ session' = "stopping"
        /\ Removes /\ forwarder' = NoForwarder
  /\ UNCHANGED <<rec, inFlight, timers, todo, turn, chat, breaks>>

--------------------------------------------------------------------------------
(***************************************************************************)
(* The session and its forwarder                                           *)
(***************************************************************************)

TurnStarts(s) ==
  /\ session # "none" /\ turn[s] = "queued"
  /\ \A t \in Send : turn[t] # "running"
  /\ turn' = [turn EXCEPT ![s] = "running"]
  /\ forwarder' = IF s \in forwarder.pending THEN [forwarder EXCEPT !.active = s]
                  ELSE forwarder
  /\ UNCHANGED <<rec, disk, inFlight, timers, begin, ingest, work, session, chat, breaks>>

\* The stream of d shows the reply to s, or is disabled by an error of the service.
Shows(d, s) ==
  \/ draft[d] = "off" /\ UNCHANGED <<shown, draft>>
  \/ /\ draft[d] # "off"
     /\ shown' = [shown EXCEPT ![d] = s] /\ draft' = [draft EXCEPT ![d] = "open"]
  \/ draft[d] # "off" /\ draft' = [draft EXCEPT ![d] = "off"] /\ shown' = shown

\* Text of the running turn begins a stream or goes to the one the forwarder has.
\* On a service without edits the attempt to begin ends without a claim.
Text(s) ==
  /\ editable /\ turn[s] = "running" /\ forwarder.active = s
  /\ \/ /\ forwarder.stream # None
        /\ Shows(forwarder.stream, s)
        /\ UNCHANGED listening
     \/ /\ forwarder.stream = None /\ forwarder.promise = None
        /\ \E b \in Begin :
             /\ begin[b].pc = "unused"
             /\ begin' = [begin EXCEPT ![b] = [pc |-> "create", send |-> s, attached |-> TRUE]]
             /\ forwarder' = [forwarder EXCEPT !.promise = b]
        /\ UNCHANGED <<shown, draft>>
  /\ UNCHANGED <<rec, disk, inFlight, timers, ingest, work, life, editable, started>>

\* Deviation from Resumed: the failure of a turn does not wait for the stream it began.
ResumedUnlessUndone(j, d) ==
  IF j.pc = "awaitUndo" THEN j
  ELSE [j EXCEPT !.wait = None, !.stream = d,
                 !.pc = IF d # None THEN "finalize" ELSE "claim"]

\* What goes on with stream d, or without one.
Resumed(j, d) ==
  [j EXCEPT !.wait = None, !.stream = d,
            !.pc = CASE j.pc = "await" /\ d # None -> "finalize"
                     [] j.pc = "await" /\ d = None -> "claim"
                     [] j.pc = "awaitUndo" /\ d # None -> "undo"
                     [] j.pc = "awaitUndo" /\ d = None /\ j.send # None -> "fail"
                     [] OTHER -> "idle"]

\* The promise of b is fulfilled with a stream or None: the forwarder takes it, and
\* what the end of the turn or the removal of the forwarder has left waiting goes on.
Fulfils(b, d) ==
  /\ begin' = [begin EXCEPT ![b] = Unused]
  /\ forwarder' = IF begin[b].attached
                  THEN [forwarder EXCEPT !.stream = d, !.promise = None]
                  ELSE forwarder
  /\ job' = [w \in Worker |->
               IF job[w].wait = b THEN Resumed(job[w], d) ELSE job[w]]

BeginClaims(b) ==
  /\ begin[b].pc = "create" /\ Free
  /\ Claimable(begin[b].send)
  /\ rec' = Claimed(begin[b].send)
  /\ begin' = [begin EXCEPT ![b].pc = "claiming"]
  /\ UNCHANGED <<disk, inFlight, timers, forwarder, ingest, work, life, chat>>

BeginGivesUp(b) ==
  /\ begin[b].pc = "create" /\ Free
  /\ ~Claimable(begin[b].send)
  /\ retry' = TRUE
  /\ Fulfils(b, None)
  /\ UNCHANGED <<rec, disk, inFlight, due, ingest, todo, life, chat>>

\* The text that began the stream is its first message.
Begun(b) ==
  /\ begin[b].pc = "claiming"
  /\ Saves
  /\ inFlight' = inFlight \cup {Claim(begin[b].send)}
  /\ started' = [started EXCEPT ![begin[b].send] = @ + 1]
  /\ Fulfils(b, begin[b].send)
  /\ Shows(begin[b].send, begin[b].send)
  /\ UNCHANGED <<rec, timers, ingest, todo, life, editable>>

\* The forwarder forgets the turn and settles what it had begun for it.
TurnEnds(s) ==
  /\ turn[s] = "running"
  /\ \E result \in {"ok", "failed"} :
       /\ turn' = [turn EXCEPT ![s] = result]
       /\ IF forwarder.active # s THEN UNCHANGED <<forwarder, job>>
          ELSE /\ forwarder' = [forwarder EXCEPT !.pending = @ \ {s}, !.active = None,
                                                 !.stream = None, !.promise = None]
               /\ job' = [job EXCEPT ![s] = Settling(s, result = "ok")]
  /\ UNCHANGED <<rec, disk, inFlight, timers, begin, ingest, todo, session, chat, breaks>>

Stop ==
  /\ session = "live" /\ breaks < MaxBreaks
  /\ session' = "stopping" /\ breaks' = breaks + 1
  /\ Removes /\ forwarder' = NoForwarder
  /\ UNCHANGED <<rec, disk, inFlight, timers, ingest, todo, turn, chat>>

\* What the deleted session had not begun is gone, what it was doing has no end.
Lost(t) == CASE t = "queued" -> "none" [] t = "running" -> "cut" [] OTHER -> t

Stopped ==
  /\ session = "stopping"
  /\ session' = "none"
  /\ turn' = [s \in Send |-> Lost(turn[s])]
  /\ UNCHANGED <<rec, disk, inFlight, timers, listening, ingest, work, chat, breaks>>

--------------------------------------------------------------------------------
(***************************************************************************)
(* Sending and settling a reply                                            *)
(***************************************************************************)

Home(w) == IF w \in Reconciler THEN "next" ELSE "idle"
Ends(w) == [job EXCEPT ![w] = [Idle EXCEPT !.pc = Home(w)]]
To(w, pc) == [job EXCEPT ![w].pc = pc]

ClaimIntent(w) ==
  /\ job[w].pc = "claim" /\ Free
  /\ \/ /\ Claimable(job[w].send)
        /\ rec' = Claimed(job[w].send)
        /\ job' = To(w, "claiming") /\ retry' = retry
     \/ /\ ~Claimable(job[w].send)
        /\ retry' = TRUE
        /\ job' = Ends(w) /\ rec' = rec
  /\ UNCHANGED <<disk, inFlight, due, listening, ingest, todo, life, chat>>

ClaimSaved(w) ==
  /\ job[w].pc = "claiming"
  /\ Saves
  /\ inFlight' = inFlight \cup {Claim(job[w].send)}
  /\ started' = [started EXCEPT ![job[w].send] = @ + 1]
  /\ job' = [job EXCEPT ![w].pc = "dispatch", ![w].stream = job[w].send]
  /\ UNCHANGED <<rec, timers, listening, ingest, todo, life, editable, shown, draft>>

Dispatch(w) ==
  /\ job[w].pc = "dispatch"
  /\ \/ shown' = [shown EXCEPT ![job[w].send] = job[w].send] /\ job' = To(w, "delivered")
     \/ shown' = shown /\ job' = To(w, "undelivered")
  /\ UNCHANGED <<rec, disk, inFlight, timers, listening, ingest, todo, life, editable,
                 draft, started>>

\* The final text is an edit, or a message of its own when the stream is disabled.
Finalize(w) ==
  LET d == job[w].stream
  IN /\ job[w].pc = "finalize"
     /\ \/ /\ shown' = [shown EXCEPT ![d] = job[w].send]
           /\ draft' \in {IF draft[d] = "off" THEN draft ELSE [draft EXCEPT ![d] = "open"],
                          [draft EXCEPT ![d] = "off"]}
           /\ job' = To(w, "delivered")
        \/ /\ draft' = [draft EXCEPT ![d] = "off"]
           /\ job' = To(w, "undelivered") /\ shown' = shown
     /\ UNCHANGED <<rec, disk, inFlight, timers, listening, ingest, todo, life,
                    editable, started>>

\* A failed turn or a removed forwarder: the draft becomes a notice, if it can.
Undo(w) ==
  LET d == job[w].stream
  IN /\ job[w].pc = "undo"
     /\ \/ draft[d] # "open" /\ UNCHANGED <<shown, draft>>
        \/ draft[d] = "open" /\ shown' = [shown EXCEPT ![d] = "notice"] /\ draft' = draft
        \/ draft[d] = "open" /\ draft' = [draft EXCEPT ![d] = "off"] /\ shown' = shown
     /\ job' = To(w, "undone")
     /\ UNCHANGED <<rec, disk, inFlight, timers, listening, ingest, todo, life,
                    editable, started>>

Settle(w) ==
  /\ job[w].pc \in {"delivered", "undelivered", "undone"} /\ Free
  /\ rec' = Settled(Claim(job[w].stream),
                    IF job[w].pc = "delivered" THEN "delivered" ELSE "failed")
  /\ job' = To(w, IF job[w].pc = "undone" THEN "undoing" ELSE "settling")
  /\ UNCHANGED <<disk, inFlight, timers, listening, ingest, todo, life, chat>>

\* An undone stream leaves the intent of its turn to be failed, claimed or not.
SettleSaved(w) ==
  /\ job[w].pc \in {"settling", "undoing"}
  /\ Saves
  /\ inFlight' = inFlight \ {Claim(job[w].stream)}
  /\ job' = IF job[w].pc = "undoing" /\ job[w].send # None THEN To(w, "fail") ELSE Ends(w)
  /\ UNCHANGED <<rec, timers, listening, ingest, todo, life, chat>>

FailIntent(w) ==
  /\ job[w].pc = "fail" /\ Free
  /\ rec' = Failed(job[w].send)
  /\ job' = To(w, "failing")
  /\ UNCHANGED <<disk, inFlight, timers, listening, ingest, todo, life, chat>>

FailSaved(w) ==
  /\ job[w].pc = "failing"
  /\ Saves
  /\ job' = Ends(w)
  /\ UNCHANGED <<rec, inFlight, timers, listening, ingest, todo, life, chat>>

--------------------------------------------------------------------------------
(***************************************************************************)
(* Reconciliation                                                          *)
(***************************************************************************)

Reconcile(r) ==
  /\ job[r].pc = "idle"
  /\ \/ due > 0 /\ due' = due - 1 /\ retry' = retry
     \/ retry /\ retry' = FALSE /\ due' = due
  /\ job' = To(r, "next")
  /\ todo' = [todo EXCEPT ![r] =
                [claimed |-> {s \in Send : Pending(s) /\ rec.ref[s] # None},
                 open    |-> {s \in Send : Pending(s) /\ rec.ref[s] = None},
                 slot    |-> rec.slot, status |-> rec.status, read |-> FALSE]]
  /\ UNCHANGED <<rec, disk, inFlight, listening, ingest, life, chat>>

\* A claimed intent nobody is sending, by the record as it was read: interrupted.
\* (As long as an intent is pending, its delivery id stays as it was read.)
Owned(r, s) ==
  /\ todo[r].slot = rec.ref[s]
  /\ todo[r].status = "pending" => rec.ref[s] \in inFlight

CheckClaimed(r) ==
  /\ job[r].pc = "next"
  /\ \E s \in todo[r].claimed :
       /\ todo' = [todo EXCEPT ![r].claimed = @ \ {s}]
       /\ job' = IF Owned(r, s) THEN job
                 ELSE [job EXCEPT ![r].pc = "fail", ![r].send = s]
  /\ UNCHANGED <<rec, disk, inFlight, timers, listening, ingest, life, chat>>

\* The transcript says which of the open intents have an ended turn.
ReadTurns(r) ==
  /\ job[r].pc = "next" /\ todo[r].claimed = {} /\ ~todo[r].read
  /\ todo' = [todo EXCEPT ![r].read = TRUE, ![r].slot = None, ![r].status = "none",
                          ![r].open = {s \in @ : turn[s] \in {"ok", "failed"}}]
  /\ UNCHANGED <<rec, disk, inFlight, timers, listening, ingest, job, life, chat>>

Replay(r) ==
  /\ job[r].pc = "next" /\ todo[r].read
  /\ \E s \in todo[r].open :
       /\ todo' = [todo EXCEPT ![r].open = @ \ {s}]
       /\ job' = [job EXCEPT ![r].send = s,
                             ![r].pc = IF turn[s] = "ok" THEN "claim" ELSE "fail"]
  /\ UNCHANGED <<rec, disk, inFlight, timers, listening, ingest, life, chat>>

\* Deviation from Again: a run that leaves intents pending is not repeated.
NotAgain == retry

Again == retry \/ \E s \in Send : Pending(s)

EndReconcile(r) ==
  /\ job[r].pc = "next" /\ todo[r].read /\ todo[r].open = {}
  /\ retry' = Again
  /\ job' = [job EXCEPT ![r] = Idle]
  /\ todo' = [todo EXCEPT ![r] = NoTodo]
  /\ UNCHANGED <<rec, disk, inFlight, due, listening, ingest, life, chat>>

--------------------------------------------------------------------------------
(***************************************************************************)
(* The server stops.  The files stay; a session is restored with its queue *)
(* or is not; the chat service may send every message again.               *)
(***************************************************************************)

Crash ==
  /\ breaks < MaxBreaks
  /\ breaks' = breaks + 1
  /\ rec' = disk
  /\ inFlight' = {} /\ due' = 0 /\ retry' = FALSE
  /\ forwarder' = NoForwarder
  /\ begin' = [b \in Begin |-> Unused]
  /\ ingest' = [s \in Send |-> "idle"]
  /\ job' = [w \in Worker |-> Idle]
  /\ todo' = [r \in Reconciler |-> NoTodo]
  /\ draft' = [s \in Send |-> "new"]
  /\ \/ session' = "none" /\ turn' = [s \in Send |-> Lost(turn[s])]
     \/ /\ session # "none" /\ session' = "live"
        /\ turn' = [s \in Send |-> IF turn[s] = "queued" THEN "queued" ELSE Lost(turn[s])]
  /\ UNCHANGED <<disk, editable, shown, started>>

Deliver(s) ==
  \/ Arm(s) \/ Rearm(s) \/ HandOver(s) \/ HandOverFails(s) \/ Withdraw(s) \/ Withdrew(s)

Stream(b) == BeginClaims(b) \/ BeginGivesUp(b) \/ Begun(b)

Work(w) ==
  \/ ClaimIntent(w) \/ ClaimSaved(w) \/ Dispatch(w) \/ Finalize(w)
  \/ Undo(w) \/ Settle(w) \/ SettleSaved(w) \/ FailIntent(w) \/ FailSaved(w)

Run(r) ==
  Reconcile(r) \/ CheckClaimed(r) \/ ReadTurns(r) \/ Replay(r) \/ EndReconcile(r)

Next ==
  \/ \E s \in Send : Arrive(s) \/ Deliver(s) \/ TurnStarts(s) \/ Text(s) \/ TurnEnds(s)
  \/ \E b \in Begin : Stream(b)
  \/ \E w \in Worker : Work(w)
  \/ \E r \in Reconciler : Run(r)
  \/ Stop \/ Stopped \/ Crash

Spec == Init /\ [][Next]_vars

\* Promises, writes and timers of a running server go on, and the chat service answers.
\* Nothing is assumed of messages, turns, stops and crashes.
Fairness ==
  /\ \A s \in Send : WF_vars(Deliver(s))
  /\ \A b \in Begin : WF_vars(Stream(b))
  /\ \A w \in Worker : WF_vars(Work(w))
  /\ \A r \in Reconciler : WF_vars(Run(r))

FairSpec == Spec /\ Fairness

--------------------------------------------------------------------------------
(***************************************************************************)
(* Properties                                                              *)
(***************************************************************************)

Status == {"none", "pending", "delivered", "failed"}

Record == [intent : [Send -> Status], ref : [Send -> Delivery \cup {None}],
           slot : Delivery \cup {None}, status : Status]

\* The variables have their types, and who waits for a stream waits for one that is
\* being begun.
TypeOK ==
  /\ rec \in Record /\ disk \in Record
  /\ inFlight \subseteq {Claim(s) : s \in Send}
  /\ ingest \in [Send -> {"idle", "recording", "rerecording", "armed", "refused",
                         "withdrawing", "done"}]
  /\ begin \in [Begin -> [pc : {"unused", "create", "claiming"}, send : Send \cup {None},
                          attached : BOOLEAN]]
  /\ due \in 0..MaxDue /\ retry \in BOOLEAN
  /\ forwarder \in [pending : SUBSET Send, active : Send \cup {None},
                    stream : Send \cup {None}, promise : Begin \cup {None}]
  /\ \A w \in Worker : job[w].wait # None => begin[job[w].wait].pc # "unused"
  /\ \A w \in Worker : job[w].pc \in {"finalize", "undo", "delivered", "undelivered"}
                         => job[w].stream \in Send
  /\ session \in {"none", "live", "stopping"}
  /\ turn \in [Send -> {"none", "queued", "running", "ok", "failed", "cut"}]
  /\ shown \in [Send -> Send \cup {None, "notice"}]
  /\ draft \in [Send -> {"new", "open", "off"}]

\* No reply is begun twice: whatever the forwarder, its stream, the reconciliation runs,
\* redelivered messages and a restart do, one claim of an intent leads to a post.
StartedOnce == \A s \in Send : started[s] <= 1

\* An intent that is settled as delivered has a message in the chat, and this survives
\* another delivery that has taken the slot.
DeliveredIsPosted == \A s \in Send : rec.intent[s] = "delivered" => shown[s] # None

\* What the session was given is an intent in the file, so that a restart between the
\* hand-over and the reply can be noticed.
HandOverIsRecorded == \A s \in Send : turn[s] # "none" => disk.intent[s] # "none"

\* The streams of two replies may get in each other's way: the stream of one is taken
\* for that of the other when it is ready late.
Streamed(s) == editable /\ \E t \in Send \ {s} : rec.intent[t] # "none"

\* A message whose turn has ended is settled by the server that took it, as long as it
\* runs: stopped sessions, interrupted deliveries and slots left pending by an earlier
\* server do not hold it back.
EndedSettles ==
  \A s \in Send :
    (ingest[s] = "done" /\ turn[s] \in {"ok", "failed"})
      ~> (rec.intent[s] \in {"delivered", "failed"} \/ ingest[s] # "done" \/ Streamed(s))
================================================================================
