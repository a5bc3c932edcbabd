----------------------------- MODULE SessionQueue -----------------------------
(***************************************************************************)
(* The message queue of one agent session whose provider is fed through a  *)
(* pipe (the claude adapter): the backlog, the drain that hands its head   *)
(* to the provider, the retry timer, the automatic rotation that puts a    *)
(* fresh runtime behind the session's name, and the replacement of the     *)
(* runtime by a settings change.                                           *)
(*                                                                         *)
(* JavaScript runs promise continuations (microtasks) to exhaustion before *)
(* the next event.  A drain or a send that waits only for a resolved       *)
(* promise therefore runs before any event of the outside: the actions of  *)
(* events are guarded by Quiet.  What really waits is the rotation (it     *)
(* starts a process), the retry timer, and a request that resolves its     *)
(* workspace before it uses the session it looked up.                      *)
(*                                                                         *)
(* pendingDirectSendMessages is left out: with this adapter only the       *)
(* recovery of a credential puts a message there, which is not modelled.   *)
(*                                                                         *)
(* Runtimes are numbered in the order they get the session's name, so slot *)
(* is both the routable runtime and the number of runtimes so far.         *)
(***************************************************************************)
EXTENDS Integers, SequencesExt, FiniteSetsExt

CONSTANTS
  Msg,          \* messages, each sent by one request
  Held,         \* those sent by a route that awaits between lookup and use
  Priority,     \* [Msg -> {"normal", "low"}], the priority when queued
  Limit,        \* DEFAULT_SESSION_MESSAGE_QUEUE_LIMIT
  Modes,        \* what may put another runtime behind the name
  MaxRuntimes,  \* bound: runtimes of the session
  None

ASSUME QueueAssumption ==
  /\ Held \subseteq Msg
  /\ Priority \in [Msg -> {"normal", "low"}]
  /\ \A m \in Held : Priority[m] = "normal"
  /\ Limit \in Nat /\ MaxRuntimes \in Nat \ {0}
  /\ Modes \subseteq {"rotation", "replacement", "both"}
  /\ None \notin Msg

VARIABLES
  mode,      \* of the session: one of Modes
  slot,      \* the runtime sessions.get(name) returns
  \* per runtime
  queue,     \* messageQueue
  cur,       \* currentQueuedMessage
  done,      \* lastTurnCompleted
  rotate,    \* autoRotatePending
  drain,     \* the drain, and the one asked for meanwhile
  retry,     \* queuedMessageRetryMessageId, while the timer is armed
  \* the provider process of a runtime
  full,      \* stdinDraining
  inbox,     \* it has input it has not read
  turn,      \* it runs a turn
  \* per session name
  rotating,  \* the runtime the registered rotation replaces, or 0
  swap,      \* a settings change that builds its replacement
  \* the requests
  req, ref,
  \* history: messages given to a provider, whose turn ended, or withdrawn
  handed, served, removed

provider == <<full, inbox, turn>>
vars     == <<slot, queue, cur, done, rotate, drain, retry, full, inbox, turn,
              rotating, swap, req, ref, handed, served, removed>>

Rotates  == mode # "replacement"  \* supportsAutoRotation
Replaces == mode # "rotation"     \* settings changes that replace the runtime are sent

Runtime == 1..MaxRuntimes
NoSwap  == [of |-> 0, idle |-> FALSE]
NoDrain == [at |-> "none", force |-> FALSE, again |-> FALSE, againForce |-> FALSE]

\* priorityRank.
Rank(m) == IF Priority[m] = "normal" THEN 1 ELSE 2

\* normalizeQueueState: entries of a band follow in the order they had, so the place of
\* one is behind all that are more urgent and those of its band that came before it.
Before(seq, i, k) ==
  Rank(seq[i]) < Rank(seq[k]) \/ (Rank(seq[i]) = Rank(seq[k]) /\ i < k)
Place(seq, k) == Cardinality({i \in DOMAIN seq : Before(seq, i, k)}) + 1
Banded(seq) ==
  [n \in DOMAIN seq |-> seq[CHOOSE k \in DOMAIN seq : Place(seq, k) = n]]

\* Deviation from Inserted: every message goes to the end.
InsertedLast(seq, m) == Append(seq, m)

\* SessionMessageQueue.enqueue: before the first entry that is less urgent.
Inserted(seq, m) ==
  LET later == {i \in DOMAIN seq : Rank(seq[i]) > Rank(m)}
  IN  InsertAt(seq, IF later = {} THEN Len(seq) + 1 ELSE Min(later), m)

\* scheduleQueuedMessageDrain: one drain at a time; another is remembered.
Scheduled(d, s, force) ==
  IF d[s].at = "none"
    THEN [d EXCEPT ![s] = [NoDrain EXCEPT !.at = "scheduled", !.force = force]]
    ELSE [d EXCEPT ![s].again = TRUE, ![s].againForce = @ \/ force]

\* Its finally block.
Finished(d, s) ==
  IF d[s].again
    THEN [d EXCEPT ![s] = [NoDrain EXCEPT !.at = "scheduled", !.force = d[s].againForce]]
    ELSE [d EXCEPT ![s] = NoDrain]

\* Everything that awaits the registered rotation resumes.
DrainsResumed ==
  [s \in Runtime |-> IF drain[s].at = "waiting" THEN [drain[s] EXCEPT !.at = "resumed"]
                                               ELSE drain[s]]
SendsResumed == [m \in Msg |-> IF req[m] = "waiting" THEN "resumed" ELSE req[m]]

\* No promise continuation is left to run.
Quiet ==
  /\ \A s \in Runtime : drain[s].at \notin {"scheduled", "resumed"}
  /\ \A m \in Msg : req[m] # "resumed"

\* rotateStreamSessionIfNeeded would rotate the session now.
RotationDue == rotate[slot] /\ done[slot] /\ cur[slot] = None

\* awaitAutoRotationIfNeeded waits for the registered rotation; without one,
\* the caller runs a rotation that is due itself, and does not register it.
MustWait == rotating # 0 \/ RotationDue
Waiting  == IF rotating # 0 THEN "waiting" ELSE "rotating"

Init ==
  /\ mode \in Modes
  /\ slot = 1
  /\ queue = [s \in Runtime |-> <<>>]
  /\ cur = [s \in Runtime |-> None]
  /\ done = [s \in Runtime |-> TRUE]
  /\ rotate = [s \in Runtime |-> FALSE]
  /\ drain = [s \in Runtime |-> NoDrain]
  /\ retry = [s \in Runtime |-> None]
  /\ full = [s \in Runtime |-> FALSE]
  /\ inbox = [s \in Runtime |-> FALSE]
  /\ turn = [s \in Runtime |-> FALSE]
  /\ rotating = 0
  /\ swap = NoSwap
  /\ req = [m \in Msg |-> "idle"]
  /\ ref = [m \in Msg |-> 0]
  /\ handed = {} /\ served = {} /\ removed = {}

--------------------------------------------------------------------------------
(***************************************************************************)
(* Dispatch and drain                                                      *)
(***************************************************************************)

\* dispatchSend, mode live: the text is written to the provider's stdin, whose
\* buffer may then be full; the turn is no longer completed.  Every caller
\* clears the retry timer on success.
Dispatch(s, m) ==
  /\ ~full[s]
  /\ full' \in {full, [full EXCEPT ![s] = TRUE]}
  /\ inbox' = [inbox EXCEPT ![s] = TRUE]
  /\ done' = [done EXCEPT ![s] = FALSE]
  /\ retry' = [retry EXCEPT ![s] = None]
  /\ handed' = handed \cup {m}
  /\ UNCHANGED turn

\* Something waits, and it may be sent although a turn may run.
Due(s) ==
  /\ queue[s] # <<>>
  /\ done[s] \/ drain[s].force

\* The end of drainQueuedMessages: leave, hand over the head, or, with the
\* pipe busy, keep it and arm the retry timer.
DrainHead(s) ==
  LET m == Head(queue[s]) IN
  /\ drain' = Finished(drain, s)
  /\ \/ /\ ~Due(s)
        /\ UNCHANGED <<queue, cur, done, retry, provider, handed>>
     \/ /\ Due(s)
        /\ Dispatch(s, m)
        /\ cur' = [cur EXCEPT ![s] = m]
        /\ queue' = [queue EXCEPT ![s] = RemoveFirst(@, m)]
     \/ /\ Due(s)
        /\ full[s]
        /\ retry' = [retry EXCEPT ![s] = m]
        /\ UNCHANGED <<queue, cur, done, provider, handed>>

RunDrain(s) ==
  /\ drain[s].at = "scheduled"
  /\ \/ /\ slot # s \/ cur[s] # None
        /\ drain' = Finished(drain, s)
        /\ UNCHANGED <<queue, cur, done, retry, provider, handed>>
     \/ /\ slot = s /\ cur[s] = None /\ MustWait
        /\ drain' = [drain EXCEPT ![s].at = Waiting]
        /\ UNCHANGED <<queue, cur, done, retry, provider, handed>>
     \/ /\ slot = s /\ cur[s] = None /\ ~MustWait
        /\ DrainHead(s)
  /\ UNCHANGED <<slot, rotate, rotating, swap, req, ref, served, removed>>

\* The rotation the drain awaited has ended, perhaps with another runtime.
ResumeDrain(s) ==
  /\ drain[s].at = "resumed"
  /\ \/ /\ slot # s
        /\ drain' = Finished(Scheduled(drain, slot, drain[s].force), s)
        /\ UNCHANGED <<queue, cur, done, retry, provider, handed>>
     \/ /\ slot = s
        /\ DrainHead(s)
  /\ UNCHANGED <<slot, rotate, rotating, swap, req, ref, served, removed>>

TimerFires(s) ==
  /\ Quiet
  /\ retry[s] # None
  /\ retry' = [retry EXCEPT ![s] = None]
  /\ drain' = Scheduled(drain, s, TRUE)
  /\ UNCHANGED <<slot, queue, cur, done, rotate, provider, rotating, swap, req, ref,
                 handed, served, removed>>

--------------------------------------------------------------------------------
(***************************************************************************)
(* Requests of clients                                                     *)
(***************************************************************************)

\* Deviation from HasRoom: off by one.
HasRoomForOneMore(s) == Len(queue[s]) <= Limit

HasRoom(s) == Len(queue[s]) < Limit

\* Enqueue m on runtime s, unless the backlog is at its limit, and drain.
Enqueue(m, s) ==
  \/ /\ HasRoom(s)
     /\ queue' = [queue EXCEPT ![s] = Inserted(@, m)]
     /\ drain' = Scheduled(drain, s, FALSE)
     /\ req' = [req EXCEPT ![m] = "queued"]
  \/ /\ ~HasRoom(s)
     /\ req' = [req EXCEPT ![m] = "refused"]
     /\ UNCHANGED <<queue, drain>>

\* sendToSession with intent queue: lookup and use in one turn.
QueueNow(m) ==
  /\ Quiet
  /\ m \notin Held /\ req[m] = "idle"
  /\ Enqueue(m, slot)
  /\ UNCHANGED <<slot, cur, done, rotate, retry, provider, rotating, swap, ref,
                 handed, served, removed>>

\* POST .../message?queue=true looks the session up, then resolves the workspace.
HoldSession(m) ==
  /\ Quiet
  /\ m \in Held /\ req[m] = "idle"
  /\ req' = [req EXCEPT ![m] = "holding"]
  /\ ref' = [ref EXCEPT ![m] = slot]
  /\ UNCHANGED <<slot, queue, cur, done, rotate, drain, retry, provider, rotating, swap,
                 handed, served, removed>>

QueueHeld(m) ==
  /\ Quiet
  /\ req[m] = "holding"
  /\ Enqueue(m, ref[m])
  /\ UNCHANGED <<slot, cur, done, rotate, retry, provider, rotating, swap, ref,
                 handed, served, removed>>

\* The end of sendImmediateTextToStreamSession, on the runtime now routable.
SendDirect(m) ==
  \/ /\ Dispatch(slot, m)
     /\ req' = [req EXCEPT ![m] = "sent"]
  \/ /\ full[slot]
     /\ req' = [req EXCEPT ![m] = "refused"]
     /\ UNCHANGED <<done, retry, provider, handed>>

SendNow(m) ==
  /\ Quiet
  /\ req[m] = "idle"
  /\ \/ /\ MustWait
        /\ req' = [req EXCEPT ![m] = Waiting]
        /\ ref' = [ref EXCEPT ![m] = slot]
        /\ UNCHANGED <<done, retry, provider, handed>>
     \/ /\ ~MustWait
        /\ SendDirect(m)
        /\ UNCHANGED ref
  /\ UNCHANGED <<slot, queue, cur, rotate, drain, rotating, swap, served, removed>>

ResumeSend(m) ==
  /\ req[m] = "resumed"
  /\ SendDirect(m)
  /\ UNCHANGED <<slot, queue, cur, rotate, drain, rotating, swap, ref, served, removed>>

\* PUT .../queue/reorder: any order that keeps each position in its band.
Reorder(new) ==
  LET s == slot IN
  /\ Quiet
  /\ \A i \in DOMAIN new : Priority[new[i]] = Priority[queue[s][i]]
  /\ queue' = [queue EXCEPT ![s] = new]
  /\ UNCHANGED <<slot, cur, done, rotate, drain, retry, provider, rotating, swap, req,
                 ref, handed, served, removed>>

\* DELETE .../queue/:id; the retry of the removed message passes to the rest.
RemoveItem(m) ==
  LET s == slot IN
  /\ Quiet
  /\ m \in ToSet(queue[s])
  /\ queue' = [queue EXCEPT ![s] = RemoveFirst(@, m)]
  /\ removed' = removed \cup {m}
  /\ retry' = IF retry[s] = m THEN [retry EXCEPT ![s] = None] ELSE retry
  /\ drain' = IF retry[s] = m /\ done[s] /\ cur[s] = None /\ Len(queue[s]) > 1
                THEN Scheduled(drain, s, FALSE) ELSE drain
  /\ UNCHANGED <<slot, cur, done, rotate, provider, rotating, swap, req, ref,
                 handed, served>>

\* DELETE .../queue
Clear ==
  LET s == slot IN
  /\ Quiet
  /\ queue[s] # <<>>
  /\ queue' = [queue EXCEPT ![s] = <<>>]
  /\ removed' = removed \cup ToSet(queue[s])
  /\ retry' = [retry EXCEPT ![s] = None]
  /\ UNCHANGED <<slot, cur, done, rotate, drain, provider, rotating, swap, req, ref,
                 handed, served>>

--------------------------------------------------------------------------------
(***************************************************************************)
(* The provider of a runtime                                               *)
(***************************************************************************)

\* It reads its input: into the turn it runs, or it starts one.
TurnStart(s) ==
  /\ Quiet
  /\ inbox[s]
  /\ inbox' = [inbox EXCEPT ![s] = FALSE]
  /\ turn' = [turn EXCEPT ![s] = TRUE]
  /\ done' = [done EXCEPT ![s] = FALSE]
  /\ UNCHANGED <<slot, queue, cur, rotate, drain, retry, full, rotating, swap, req, ref,
                 handed, served, removed>>

\* Deviation from AfterTurn: a drain only when the turn was a queued message's.
AfterTurnOfCurrent(s) ==
  drain' = IF cur[s] # None THEN Scheduled(drain, s, FALSE) ELSE drain

\* The drain a turn end asks for.
AfterTurn(s) ==
  drain' = IF cur[s] # None \/ queue[s] # <<>>
             THEN Scheduled(drain, s, FALSE) ELSE drain

\* Deviation from RotationAfterTurn: only when nothing is left to drain.
RotationAfterIdleTurn(s) ==
  rotating' = IF /\ rotate'[s] /\ rotating = 0 /\ RotationDue'
                 /\ cur[s] = None /\ queue[s] = <<>>
                THEN slot ELSE rotating

\* A turn end registers a rotation that is due.
RotationAfterTurn(s) ==
  rotating' = IF rotate'[s] /\ rotating = 0 /\ RotationDue' THEN slot ELSE rotating

\* The turn.end record: the entry count may reach the rotation threshold.
TurnEnd(s) ==
  /\ Quiet
  /\ turn[s]
  /\ turn' = [turn EXCEPT ![s] = FALSE]
  /\ done' = [done EXCEPT ![s] = TRUE]
  /\ \/ UNCHANGED rotate
     \/ Rotates /\ rotate' = [rotate EXCEPT ![s] = TRUE]
  /\ cur' = [cur EXCEPT ![s] = None]
  /\ served' = served \cup ({cur[s]} \ {None})
  /\ retry' = IF cur[s] # None THEN [retry EXCEPT ![s] = None] ELSE retry
  /\ AfterTurn(s)
  /\ UNCHANGED <<slot, queue, full, inbox, swap, req, ref, handed, removed>>
  /\ RotationAfterTurn(s)

PipeDrains(s) ==
  /\ Quiet
  /\ full[s]
  /\ full' = [full EXCEPT ![s] = FALSE]
  /\ UNCHANGED <<slot, queue, cur, done, rotate, drain, retry, inbox, turn, rotating,
                 swap, req, ref, handed, served, removed>>

--------------------------------------------------------------------------------
(***************************************************************************)
(* Rotation and replacement of the runtime                                 *)
(***************************************************************************)

\* The process of a runtime that lost the name is torn down.
TornDown(s) ==
  /\ inbox' = [inbox EXCEPT ![s] = FALSE]
  /\ turn' = [turn EXCEPT ![s] = FALSE]
  /\ full' = [full EXCEPT ![s] = FALSE]

\* The backlog a rotated runtime takes over.
CarriedOver(old, new) == queue' = [queue EXCEPT ![new] = queue[old]]

\* The replacement of the runtime captured when the rotation began is up, and
\* takes over the backlog and the name; d is the drains once the waiters resume.
Rotated(old, d) ==
  LET new == slot + 1 IN
  /\ slot < MaxRuntimes
  /\ CarriedOver(old, new)
  /\ retry' = [retry EXCEPT ![old] = None]
  /\ slot' = new
  /\ TornDown(old)
  /\ drain' = IF queue[old] # <<>> THEN Scheduled(d, new, TRUE) ELSE d

RotationEnds ==
  /\ Quiet
  /\ \/ /\ rotating # 0
        /\ Rotated(rotating, DrainsResumed)
        /\ req' = SendsResumed
        /\ rotating' = 0
     \/ \E s \in Runtime :
          /\ drain[s].at = "rotating"
          /\ Rotated(s, [drain EXCEPT ![s].at = "resumed"])
          /\ UNCHANGED <<req, rotating>>
     \/ \E m \in Msg :
          /\ req[m] = "rotating"
          /\ Rotated(ref[m], drain)
          /\ req' = [req EXCEPT ![m] = "resumed"]
          /\ UNCHANGED rotating
  /\ UNCHANGED <<cur, done, rotate, swap, ref, handed, served, removed>>

\* The replacement could not be built: whoever waits goes on with the runtime
\* there is.  A registered rotation that is still due is begun again at once.
RotationFails ==
  /\ Quiet
  /\ \/ /\ rotating # 0
        /\ rotating' = IF RotationDue THEN slot ELSE 0
        /\ drain' = DrainsResumed
        /\ req' = SendsResumed
     \/ \E s \in Runtime :
          /\ drain[s].at = "rotating"
          /\ drain' = [drain EXCEPT ![s].at = "resumed"]
          /\ UNCHANGED <<req, rotating>>
     \/ \E m \in Msg :
          /\ req[m] = "rotating"
          /\ req' = [req EXCEPT ![m] = "resumed"]
          /\ UNCHANGED <<drain, rotating>>
  /\ UNCHANGED <<slot, queue, cur, done, rotate, retry, provider, swap, ref, handed,
                 served, removed>>

\* replaceCommanderSession captures the runtime and builds another.
StartSwap(idle) ==
  /\ Quiet
  /\ Replaces /\ swap = NoSwap
  /\ swap' = [of |-> slot, idle |-> idle]
  /\ UNCHANGED <<slot, queue, cur, done, rotate, drain, retry, provider, rotating, req,
                 ref, handed, served, removed>>

\* The build fails, or requireIdleReplacement finds the session changed, in a
\* turn or with queued work: the captured runtime stays.
SwapFails ==
  /\ Quiet
  /\ swap # NoSwap
  /\ swap' = NoSwap
  /\ UNCHANGED <<slot, queue, cur, done, rotate, drain, retry, provider, rotating, req,
                 ref, handed, served, removed>>

\* Deviation from PutBack: the message of the unfinished turn is forgotten.
NotPutBack(s) == Banded(queue[s])

\* What the captured runtime holds, the message of its unfinished turn first.
PutBack(s) ==
  Banded((IF cur[s] = None THEN <<>> ELSE <<cur[s]>>) \o queue[s])

\* The replacement takes over; nobody awaits it.
Swap ==
  LET old == swap.of
      new == slot + 1
  IN
  /\ Quiet
  /\ swap # NoSwap /\ slot < MaxRuntimes
  /\ swap.idle => slot = old /\ done[old] /\ cur[old] = None /\ queue[old] = <<>>
  /\ queue' = [queue EXCEPT ![new] = PutBack(old)]
  /\ rotate' = [rotate EXCEPT ![new] = rotate[old]]
  /\ slot' = new
  /\ swap' = NoSwap
  /\ TornDown(old)
  /\ drain' = IF PutBack(old) # <<>> THEN Scheduled(drain, new, TRUE) ELSE drain
  /\ UNCHANGED <<cur, done, retry, rotating, req, ref, handed, served, removed>>

--------------------------------------------------------------------------------
Micro ==
  \/ \E s \in Runtime : RunDrain(s) \/ ResumeDrain(s)
  \/ \E m \in Msg : ResumeSend(m)

Client ==
  \/ \E m \in Msg : QueueNow(m) \/ HoldSession(m) \/ SendNow(m) \/ RemoveItem(m)
  \/ \E new \in SetToSeqs(ToSet(queue[slot])) : Reorder(new)
  \/ Clear
  \/ \E idle \in BOOLEAN : StartSwap(idle)

Next ==
  \/ Micro \/ Client
  \/ \E s \in Runtime : TimerFires(s) \/ TurnStart(s) \/ TurnEnd(s) \/ PipeDrains(s)
  \/ \E m \in Msg : QueueHeld(m)
  \/ RotationEnds \/ RotationFails \/ SwapFails \/ Swap

Spec == Init /\ [][Next /\ UNCHANGED mode]_<<vars, mode>>

\* The event loop runs every event that is due; the provider reads its input and
\* ends its turns.  An event waits for the microtasks, so its fairness is strong.
FairSpec ==
  /\ Spec
  /\ WF_vars(Micro)
  /\ SF_vars(\E s \in Runtime : TimerFires(s))
  /\ SF_vars(\E s \in Runtime : PipeDrains(s))
  /\ SF_vars(\E s \in Runtime : TurnStart(s))
  /\ SF_vars(\E s \in Runtime : TurnEnd(s))
  /\ SF_vars(RotationEnds \/ RotationFails)

--------------------------------------------------------------------------------
(***************************************************************************)
(* Properties                                                              *)
(***************************************************************************)

\* The types of the runtimes' and the requests' state; the backlog of a runtime
\* exceeds the limit at most by the message a replacement has put back, however
\* often the runtime is replaced.
TypeOK ==
  /\ mode \in Modes
  /\ slot \in Runtime
  /\ queue \in [Runtime -> Seq(Msg)]
  /\ cur \in [Runtime -> Msg \cup {None}] /\ retry \in [Runtime -> Msg \cup {None}]
  /\ done \in [Runtime -> BOOLEAN] /\ rotate \in [Runtime -> BOOLEAN]
  /\ drain \in [Runtime -> [at : {"none", "scheduled", "waiting", "rotating", "resumed"},
                            force : BOOLEAN, again : BOOLEAN, againForce : BOOLEAN]]
  /\ full \in [Runtime -> BOOLEAN] /\ inbox \in [Runtime -> BOOLEAN]
  /\ turn \in [Runtime -> BOOLEAN]
  /\ rotating \in 0..MaxRuntimes
  /\ swap \in [of : 0..MaxRuntimes, idle : BOOLEAN]
  /\ req \in [Msg -> {"idle", "holding", "waiting", "rotating", "resumed", "queued",
                      "sent", "refused"}]
  /\ ref \in [Msg -> 0..MaxRuntimes]
  /\ handed \subseteq Msg /\ served \subseteq handed /\ removed \subseteq Msg
  /\ \A s \in Runtime : Len(queue[s]) + (IF cur[s] = None THEN 0 ELSE 1) <= Limit + 1

\* No lost wakeup: while the session is idle and messages wait, a drain is on
\* its way or the retry timer is armed, whatever cleared a timer, ended a turn,
\* removed a message or changed the runtime meanwhile.
NoLostWakeup ==
  done[slot] /\ cur[slot] = None /\ queue[slot] # <<>> =>
    drain[slot].at # "none" \/ retry[slot] # None

\* Two rotations of the session never run side by side: each would start a
\* process, and the one that ends first would be replaced with what it holds.
OneRotation ==
  Cardinality({s \in Runtime : drain[s].at = "rotating"})
    + Cardinality({m \in Msg : req[m] = "rotating"})
    + (IF rotating # 0 THEN 1 ELSE 0) <= 1

\* A message accepted into the queue waits behind the session's name until it is
\* handed to a provider or withdrawn: the comments of replaceCommanderSession
\* promise that messages are not lost with the runtime that is retired.
Kept(m) == req[m] = "queued" => m \in handed \cup removed \cup ToSet(queue[slot])
AcceptedIsKept == \A m \in Msg : Kept(m)

\* The same for the messages whose request uses the session it looked up before
\* anything else can run.  A replacement may come in the middle of a turn and
\* loses nothing either: the message waits or is the current one until a turn
\* with it has ended.
KeptUnlessHeld ==
  \A m \in Msg \ Held :
    /\ Kept(m)
    /\ req[m] = "queued" /\ ~Rotates =>
         m \in served \cup removed \cup ToSet(queue[slot]) \cup {cur[slot]}

\* While only rotations change the runtime, the queue behind the name is the
\* abstract line: they do not show.
Line == INSTANCE MessageLine
          WITH waiting <- IF Replaces THEN <<>> ELSE queue[slot],
               handed <- IF Replaces THEN {} ELSE handed
ImplementsLine == Line!LineSpec

\* An accepted message is eventually handed over or withdrawn.
AcceptedIsHanded ==
  \A m \in Msg : req[m] = "queued" ~> m \in handed \cup removed
===============================================================================
