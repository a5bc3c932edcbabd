-------------------------- MODULE CommanderLifecycle --------------------------
(***************************************************************************)
(* The lifecycle coordinator of a commander: a FIFO lock, a mutation       *)
(* generation, a cleanup state and a count of admitted runtime activities  *)
(* per commander, shared by everything that writes below a commander or    *)
(* removes one.                                                            *)
(*                                                                         *)
(* The actors are requests of one server process.  Between two awaits a    *)
(* request runs alone, so an action is what happens between two awaits.    *)
(* A request is                                                            *)
(*   - a write to the automation store (create, update, move, delete),     *)
(*     which takes the lock of the commanders it touches, in key order,    *)
(*     and retries when the automation changed parent meanwhile;           *)
(*   - the launch of a provider runtime, which only counts itself in and   *)
(*     out under the lock;                                                 *)
(*   - DELETE /commanders/:id, which observes the generation and the       *)
(*     children and then tries to turn the observation into a lease;       *)
(*   - the provisioning of a commander, which rolls itself back.           *)
(***************************************************************************)
EXTENDS Integers, Sequences

CONSTANTS
  Proc,         \* concurrent requests
  Commander,    \* commander keys, ordered as mutationKey orders them
  Automation,   \* automation ids
  NoParent,     \* parentCommanderId = null
  Absent,       \* the automation has no record
  MaxOps,       \* bound: requests started in a behaviour
  MaxAttempts   \* sweeps of one DELETE request (5 in the code)

ASSUME LifecycleAssumption ==
  /\ Commander \subseteq Nat
  /\ NoParent \notin Commander
  /\ Absent \notin Commander
  /\ NoParent # Absent
  /\ MaxOps \in Nat
  /\ MaxAttempts \in Nat \ {0}

VARIABLES
  \* the coordinator's map, per commander
  tail,          \* requests queued on the promise chain; the head holds the lock
  version,       \* mutation generation
  cleanupState,  \* "idle", "active" or "deleted"
  activities,    \* activeRuntimeActivities
  \* what hangs below a commander
  session,       \* the commander's own record
  conv,          \* it has a conversation that is not archived: idle or active
  live,          \* it has a live provider runtime
  owner,         \* parent of each automation
  \* the requests
  pc,
  kind, com,         \* what the request does, and to which commander
  item, from, dest,  \* automation written, parent observed, parent wanted
  order, got,        \* locks it takes in this order, and how many it holds
  outcome,           \* how its write or its lease ended
  seen, swept,       \* generation and children a DELETE observed
  attempt,
  ops                \* requests started so far

coord == <<tail, version, cleanupState, activities>>
tree  == <<session, conv, live, owner>>
write == <<item, from, dest>>
sweep == <<seen, swept, attempt>>
vars  == <<tail, version, cleanupState, activities, session, conv, live, owner,
           pc, kind, com, item, from, dest, order, got, outcome, seen, swept,
           attempt, ops>>

Parent   == Commander \cup {NoParent, Absent}
Writes   == {"create", "move", "touch"}
Kinds    == Writes \cup {"none", "launch", "delete", "provision"}
Outcomes == {"none", "commit", "retry", "fail", "deleted", "kept"}
\* where a request waits for the promise chain
WaitPcs  == {"waiting", "admit", "complete", "reserve", "publish"}
\* where it holds a cleanup or provisioning lease
LeasePcs == {"leased", "provisioning", "rollback", "closing"}
Pcs      == WaitPcs \cup LeasePcs
              \cup {"idle", "observe", "write", "unwind", "running", "survey", "sweep"}

Children(c) == {k \in Automation : owner[k] = c}

\* A new id is a random UUID: no record and no request names it yet.
Fresh(k) == owner[k] = Absent /\ \A q \in Proc : item[q] # k

\* Deviations from LockOrder: the locks in the caller's order; null not filtered.
LockOrderUnsorted(a, b) ==
  CASE a \in Commander /\ b \in Commander /\ a # b -> <<a, b>>
    [] a \in Commander /\ (b \notin Commander \/ a = b) -> <<a>>
    [] a \notin Commander /\ b \in Commander -> <<b>>
    [] OTHER -> <<>>
LockOrderUnfiltered(a, b) == IF a = b THEN <<a>> ELSE <<a, b>>

\* The locks a write takes: distinct, non-empty, in key order.
LockOrder(a, b) ==
  CASE a \in Commander /\ b \in Commander /\ a < b -> <<a, b>>
    [] a \in Commander /\ b \in Commander /\ b < a -> <<b, a>>
    [] a \in Commander /\ (b \notin Commander \/ a = b) -> <<a>>
    [] a \notin Commander /\ b \in Commander -> <<b>>
    [] OTHER -> <<>>

IsHead(p, c)   == tail[c] # <<>> /\ Head(tail[c]) = p
Enqueued(p, c) == [tail EXCEPT ![c] = Append(@, p)]
Released(c)    == [tail EXCEPT ![c] = Tail(@)]
Bumped(c)      == [version EXCEPT ![c] = @ + 1]

\* Deviation from Accepts: only a lease closes the commander, not its tombstone.
AcceptsUnlessLeased(c) == cleanupState[c] # "active"

\* The commander accepts writes and launches.
Accepts(c) == cleanupState[c] = "idle"

\* Deviations from StillAsSeen: one of its checks is missing.
SeenIgnoringVersion(p, c)    == cleanupState[c] = "idle" /\ activities[c] = 0
SeenIgnoringActivities(p, c) == cleanupState[c] = "idle" /\ version[c] = seen[p]

\* What turns the observation of a deletion into a lease.
StillAsSeen(p, c) ==
  /\ cleanupState[c] = "idle"
  /\ activities[c] = 0
  /\ version[c] = seen[p]

\* Deviation from ChildrenGone: the record does not wait for the children.
ChildrenAside(p) == TRUE

\* The children the deletion listed are removed.
ChildrenGone(p) == \A k \in swept[p] : owner[k] # com[p]

Goto(p, label) == pc' = [pc EXCEPT ![p] = label]

\* p calls withCommanderMutations over the commanders of locks.
AcquireAll(p, locks) ==
  /\ order' = [order EXCEPT ![p] = locks]
  /\ got' = [got EXCEPT ![p] = 0]
  /\ IF locks = <<>>
       THEN Goto(p, "write") /\ UNCHANGED tail
       ELSE Goto(p, "waiting") /\ tail' = Enqueued(p, Head(locks))

\* p queues on the lock of c and resumes at label when it is the head.
AwaitLock(p, c, label) ==
  /\ order' = [order EXCEPT ![p] = <<c>>]
  /\ got' = [got EXCEPT ![p] = 0]
  /\ Goto(p, label)
  /\ tail' = Enqueued(p, c)

\* The request returns to its caller and forgets its locals.
Finish(p) ==
  /\ Goto(p, "idle")
  /\ kind' = [kind EXCEPT ![p] = "none"]
  /\ com' = [com EXCEPT ![p] = NoParent]
  /\ item' = [item EXCEPT ![p] = Absent]
  /\ from' = [from EXCEPT ![p] = Absent]
  /\ dest' = [dest EXCEPT ![p] = Absent]
  /\ order' = [order EXCEPT ![p] = <<>>]
  /\ got' = [got EXCEPT ![p] = 0]
  /\ outcome' = [outcome EXCEPT ![p] = "none"]
  /\ seen' = [seen EXCEPT ![p] = 0]
  /\ swept' = [swept EXCEPT ![p] = {}]
  /\ attempt' = [attempt EXCEPT ![p] = 0]

Start(p, k) ==
  /\ pc[p] = "idle"
  /\ ops < MaxOps
  /\ ops' = ops + 1
  /\ kind' = [kind EXCEPT ![p] = k]

Init ==
  /\ tail = [c \in Commander |-> <<>>]
  /\ version = [c \in Commander |-> 0]
  /\ cleanupState = [c \in Commander |-> "idle"]
  /\ activities = [c \in Commander |-> 0]
  /\ session \in [Commander -> BOOLEAN]
  /\ conv = session
  /\ live = [c \in Commander |-> FALSE]
  /\ owner \in [Automation -> Parent]
  /\ \A k \in Automation : owner[k] \in Commander => session[owner[k]]
  /\ pc = [p \in Proc |-> "idle"]
  /\ kind = [p \in Proc |-> "none"]
  /\ com = [p \in Proc |-> NoParent]
  /\ item = [p \in Proc |-> Absent]
  /\ from = [p \in Proc |-> Absent]
  /\ dest = [p \in Proc |-> Absent]
  /\ order = [p \in Proc |-> <<>>]
  /\ got = [p \in Proc |-> 0]
  /\ outcome = [p \in Proc |-> "none"]
  /\ seen = [p \in Proc |-> 0]
  /\ swept = [p \in Proc |-> {}]
  /\ attempt = [p \in Proc |-> 0]
  /\ ops = 0

-----------------------------------------------------------------------------
(***************************************************************************)
(* withCommanderMutation(s)                                                *)
(***************************************************************************)

\* The lock is granted and the commander accepts writes: run the operation,
\* or queue for the next lock.
GrantLock(p) ==
  LET c == order[p][got[p] + 1] IN
  /\ pc[p] = "waiting"
  /\ IsHead(p, c)
  /\ Accepts(c)
  /\ got' = [got EXCEPT ![p] = @ + 1]
  /\ IF got[p] + 1 = Len(order[p])
       THEN Goto(p, "write") /\ UNCHANGED tail
       ELSE tail' = Enqueued(p, order[p][got[p] + 2]) /\ UNCHANGED pc
  /\ UNCHANGED <<version, cleanupState, activities, tree, kind, com, write,
                 order, outcome, sweep, ops>>

\* The lock is granted but the commander is tombstoned: nothing is written.
RefuseLock(p) ==
  LET c == order[p][got[p] + 1] IN
  /\ pc[p] = "waiting"
  /\ IsHead(p, c)
  /\ ~Accepts(c)
  /\ got' = [got EXCEPT ![p] = @ + 1]
  /\ outcome' = [outcome EXCEPT ![p] = "fail"]
  /\ Goto(p, "unwind")
  /\ UNCHANGED <<coord, tree, kind, com, write, order, sweep, ops>>

\* One finally block, innermost lock first: only an operation that returned
\* advances the generation.
Unwind(p) ==
  LET c == order[p][got[p]] IN
  /\ pc[p] = "unwind"
  /\ got[p] > 0
  /\ tail' = Released(c)
  /\ version' = IF outcome[p] = "fail" THEN version ELSE Bumped(c)
  /\ got' = [got EXCEPT ![p] = @ - 1]
  /\ UNCHANGED <<cleanupState, activities, tree, pc, kind, com, write, order,
                 outcome, sweep, ops>>

-----------------------------------------------------------------------------
(***************************************************************************)
(* Writes of the automation store                                          *)
(***************************************************************************)

\* create (k has no record yet), update and delete (dest = Absent): observe
\* the parent, then lock the observed and the wanted parent.
StartWrite(p, k, d) ==
  /\ \/ Fresh(k) /\ d # Absent /\ Start(p, "create")
     \/ owner[k] # Absent /\ Start(p, "move")
     \/ owner[k] # Absent /\ d = owner[k] /\ Start(p, "touch")
  /\ item' = [item EXCEPT ![p] = k]
  /\ from' = [from EXCEPT ![p] = owner[k]]
  /\ dest' = [dest EXCEPT ![p] = d]
  /\ AcquireAll(p, LockOrder(owner[k], d))
  /\ UNCHANGED <<version, cleanupState, activities, tree, com, outcome, sweep>>

\* The operation runs under its locks.  It writes only if the parent is still
\* the observed one; it may throw before anything is written.
WriteAutomation(p) ==
  /\ pc[p] = "write"
  /\ kind[p] \in Writes
  /\ \/ /\ owner[item[p]] = from[p]
        /\ owner' = [owner EXCEPT ![item[p]] = dest[p]]
        /\ outcome' = [outcome EXCEPT ![p] = "commit"]
     \/ /\ owner[item[p]] # from[p]
        /\ outcome' = [outcome EXCEPT ![p] =
                         IF owner[item[p]] = Absent THEN "commit" ELSE "retry"]
        /\ UNCHANGED owner
     \/ /\ outcome' = [outcome EXCEPT ![p] = "fail"]
        /\ UNCHANGED owner
  /\ Goto(p, "unwind")
  /\ UNCHANGED <<coord, session, conv, live, kind, com, write, order, got,
                 sweep, ops>>

\* The store call returns, or loops because the parent changed before commit.
ReturnWrite(p) ==
  /\ pc[p] = "unwind"
  /\ got[p] = 0
  /\ kind[p] \in Writes
  /\ \/ /\ outcome[p] = "retry"
        /\ Goto(p, "observe")
        /\ UNCHANGED <<kind, com, write, order, got, outcome, sweep>>
     \/ /\ outcome[p] # "retry"
        /\ Finish(p)
  /\ UNCHANGED <<coord, tree, ops>>

\* The next turn of the loop observes the parent again.
ObserveAgain(p) ==
  LET k == item[p]
      d == IF kind[p] = "touch" THEN owner[k] ELSE dest[p]
  IN
  /\ pc[p] = "observe"
  /\ \/ /\ owner[k] = Absent
        /\ Finish(p)
        /\ UNCHANGED tail
     \/ /\ owner[k] # Absent
        /\ from' = [from EXCEPT ![p] = owner[k]]
        /\ dest' = [dest EXCEPT ![p] = d]
        /\ outcome' = [outcome EXCEPT ![p] = "none"]
        /\ AcquireAll(p, LockOrder(owner[k], d))
        /\ UNCHANGED <<kind, com, item, sweep>>
  /\ UNCHANGED <<version, cleanupState, activities, tree, ops>>

-----------------------------------------------------------------------------
(***************************************************************************)
(* withCommanderRuntimeLaunch and the operations that run inside it        *)
(***************************************************************************)

StartLaunch(p, c) ==
  /\ session[c]
  /\ Start(p, "launch")
  /\ com' = [com EXCEPT ![p] = c]
  /\ AwaitLock(p, c, "admit")
  /\ UNCHANGED <<version, cleanupState, activities, tree, write, outcome, sweep>>

\* Admission: counted and committed to the generation under the lock, which is
\* then given back for the (slow) life of the launch.
Admit(p) ==
  LET c == com[p] IN
  /\ pc[p] = "admit"
  /\ IsHead(p, c)
  /\ tail' = Released(c)
  /\ \/ /\ Accepts(c)
        /\ activities' = [activities EXCEPT ![c] = @ + 1]
        /\ version' = Bumped(c)
        /\ Goto(p, "running")
        /\ UNCHANGED <<kind, com, write, order, got, outcome, sweep>>
     \/ /\ ~Accepts(c)
        /\ Finish(p)
        /\ UNCHANGED <<version, activities>>
  /\ UNCHANGED <<cleanupState, tree, ops>>

\* The provider may come up or not; a launch that got a runtime either records
\* it in the conversation store or fails with the runtime already started.
RunLaunch(p) ==
  LET c == com[p] IN
  /\ pc[p] = "running"
  /\ \/ /\ AwaitLock(p, c, "complete")
        /\ UNCHANGED live
     \/ /\ AwaitLock(p, c, "complete")
        /\ live' = [live EXCEPT ![c] = TRUE]
     \/ /\ AcquireAll(p, <<c>>)
        /\ live' = [live EXCEPT ![c] = TRUE]
  /\ UNCHANGED <<version, cleanupState, activities, session, conv, owner, kind,
                 com, write, outcome, sweep, ops>>

\* conversationStore.update marks the conversation active, or throws: before
\* it changes its memory, or after that because the file cannot be written.
ActivateConversation(p) ==
  /\ pc[p] = "write"
  /\ kind[p] = "launch"
  /\ \/ /\ conv' = [conv EXCEPT ![com[p]] = TRUE]
        /\ outcome' \in {[outcome EXCEPT ![p] = o] : o \in {"commit", "fail"}}
     \/ /\ outcome' = [outcome EXCEPT ![p] = "fail"]
        /\ UNCHANGED conv
  /\ Goto(p, "unwind")
  /\ UNCHANGED <<coord, session, live, owner, kind, com, write, order, got,
                 sweep, ops>>

ReturnLaunch(p) ==
  /\ pc[p] = "unwind"
  /\ got[p] = 0
  /\ kind[p] = "launch"
  /\ AwaitLock(p, com[p], "complete")
  /\ UNCHANGED <<version, cleanupState, activities, tree, kind, com, write,
                 outcome, sweep, ops>>

\* The activity lease is completed under the lock; the generation is not
\* advanced again.
CompleteActivity(p) ==
  LET c == com[p] IN
  /\ pc[p] = "complete"
  /\ IsHead(p, c)
  /\ activities' = [activities EXCEPT ![c] = IF @ > 0 THEN @ - 1 ELSE 0]
  /\ tail' = Released(c)
  /\ Finish(p)
  /\ UNCHANGED <<version, cleanupState, tree, ops>>

-----------------------------------------------------------------------------
(***************************************************************************)
(* DELETE /commanders/:id                                                  *)
(***************************************************************************)

StartDelete(p, c) ==
  /\ Start(p, "delete")
  /\ com' = [com EXCEPT ![p] = c]
  /\ attempt' = [attempt EXCEPT ![p] = 1]
  /\ Goto(p, "survey")
  /\ UNCHANGED <<coord, tree, write, order, got, outcome, seen, swept>>

\* The next turn of the route's bounded loop.
SurveyAgain(p) ==
  /\ attempt[p] < MaxAttempts
  /\ attempt' = [attempt EXCEPT ![p] = @ + 1]
  /\ seen' = [seen EXCEPT ![p] = 0]
  /\ swept' = [swept EXCEPT ![p] = {}]
  /\ order' = [order EXCEPT ![p] = <<>>]
  /\ outcome' = [outcome EXCEPT ![p] = "none"]
  /\ Goto(p, "survey")
  /\ UNCHANGED <<kind, com, write, got>>

\* continue, or the final 409.
NextAttempt(p) == SurveyAgain(p) \/ (attempt[p] >= MaxAttempts /\ Finish(p))

\* captureCommanderChildMutationVersion, in the same turn as what precedes it.
Capture(p) ==
  /\ seen' = [seen EXCEPT ![p] = version[com[p]]]
  /\ Goto(p, "sweep")

\* Refuse a missing commander or an active conversation with a live runtime;
\* archive what is left open, an idle conversation with a runtime included (a
\* write of the conversation store); then capture the generation.
Survey(p) ==
  LET c == com[p] IN
  /\ pc[p] = "survey"
  /\ \/ /\ ~session[c] \/ (conv[c] /\ live[c])
        /\ Finish(p)
        /\ UNCHANGED tail
     \/ /\ session[c] /\ conv[c]
        /\ AcquireAll(p, <<c>>)
        /\ UNCHANGED <<kind, com, write, outcome, sweep>>
     \/ /\ session[c] /\ ~conv[c]
        /\ Capture(p)
        /\ UNCHANGED <<tail, kind, com, write, order, got, outcome, swept, attempt>>
  /\ UNCHANGED <<version, cleanupState, activities, tree, ops>>

\* stopConversationSession: the record is archived and the runtime stopped.  A
\* write that fails leaves the runtime up, and the record archived in memory.
ArchiveConversation(p) ==
  /\ pc[p] = "write"
  /\ kind[p] = "delete"
  /\ \/ /\ conv' = [conv EXCEPT ![com[p]] = FALSE]
        /\ live' = [live EXCEPT ![com[p]] = FALSE]
        /\ outcome' = [outcome EXCEPT ![p] = "commit"]
     \/ /\ conv' \in {conv, [conv EXCEPT ![com[p]] = FALSE]}
        /\ outcome' = [outcome EXCEPT ![p] = "fail"]
        /\ UNCHANGED live
  /\ Goto(p, "unwind")
  /\ UNCHANGED <<coord, session, owner, kind, com, write, order, got, sweep, ops>>

ReturnArchive(p) ==
  /\ pc[p] = "unwind"
  /\ got[p] = 0
  /\ kind[p] = "delete"
  /\ \/ /\ outcome[p] = "fail"
        /\ Finish(p)
     \/ /\ outcome[p] # "fail"
        /\ Capture(p)
        /\ UNCHANGED <<kind, com, write, order, got, outcome, swept, attempt>>
  /\ UNCHANGED <<coord, tree, ops>>

\* The final observation, read after the generation was captured.
Sweep(p) ==
  LET c == com[p] IN
  /\ pc[p] = "sweep"
  /\ \/ /\ ~session[c]
        /\ Finish(p)
        /\ UNCHANGED tail
     \/ /\ session[c] /\ conv[c]
        /\ NextAttempt(p)
        /\ UNCHANGED tail
     \/ /\ session[c] /\ ~conv[c]
        /\ swept' = [swept EXCEPT ![p] = Children(c)]
        /\ AwaitLock(p, c, "reserve")
        /\ UNCHANGED <<kind, com, write, outcome, seen, attempt>>
  /\ UNCHANGED <<version, cleanupState, activities, tree, ops>>

\* reserveCommanderForDeletion turns the observation into a lease, which keeps
\* the lock, or returns null.
Reserve(p) ==
  LET c == com[p] IN
  /\ pc[p] = "reserve"
  /\ IsHead(p, c)
  /\ \/ /\ StillAsSeen(p, c)
        /\ cleanupState' = [cleanupState EXCEPT ![c] = "active"]
        /\ got' = [got EXCEPT ![p] = 1]
        /\ Goto(p, "leased")
        /\ UNCHANGED <<tail, kind, com, write, order, outcome, sweep>>
     \/ /\ ~StillAsSeen(p, c)
        /\ tail' = Released(c)
        /\ NextAttempt(p)
        /\ UNCHANGED cleanupState
  /\ UNCHANGED <<version, activities, tree, ops>>

\* deleteCommanderStateOwned, child by child; the nested store calls run under
\* the lease without queueing.
DeleteChild(p, k) ==
  /\ pc[p] \in {"leased", "rollback"}
  /\ k \in swept[p]
  /\ owner[k] = com[p]
  /\ owner' = [owner EXCEPT ![k] = Absent]
  /\ UNCHANGED <<coord, session, conv, live, pc, kind, com, write, order, got,
                 outcome, sweep, ops>>

\* The commander's record goes last.  The store drops it from memory before it
\* writes, so a failed write loses the record and still reports a failure.
DeleteSession(p) ==
  /\ pc[p] \in {"leased", "rollback"}
  /\ ChildrenGone(p)
  /\ pc[p] = "rollback" => ~conv[com[p]]
  /\ session' = [session EXCEPT ![com[p]] = FALSE]
  /\ outcome' \in {[outcome EXCEPT ![p] = o] : o \in {"deleted", "kept"}}
  /\ Goto(p, "closing")
  /\ UNCHANGED <<coord, conv, live, owner, kind, com, write, order, got, sweep, ops>>

\* A step of deleteCommanderStateOwned throws: what is left stays.
DeletionFails(p) ==
  /\ pc[p] \in {"leased", "rollback"}
  /\ outcome' = [outcome EXCEPT ![p] = "kept"]
  /\ Goto(p, "closing")
  /\ UNCHANGED <<coord, tree, kind, com, write, order, got, sweep, ops>>

\* lease.complete: the tombstone is set, or writes are let in again.  A
\* provisioning that leaves the commander advances the generation.
CloseLease(p) ==
  LET c == com[p] IN
  /\ pc[p] = "closing"
  /\ cleanupState' = [cleanupState EXCEPT ![c] =
                        IF outcome[p] = "deleted" THEN "deleted" ELSE "idle"]
  /\ version' = IF kind[p] = "provision" /\ outcome[p] # "deleted"
                  THEN Bumped(c) ELSE version
  /\ tail' = Released(c)
  /\ Finish(p)
  /\ UNCHANGED <<activities, tree, ops>>

-----------------------------------------------------------------------------
(***************************************************************************)
(* Provisioning a commander                                                *)
(***************************************************************************)

\* The id is a random UUID: no write, lock or request has named it before.
Unused(c) ==
  /\ version[c] = 0 /\ tail[c] = <<>> /\ ~session[c]
  /\ \A q \in Proc : com[q] # c /\ dest[q] # c

StartProvision(p, c) ==
  /\ Unused(c)
  /\ Start(p, "provision")
  /\ com' = [com EXCEPT ![p] = c]
  /\ AwaitLock(p, c, "publish")
  /\ UNCHANGED <<version, cleanupState, activities, tree, write, outcome, sweep>>

Publish(p) ==
  LET c == com[p] IN
  /\ pc[p] = "publish"
  /\ IsHead(p, c)
  /\ \/ /\ Accepts(c) /\ ~session[c]
        /\ cleanupState' = [cleanupState EXCEPT ![c] = "active"]
        /\ got' = [got EXCEPT ![p] = 1]
        /\ Goto(p, "provisioning")
        /\ UNCHANGED <<tail, kind, com, write, order, outcome, sweep>>
     \/ /\ ~Accepts(c) \/ session[c]
        /\ tail' = Released(c)
        /\ Finish(p)
        /\ UNCHANGED cleanupState
  /\ UNCHANGED <<version, activities, tree, ops>>

\* The record, its default conversation and the seeded automations, in order.
CreateSession(p) ==
  /\ pc[p] = "provisioning"
  /\ ~session[com[p]]
  /\ session' = [session EXCEPT ![com[p]] = TRUE]
  /\ UNCHANGED <<coord, conv, live, owner, pc, kind, com, write, order, got,
                 outcome, sweep, ops>>

CreateConversation(p) ==
  /\ pc[p] = "provisioning"
  /\ session[com[p]] /\ ~conv[com[p]]
  /\ conv' = [conv EXCEPT ![com[p]] = TRUE]
  /\ UNCHANGED <<coord, session, live, owner, pc, kind, com, write, order, got,
                 outcome, sweep, ops>>

SeedAutomation(p, k) ==
  /\ pc[p] = "provisioning"
  /\ session[com[p]] /\ conv[com[p]]
  /\ Fresh(k)
  /\ owner' = [owner EXCEPT ![k] = com[p]]
  /\ UNCHANGED <<coord, session, conv, live, pc, kind, com, write, order, got,
                 outcome, sweep, ops>>

EndProvision(p) ==
  /\ pc[p] = "provisioning"
  /\ \/ /\ session[com[p]] /\ conv[com[p]]
        /\ outcome' = [outcome EXCEPT ![p] = "kept"]
        /\ Goto(p, "closing")
        /\ UNCHANGED swept
     \/ /\ swept' = [swept EXCEPT ![p] = Children(com[p])]
        /\ Goto(p, "rollback")
        /\ UNCHANGED outcome
  /\ UNCHANGED <<coord, tree, kind, com, write, order, got, seen, attempt, ops>>

\* The rollback deletes the conversations too, unlike a DELETE, which archives
\* them beforehand.
RollbackConversation(p) ==
  /\ pc[p] = "rollback"
  /\ conv[com[p]]
  /\ conv' = [conv EXCEPT ![com[p]] = FALSE]
  /\ UNCHANGED <<coord, session, live, owner, pc, kind, com, write, order, got,
                 outcome, sweep, ops>>

-----------------------------------------------------------------------------
Step(p) ==
  \/ GrantLock(p) \/ RefuseLock(p) \/ Unwind(p)
  \/ WriteAutomation(p) \/ ReturnWrite(p) \/ ObserveAgain(p)
  \/ Admit(p) \/ RunLaunch(p) \/ ActivateConversation(p) \/ ReturnLaunch(p)
  \/ CompleteActivity(p)
  \/ Survey(p) \/ ArchiveConversation(p) \/ ReturnArchive(p) \/ Sweep(p)
  \/ Reserve(p) \/ DeleteSession(p) \/ DeletionFails(p) \/ CloseLease(p)
  \/ Publish(p) \/ CreateSession(p) \/ CreateConversation(p) \/ EndProvision(p)
  \/ RollbackConversation(p)
  \/ \E k \in Automation : DeleteChild(p, k) \/ SeedAutomation(p, k)

Request(p) ==
  \/ \E k \in Automation, d \in Parent : StartWrite(p, k, d)
  \/ \E c \in Commander : StartLaunch(p, c) \/ StartDelete(p, c) \/ StartProvision(p, c)

Next == \E p \in Proc : Request(p) \/ Step(p)

Spec == Init /\ [][Next]_vars

\* A request whose await is resolved runs on; the event loop starves nobody.
FairSpec == Spec /\ \A p \in Proc : WF_vars(Step(p))

-----------------------------------------------------------------------------
(***************************************************************************)
(* Properties                                                              *)
(***************************************************************************)

CoordTypes ==
  /\ tail \in [Commander -> Seq(Proc)]
  /\ version \in [Commander -> Nat]
  /\ cleanupState \in [Commander -> {"idle", "active", "deleted"}]
  /\ activities \in [Commander -> Nat]

TreeTypes ==
  /\ session \in [Commander -> BOOLEAN]
  /\ conv \in [Commander -> BOOLEAN]
  /\ live \in [Commander -> BOOLEAN]
  /\ owner \in [Automation -> Parent]

RequestTypes ==
  /\ pc \in [Proc -> Pcs]
  /\ kind \in [Proc -> Kinds]
  /\ com \in [Proc -> Commander \cup {NoParent}]
  /\ item \in [Proc -> Automation \cup {Absent}]
  /\ from \in [Proc -> Parent]
  /\ dest \in [Proc -> Parent]
  /\ order \in [Proc -> Seq(Commander)]
  /\ got \in [Proc -> Nat]
  /\ outcome \in [Proc -> Outcomes]
  /\ seen \in [Proc -> Nat]
  /\ swept \in [Proc -> SUBSET Automation]
  /\ attempt \in [Proc -> Nat]
  /\ ops \in Nat

\* The types of the coordinator's map, of the tree and of the requests' locals.
TypeOK == CoordTypes /\ TreeTypes /\ RequestTypes

Holds(p, c) == \E i \in 1..got[p] : order[p][i] = c

\* A commander under a lease is closed to everyone else: no other request holds
\* its lock and no runtime activity is admitted, so nothing can be created
\* below it between the deletion's checks and its tombstone.
LeaseIsExclusive ==
  \A c \in Commander :
    cleanupState[c] = "active" =>
      \E p \in Proc :
        /\ com[p] = c /\ pc[p] \in LeasePcs
        /\ activities[c] = 0
        /\ \A q \in Proc : Holds(q, c) => q = p

\* Once the tombstone of a commander is set, nothing is left below it: no
\* automation names it as parent, no conversation is open, its record is gone
\* and no launch is admitted.
TombstoneHasNoChildren ==
  \A c \in Commander :
    cleanupState[c] = "deleted" =>
      ~session[c] /\ ~conv[c] /\ activities[c] = 0 /\ Children(c) = {}

\* No step removes a commander's record while something below it remains: a
\* crash between any two steps of a deletion leaves an anchor to retry from.
AnchorGoesLast ==
  [][\A c \in Commander :
       session[c] /\ ~session'[c] => Children(c) = {} /\ ~conv[c]]_vars

\* A tombstone is never lifted in the life of the process.
TombstoneIsFinal ==
  [][\A c \in Commander :
       cleanupState[c] = "deleted" =>
         /\ cleanupState'[c] = "deleted"
         /\ Children(c)' \subseteq Children(c)
         /\ ~session'[c]]_vars

\* Every request ends, whichever locks the others want: sorted acquisition and
\* the leases leave no circular wait, and the retry loops are bounded by the
\* writes that cause them.
RequestsEnd == \A p \in Proc : pc[p] # "idle" ~> pc[p] = "idle"

\* What the comment at the launch of a conversation promises: the generation is
\* advanced before the error of a launch surfaces, so that no deletion commits
\* around an uncertain live runtime.
NoDeletionAroundLiveRuntime ==
  \A c \in Commander : cleanupState[c] = "deleted" => ~live[c]
=============================================================================
