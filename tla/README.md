# Verification of the Herd server

TLA+ specifications of the concurrent core of Herd (`src/apps/herd`), a server that runs
AI agent sessions for "commanders", queues messages for them, asks people to approve what
agents want to do, and runs automations. The server is one Node.js process: a request
runs alone between two `await`s, and everything below is about what happens when other
requests, timers and provider events run at those awaits, and when the process stops.

Paths are relative to `src/apps/herd/modules/` unless they begin with `src/`.

## 1. The system

| part | state it keeps | operations | talks to |
| --- | --- | --- | --- |
| **Commander lifecycle** (`commanders/child-mutation-coordinator.ts`, `commander-deletion.ts`, `package-lifecycle-state.ts`, `routes/register-core.ts`, `routes/register-remote.ts`, `store.ts`, `conversation-store.ts`) | per commander: FIFO promise lock, mutation version, cleanup state (idle / active / deleted), count of runtime activities; the records of the commander, its conversations and automations | locked writes below one or two commanders, admission and completion of runtime launches, `DELETE /commanders/:id`, provisioning with rollback | every store with a parent commander; the conversation runtime |
| **Session message queue** (`agents/message-queue.ts`, `agents/session/queue-runtime.ts`, `auto-rotation.ts`, `stream-events.ts`, `agents/commander-interface.ts`, `agents/routes/session-control-routes.ts`, `agents/adapters/claude/session.ts`) | `sessions`: name to runtime; per runtime the backlog, the current message, the drain with its pending flag, the retry timer, the turn flag; per name the rotation under way | queue, send, reorder, remove, clear; drain; turn start and end; rotation; replacement | provider processes through a pipe, HTTP and websocket clients |
| **Approvals** (`policies/pending-store.ts`, `action-policy-gate.ts`, `routes.ts`, `approvals-routes.ts`; `agents/claude-approval-hook.mjs`) | pending requests and resolutions in memory and in a snapshot file, waiters, expiry timers, a queue of mutations, the audit log | enqueue, wait, poll, decide, time out, mark delivered, reload after a restart | provider adapters, the approval hook, the approvals page |
| **Durable files** (`durable-file.ts`, `json-file.ts`, `src/apps/herd/server/store-process-lock.ts`) | files, lock files with the pid, host and token of the holder | acquire, break a stale lock, release; write, rename, fsync; per-path mutation queue | every store; other processes and hosts |
| **Automatic channel replies** (`commanders/routes/conversation-runtime.ts`, `channel-dispatchers.ts`, `conversation-store.ts`) | in the record of a conversation: an intent per message and one delivery slot; in memory: the forwarder of the session, delivery ids in flight, reconciliation timers | record an intent, hand the message over, claim, post or stream, settle; reconcile with the transcript; stop | sessions, their events and transcripts, chat services |
| **Channels** (`commanders/routes/register-channels.ts`, `commanders/channel-idempotency-ledger.ts`, `channels/*`) | deliveries in flight; one file per inbound message seen; bindings of chat surfaces to conversations | look up, reserve, deliver, claim, expire, prune; bind | chat services, conversations, approvals (mail) |
| **Automations** (`automations/scheduler.ts`, `executor.ts`, `store.ts`, `quest-event-bus.ts`) | records with status and run counts; cron jobs; runs in flight | create, update, delete, tick, run, record history | lifecycle locks, agent sessions |
| **Heartbeats** (`commanders/heartbeat.ts`) | one interval loop per conversation | start, stop, tick | conversations |
| **Machine daemons** (`agents/daemon/*`, `src/packages/herd-cli/src/daemon.ts`) | server: the connection of each machine and an entry per remote process; daemon: its children and the messages it could not send | attach, supersede, detach, spawn, kill, output, exit, buffer, flush, reconnect | each other over a websocket; restored sessions |
| **Claude credentials** (`agents/claude-credential-coordinator.ts`, `provider-auth.ts`) | pools of credentials and their quota state | select, recover after an error | sessions |
| **Session persistence** (`agents/session/persistence.ts`, `sqlite-runtime-store.ts`, `state.ts`) | snapshots of sessions | save, restore at start | session queue |
| stores of quests, costs, names, secrets, organisation, operators, settings | records in JSON files | read, write under a mutation queue | durable files |
| telemetry, realtime, workspace, evaluation, user interface, CLI, packages, installer | views and clients | | HTTP |

### What is hard about it, and what makes each part correct

* *Lifecycle*: a deletion takes many awaits while launches, writes and moves of
  automations go on. Correct: nobody writes below a commander that a deletion has leased;
  a deleted commander has nothing below it, for ever; its record goes last, so that a
  deletion that fails half way can be repeated; locks over two commanders never deadlock.
* *Queue*: drains, retries, turn ends, rotations and settings changes all clear and set
  the same few flags. Correct: messages leave in priority order, each once; an accepted
  message is neither lost nor stranded; two replacements of one runtime do not overlap.
* *Approvals*: users, timers, polls and waiters race, some read the memory before it is
  saved, and the server may stop anywhere. Correct: no action without an approval or an
  agreed timeout, unless its hook fails and is told to fail open; one decision per request;
  an acknowledged decision survives; every request ends.
* *Channel replies*: the end of a turn, its stream and reconciliation timers all want to
  post one reply, through one slot, while sessions stop and chat services redeliver.
  Correct: one post per message, what counts as delivered was posted, what ended is
  settled, and a message shows the reply it was posted for.
* *Durable files*: processes judge and remove a lock file in separate steps, each of which
  may fail, die between them, and pids come back. Correct: one holder; the lock of a dead
  one does not block.
* *Inbound messages*: a channel repeats a message it is not sure of, while the first
  delivery runs, after it failed, or after a restart. Correct: a message that was
  acknowledged was delivered, or taken by a deep-thinking operation; it is not delivered
  again while anything remembers it.
* *Automations*: scheduler and executor read the record at one time and write it at
  another, so the job, the status and the runs drift apart, and a client may move the limit
  under a run. Correct: one run at a time and no more than the limit allows; what may run
  has its job; an acknowledged status stands.
* *Machine daemons*: the connection breaks without either end knowing, messages wait in a
  buffer, both ends restart, and a process may write after its end was reported. Correct: a
  message of a process is heard at most once and in order, or known to be lost; an entry
  stands for a process; the end of a process arrives.
* *Heartbeats*: the callback of a replaced loop acts on its successor.

`PROJECT.json` lists these hazards with their lines, and which property covers which.
The repository has no tests of its own, so the reference is the code and its comments.

## 2. Modules

| module | models | proofs |
| --- | --- | --- |
| `CommanderLifecycle` | the coordinator, writes of the automation store, launches, deletion, provisioning | |
| `CommanderLifecycleInv` | the inductive invariant `Inv` | |
| `CommanderLifecycleProofs` | | lemmas: types, kinds, locks, leases, generations, observations, deletion; the theorems |
| `SessionQueue` | the queue of a session and the runtimes behind its name | |
| `SessionQueueProofs` | | invariants, lemmas on sequences and moves, theorems |
| `MessageLine` | abstract specification: what the queue promises whatever runtime is behind it | |
| `Approvals` | the approval coordinator, requesters, users, restarts | |
| `ApprovalsInv` | its inductive invariant `Inv` | |
| `ApprovalsProofs` | | lemmas on the queue, one per part of `Inv`, the theorems |
| `ChannelReplies` | intents, the delivery slot, forwarder, streams, reconciliation of one conversation | |
| `ChannelRepliesProofs` | | invariant, lemmas, theorems |
| `ChannelInbox` | the requests that carry one inbound message, the ledger, restarts | |
| `ChannelInboxProofs` | | invariant, lemmas, theorems |
| `Automations` | record, file, job and runs of one automation, scheduler, executor, store | |
| `AutomationsProofs` | | invariant, lemmas, theorems |
| `DaemonLink` | both ends of the link to one machine | |
| `DaemonLinkProofs` | | invariant, lemmas, theorems |
| `FileLock` | processes of several hosts at one lock file | |
| `FileLockProofs` | | invariant, lemmas, theorems |
| `MC...` | the finite instances TLC checks | |

### CommanderLifecycle

An action is what a request does between two awaits, so `pc[p]` names the await where
request `p` is suspended.

* `tail[c]` is the promise chain of `acquireMutationLock`, its head holds the lock.
  `version`, `cleanupState`, `activities` are the fields of `CommanderChildMutationState`.
* `owner[k]` is `parentCommanderId` of automation `k` (`Absent`: no record). `conv[c]`
  says that a conversation is not archived, so it stands for the states idle and active;
  whether a deletion refuses because it is active with a runtime or archives it is a
  choice of `Survey`. `live[c]` says that a provider process runs. `conv` is what the memory
  of the server says: a write changes it before the file (`conversation-store.ts:774-775`),
  so one that fails may have opened (`ActivateConversation`) or archived
  (`ArchiveConversation`) the conversation nonetheless.
* `StartWrite`/`WriteAutomation`/`ReturnWrite`/`ObserveAgain` are the store's loop: observe
  the parent, lock old and new parent in key order, write if the parent is still the one
  observed, else retry. `GrantLock`, `RefuseLock` and `Unwind` are
  `withCommanderMutations`; the version moves in the `finally` of a successful operation.
* `StartLaunch` to `CompleteActivity` are `withCommanderRuntimeLaunch`: admission under
  the lock, the launch outside it, completion under the lock.
* `StartDelete` to `CloseLease` are `DELETE /:id`: archive conversations, capture the
  version, list what is left, turn the observation into a lease if nothing moved, remove
  children, then the record, then set the tombstone. The three reads after the capture are
  one action (`Sweep`): each of them only narrows what the reservation accepts.
  The calls that are reentrant through the lease token are the lease holder's own steps.
* `Publish` to `RollbackConversation` are the provisioning of a new commander.

### SessionQueue and MessageLine

Continuations of resolved promises run before any other event, so a drain or a send that
waits for nothing real runs before the next event: actions of events carry the guard
`Quiet`. Runtimes are numbered in the order in which they get the session's name, and
`slot` is the routable one. `drain[s]` is the promise and the pending flag of
`scheduleQueuedMessageDrain`; its `at` tells whether the drain is scheduled, waits for a
rotation somebody registered ("waiting"), runs one itself ("rotating"), or has resumed.
`Dispatch` is the send of the claude adapter (a pipe that may be full), `TurnEnd` is the
turn end of `appendStreamEvent` with the drain and the rotation it asks for. `Rotated` is
the second half of `rotateStreamSessionIfNeeded`, on the runtime that was captured before
its await. `Swap` is `replaceCommanderSession` after its await. `HoldSession` and
`QueueHeld` are the two halves of the message route around its workspace lookup.

`MessageLine` keeps only the line of waiting messages and the set of messages handed over.
`SessionQueue` implements it with `waiting` mapped to the backlog behind the name.

### Approvals

`entry` is the map in memory and `disk` the snapshot; a mutation starts (`StartEnqueue`,
`Decide`, ...), saves (`Save`) and logs (`LogResolved`, ...), and polls read `entry` in
between. Requests in `Waiter` are those of `enforceAndWait`, the others those of the
approval hook. When a call of the hook fails, or its deadline passes (`Poll`, `Respond`,
`GiveUp`, `Crash`), it refuses the action ("failed"), or lets it go ahead when
`HERD_APPROVAL_FAIL_OPEN` is 1 for it ("open", `Failed`): `FailOpen` is the set of the
requests whose hook has that switch. `Crash` also stands for a failing write: the promise it rejects is
handled by nobody, and the server exits on an unhandled rejection
(`src/apps/herd/server/index.ts`). `SaveFails` is the one caller that catches it.

### ChannelReplies

`rec` is the conversation in the memory of `ConversationStore`, `disk` its file: an update
changes `rec` when it gets the lock of the store (`Free`) and the lock is free when the
file is written (`Saves`), so every update is two actions. Of an intent the model keeps
the status and the delivery id (`rec.ref`), of the delivery slot its id and status. A
delivery is named after its message and after how it came to be: by a claim or, when an
intent fails without one, by the record of the failure.

* `ingest[s]` follows `deliverConversationMessage` for message `s`: record the intent, arm
  the forwarder, hand over, or disarm and withdraw (and stop a session that was started
  for it). Two calls for one message are one
  (`inFlightConversationDeliveries`); a later one finds the message in the transcript
  (`Known`) and only makes sure of the intent.
* `forwarder` is the entry of `channelReplyForwarders`. `TurnStarts`, `Text` and `TurnEnds`
  are what it does on events of the session, `begin[b]` is a call of
  `beginAutomaticChannelReplyStream`, and `Fulfils` is its continuation, with those of who
  awaits it. A forwarder that was removed meanwhile is not the one `forwarder` shows
  (`attached`).
* `job[w]` is what settles a reply: for the turn of `w`, for the removed forwarder `w`, or
  on behalf of the reconciliation run `w`. Its `pc` walks through
  `dispatchAutomaticChannelReply`, `finalizeAutomaticChannelReplyStream`,
  `failAutomaticChannelReplyStream` and `recordChannelReplyIntentFailed`.
* `todo[r]` is what a reconciliation run has read and still acts on. The delays of the
  timers are dropped: `due` counts those set after a message, `retry` is the one of the
  conversation.
* `shown[s]` and `draft[s]` are the chat service: what the message posted for `s` shows,
  and whether its stream can still be edited. `turn[s]` is the transcript; a turn that
  loses its session is "cut" and has no end.
* `Crash` keeps the files. A session is restored with its queue or is not.

### ChannelInbox

An action is what `POST /channel-message` (`commanders/routes/register-channels.ts`) does
between two awaits on the disk or on the delivery; `pc[r]` is the await and the round, as
a request that waited for another looks the message up a second time. `inFlight` is
`inFlightChannelMessageDeliveries`, `on[r]` the delivery `r` waits for. `Ask`, `ReadEntry`
and `RemoveExpired` are the `get` of the ledger, `Claim`, `Create`, `Write` and `Exists`
its `claimNormalized`, `PruneReads` and `PruneRemoves` its prune, which other messages
start (`PruneIsDue`). `entry` is the file: created exclusively, so "unreadable" until its
content is written. `live` and `tail` are what `conversationAlreadyHasClientSendId` sees.
`Crash` forgets `live` (the transcript need not have been written) and keeps the file.
A message that asks for deep thinking (`deep`) is not handed over by its delivery: an
operation in memory takes it (`Taken`), asks workers about it, and hands it over with what
they say (`HandOver`), or drops it (`Drop`; a stop drops it as well). The request does not
know: it claims the message and is answered. `Check` and `Deliver` are the two halves of
`deliverConversationMessage` around its awaits, in which an operation may hand the message
over (`overtaken`).
The branch of `claimNormalized` that replaces an expired entry has no action: whoever has
the reservation found no entry, and nobody else creates one (a conjunct of `TypeOK`).

### Automations

`rec` is the record in memory, `disk` its file, `job` the cron job of `activeJobs`. Every
mutation of the store is asked for (`want`), enters `withMutationLock` (`BeginWrite`), and
reaches the file, then the memory (`CommitWrite`) or fails (`FailWrite`); `Refuse` is a
missing record or a commander being deleted. `JobAfter` is what the scheduler does with
the job right after its write; the executor writes past it. A run goes through `Execute`,
`SessionEnds` and `RunGoesOn`; `seen` is the status it read at its start and writes back
when it fails. `Tick`, `RunListed` and `RunAutomation` are what starts one; a quest event
lists the automations once (`QuestCompleted`) and runs them one after the other, whatever
they have become. The limit is a field of the record (`limit`, 0 for none), which `Update`
may set, lift or lower. History variables say what a client was told (`said`) and why a
property may not hold: a status written back (`undone`), a job lost to a deletion that
failed (`jobless`), a limit that was reached (`reached`), and how many runs a lowered limit
leaves (`allowed`: those made by then and the one in progress).

### DaemonLink

`entry` is the process map of `MachineDaemonRegistry`, `srv` its connection, `ws` and
`buffer` are `activeWs` and `bufferedClientMessages` of the daemon
(`src/packages/herd-cli/src/daemon.ts`), `up` and `down` what is under way. A connection
that breaks is "stale" for one end and "dead" for the other until each notices. `Connect`
is the connection with the upgrade on the server, which waits for the restored sessions
(`ready`); `HelloDone` is the hello with the flush of the buffer, which comes after the
health of the providers is known; when a probe throws, neither is done, and what waits
stays until the next connection (`Mute`). `ChildEnds` reports the end of a process group;
the pipes stay open, so output may follow it (`ChildOutput` of a child that has "exited",
messages of type "late"). `pairing` is valid until it expires (`Expire`) or is revoked
(`Disconnect`); both refuse the next connection only, except that a revocation closes the
present one. `ServerStops`/`Restore` and `DaemonStops` are the restarts. The history
variables name each way a message can fail to arrive (`lost`, `unknown`), pass another (`overtook`), or an entry can stand for nothing (`phantom`).

### FileLock

`Acquire` to `Remove` are the steps of `acquireFileLock` and `removeLockIfOwned`, one call
of the file system each; `Judge` and `Age` are `shouldBreakLock`. Every call may fail: a
read that fails makes any lock an invalid one (`Judge`), a lock that cannot be removed stays
and ends the attempt (`Break`), as do all other errors ("failed"). `options` are those of the callers:
`withFileMutationLock`, and the lock of the data directory
(`src/apps/herd/server/store-process-lock.ts`) without and with a checked volume, where a
lock of another host may be taken over (`handoff`). A process has a host and a pid; `Start` lets a
later process have the pid of a dead one. `GrowOld` is the hour after which a lock that
cannot be read counts as abandoned; it is counted from the acquisition, so the lock of a
process that holds it grows old as well.

## 3. What the runs check

| run | properties | result |
| --- | --- | --- |
| `lifecycle_safety` | `TypeOK`, `LeaseIsExclusive`, `TombstoneHasNoChildren`, `AnchorGoesLast`, `TombstoneIsFinal` | hold, 1.7 million states |
| `lifecycle_liveness` | `RequestsEnd` | holds, 360 thousand states |
| `lifecycle_orphan` | `NoDeletionAroundLiveRuntime` | violated, see 5 |
| `queue_safety` | `TypeOK`, `NoLostWakeup`, `OneRotation`, `KeptUnlessHeld`, `ImplementsLine` | hold, 2.6 million states |
| `queue_liveness` | `AcceptedIsHanded` | holds, 32 thousand states |
| `queue_stale_rotation` | `AcceptedIsKept` | violated, see 5 |
| `approvals` | `TypeOK`, `AllowedIsDecided`, `AckedIsSaved`, `HistoryIsSingle`, `AnswersAgree`, `PendingIsTimed`, `Answered` | hold, 530 thousand states |
| `channel_replies` | `TypeOK`, `StartedOnce`, `DeliveredIsPosted`, `HandOverIsRecorded`, `EndedSettles` | hold, 780 thousand states |
| `channel_inbox` | `TypeOK`, `AcceptedIsDelivered`, `NotTwice`, `RequestsEnd` | hold, 230 thousand states |
| `automations` | `RunLimit`, `ActiveHasJob`, `AcknowledgedStands`, `StaleJobGoes` | hold, 1.2 million states |
| `daemon_link` | `TypeOK`, `HeardOnceInOrder`, `Accounted`, `EntryIsLive`, `EndArrives` | hold, 1.0 million states |
| `file_lock` | `TypeOK`, `Exclusive`, `Recovers` | hold, 250 thousand states |

Each property has a mutant in `PROJECT.json`: a definition of the model replaced by a
plausible bug (the operators marked "Deviation from" in the modules) breaks it.

### Bounds and why they are enough

* *Lifecycle*: three requests, four starts, one commander, one automation, two sweeps per
  deletion. Three requests are a deletion, what moves under its feet, and one that comes
  after or rolls back; the fourth start lets a request come after a tombstone. Locks over
  two commanders matter for deadlock only, which the liveness run checks with two
  commanders and two automations. The theorems of section 4 have no bound.
* *Queue*: limit 2 and four messages of two priorities fill the backlog, reorder it and
  leave one message to be refused; three runtimes allow two changes of the runtime. A
  session either rotates or is replaced (`Modes`), because together they lose messages
  (`queue_stale_rotation`).
* *Approvals*: one requester that waits and one that polls, two user decisions (so that
  they can oppose each other or meet a timer), one restart at any point. The hook of the one
  that polls fails open, so that its failures meet every other way to go ahead; the theorems
  allow any set of such hooks. Requests meet
  only in the mutation queue, which serialises them.
* *Channel replies*: two messages, so that one reply can meet the slot, the stream or the
  forwarder of the other; one reconciliation run, one removed forwarder and one stream
  being begun at a time, next to the two turns that settle their own replies. `MaxBreaks` =
  2 allows two of: a refused hand-over, a stop, a crash. `MaxEdited` = 1: on a service with
  edits the run has one message, because with two a reply may edit the post of the other
  (section 5); on a service without edits it has two.
* *Inbound messages*: three requests are one that delivers, one that waits for it, and one
  that comes after or reads the ledger before it. Two restarts let both the memory and a
  half-written entry be lost. The message asks for deep thinking or does not. Other
  messages matter through the prune only.
* *Automations*: two clients, so that a deletion meets an update: one pauses and resumes, the
  other changes the trigger and the limit (`Asked`), and both delete; two runs at once are
  possible in the state, so that the second one is excluded and not absent; limits of none,
  1 and 2 and two runs (`RunBound`) let a limit be reached, lifted, and lowered below the
  count or under a run. Restarts and failing writes are not bounded.
* *Daemon link*: one process, as processes share only the buffer and the connection, and the
  theorems are about any number of them; three output messages, before or after the end,
  overflow a buffer of two; three connections are one that breaks twice; two stops are one
  of each end, or two of one.
* *File lock*: three processes of one host, the third with the pid of the first, and one of
  another host: one holds, two judge, one comes from elsewhere. Every process starts once,
  so a restart is another process.
* Deadlock is not checked: all systems here may come to rest, and the liveness properties
  say what must have happened by then.

### Fairness

* *Lifecycle*: weak fairness of each started request. The event loop runs every
  continuation; provider launches and file operations are assumed to return. New requests
  are not assumed.
* *Queue*: weak fairness of promise continuations, strong fairness of timers, of the
  pipe, of the provider reading its input and ending its turns, and of rotations ending
  one way or the other. Strong, because an event has to wait for the continuations
  (`Quiet`), which may interrupt it again and again without preventing it for ever.
* *Approvals*: writes end, time passes, timers fire, hooks poll and responses are sent.
  That a user decides, or that a hook gives up, is not assumed.
* *Channel replies*: weak fairness of deliveries, of streams being begun, of what settles
  replies and of reconciliation runs. These are continuations, writes in the first-come
  order of the lock of the store, timers, and calls of a chat service that answers or
  fails. Nothing is assumed of messages, turns, stops and crashes.
* *Inbound messages*: weak fairness of the steps of a request and of the prune: the disk
  answers and a delivery ends. Arrival, expiry, restarts and the end of a deep-thinking
  operation are not assumed.
* *Automations*: weak fairness of the store (its lock is a queue, the file system answers),
  strong fairness of `Tick`: cron fires a job again and again, also when updates take the
  job away between two ticks. That a session ends is not assumed.
* *Daemon link*: weak fairness of what the sockets deliver, of noticing a dead peer on the
  daemon (it writes heartbeats, which a dead connection does not take for ever), of connecting
  again (a timer without end) while the pairing is valid, of hello, and of a restart ending.
  The last of `MaxConns` connections does not break. Children need not end, a pairing need
  not expire. That a hello succeeds is not assumed: `EndArrives` says of the behaviours in
  which what waits does not wait for ever on a connection whose hello has failed (`Mute`)
  that every end is heard or lost, while the pairing is valid.
* *File lock*: weak fairness of the steps of a call that has begun, for each process.

## 4. What is proved

`CommanderLifecycleProofs` proves, for any number of requests, commanders, automations,
operations and attempts:

| theorem | statement |
| --- | --- |
| `InvCorrect` | `Spec => []Inv` |
| `TypeCorrect` | `Spec => []TypeOK` |
| `LeaseCorrect` | `Spec => []LeaseIsExclusive` |
| `TombstoneCorrect` | `Spec => []TombstoneHasNoChildren` |
| `AnchorCorrect` | `Spec => AnchorGoesLast` |
| `TombstoneFinalCorrect` | `Spec => TombstoneIsFinal` |

The only assumption is `LifecycleAssumption` on the constants: commander keys are
numbers (they stand for the order of keys), the two markers are not keys, and the bounds
are naturals. TLC evaluates it in every lifecycle run.

The argument. That a deleted commander has no children is not inductive: the deletion
listed the children long before it set the tombstone. `Inv` adds what carries the listing
over the awaits:

1. `KindInv`, `OrderInv`, `HeadInv`: what a request at each await can be, which locks it
   waits for and holds, and that a held lock is held by the head of its queue, so by one.
   `QueueInv`: a queue is those who wait for the lock or hold it, each once. `ActivityInv`:
   the count of activities is that of the launches admitted and not completed.
2. `AcceptInv`, `LeaseInv`: a write that holds a lock found the commander open, and the
   cleanup state is "active" exactly while somebody holds a lease, with no activity
   admitted. With `HeadInv` this gives exclusion.
3. `FreshInv`: the id of a commander being provisioned is known to nobody else.
4. `ObservationInv`: as long as the version a deletion captured is the present one, what
   it listed covers what is there, or a write that has changed it still holds the lock
   and is about to move the version, or a provisioning is under way, or a launch that has
   opened a conversation is met (`Met`): it completes behind the deletion in the queue, or
   has not asked for the lock yet, so it is still counted when the deletion reserves and is
   refused. This is the heart: the reservation takes the lock, so at that moment nobody else
   can be about to move it.
5. `DeletionInv`: under the lease the listing stays complete, and a lease that closes as
   deleted has removed everything.

Each part has one lemma that says every step preserves it; lemmas about helper operators
(`LockOrderFacts`, `FinishType`, `AcquireOrder`, ...) and frame lemmas (what a step of one
request leaves alone in another) are stated once. `InvStep` puts the parts together.

`ApprovalsProofs` proves, for any number of requests, decisions and crashes, every safety
property the run `approvals` checks:

| theorem | statement |
| --- | --- |
| `InvCorrect`, `TypeCorrect` | `Spec => []Inv`, `Spec => []TypeOK` |
| `AllowedCorrect` | `TimerFits` implies `Spec => []AllowedIsDecided` |
| `AckedCorrect` | `Spec => []AckedIsSaved` |
| `HistoryCorrect` | `Spec => []HistoryIsSingle` |
| `AnswersCorrect` | `Spec => []AnswersAgree` |
| `TimedCorrect` | `Spec => []PendingIsTimed` |

The assumption `ApprovalAssumption` says what the settings can be, and that only hooks fail
open. `TimerFits` is needed:
a timeout that no timer can count fires at once (section 5).

The argument. That a request is decided once depends on the file across a crash, on the
memory between two crashes, and on the queue while a decision is saved. `Inv` says of each
how it relates to the others:

1. `ClientInv`, `JobInv`: a mutation in the queue belongs to what its requester does, and
   a requester enqueues and waits once, so nothing becomes pending twice.
2. `PhaseInv`: the file differs from the memory by the request being saved, or by a new
   one whose saving failed; while a mutation is logged they are equal.
3. `NewInv`, `DecidedInv`: a request is unknown until it is enqueued, and one that shows
   in the log, or was acknowledged, is pending neither in memory nor in the file. So no
   crash brings it back, and no later mutation finds it open.
4. `AllowInv`: an approval in the memory, the file, the queue or an answer has a reason. The
   answer of a failing hook that fails open has a name of its own, so it is no approval.
5. `AgreeInv`, `PendingIsTimed`: the answer against the memory and the log; the timers.

The queue appears in the proofs as the set `Queued` with one lemma for each way it changes.

`ChannelInboxProofs`, for any number of requests and restarts, `AutomationsProofs`, for any
number of clients and any limits they set, `DaemonLinkProofs`, for any number of processes,
messages, connections and stops, `FileLockProofs`, for any number of processes, hosts and
pids, and `ChannelRepliesProofs`, for any number of messages, runs, removed forwarders,
streams and stops, prove the safety properties of their runs:

| module | theorem | statement |
| --- | --- | --- |
| `ChannelInboxProofs` | `TypeCorrect` | `Spec => []TypeOK` |
| | `AcceptedCorrect` | `Spec => []AcceptedIsDelivered` |
| | `NotTwiceCorrect` | `Spec => NotTwice` |
| `AutomationsProofs` | `TypeCorrect` | `Spec => []TypeOK` |
| | `RunLimitCorrect` | `Spec => []RunLimit` |
| | `JobCorrect` | `Spec => []ActiveHasJob` |
| | `StatusCorrect` | `Spec => []AcknowledgedStands` |
| `DaemonLinkProofs` | `TypeCorrect` | `Spec => []TypeOK` |
| | `HeardCorrect` | `Spec => []HeardOnceInOrder` |
| | `AccountedCorrect` | `Spec => []Accounted` |
| | `EntryCorrect` | `Spec => []EntryIsLive` |
| `FileLockProofs` | `TypeCorrect` | `Spec => []TypeOK` |
| | `ExclusiveCorrect` | `Spec => []Exclusive` |
| | `HolderCorrect` | `Spec => []HolderIsNamed` |
| `ChannelRepliesProofs` | `TypeCorrect` | `Spec => []TypeOK` |
| | `StartedCorrect` | `Spec => []StartedOnce` |
| | `DeliveredCorrect` | `Spec => []DeliveredIsPosted` |
| | `HandOverCorrect` | `Spec => []HandOverIsRecorded` |

Each has an `InvCorrect` as well; the assumptions are those the modules name, which keep
markers and keys apart.

* *Inbox*: an answer depends on what others did, so `SentInv` says that whatever remembers
  the message, and whoever is past the delivery, shows that it was sent or taken by an
  operation, which `AcceptedIsDelivered` then names. `NotTwice` rests
  on the conjunct of `TypeOK` that who holds the reservation is the only one to have made
  an entry: a fresh entry would mean that the delivery has been claimed.
* *Automations*: `RunLimit` is not inductive, as the count moves when a run appends. `RunAt`
  says what a run in progress has asked of the store, and that there is room for it, also
  under a limit that was lowered since it began;
  `RequestInv` that a tick completes only an automation at its limit; `DiskInv` that the
  file is the record, torn or gone, which a restart needs.
* *Daemon link*: that messages are heard in order depends on where each one is. `ProducedInv`,
  `OnceInv` and `OrderInv` say that a message on the way was produced, is in one place only,
  and that what is heard comes before what is on its way, and that before what waits, in the
  order of production (`Before`), which puts late output behind the end. `Flow`
  reduces the sixteen actions to two kinds of step, a child has a new message or messages
  move on, so each of these parts has a proof over five cases. `StartInv` (a process is
  started once) makes the end of a start that failed a new message; `TraceInv` and
  `Accounted` together give `EntryIsLive`; `ReadyInv` is why nothing a daemon kept reaches a
  server that has not restored its sessions.
* *File lock*: `Ownership` says that from its creation to its removal the file is that of
  its process, and that who is about to break it has judged a process that does not use it
  (`GoneIsDead`: its pid is free on its host, or a handoff has left nobody there) whose file
  is still there. It holds until two processes have judged the same owner (`rival`) or a
  failed read has made the age of a lock in use decide (`misjudged`); that the latter needs
  `staleMs` is why `withFileMutationLock` is only exposed to the former.
* *Replies*: `Fits` says what a job knows at each await, and `JobInv` that a promise somebody
  waits for is still being worked on. `RecordInv` says that the delivery of an intent is its
  own and that one in the file is also in memory, so a crash cannot make a claimed intent
  claimable. With `ClaimInv` (a claim being saved is the only one of its intent, by stream
  or by job) this gives `StartedOnce`. `PostedInv` adds the file and the jobs to
  `DeliveredIsPosted`, `HandInv` the steps of a delivery to `HandOverIsRecorded`. Neither
  needs the lock of the store: an update finds what it needs in the record as it is.

`SessionQueueProofs` proves, for any number of messages and runtimes and any limit, every
safety property of `queue_safety` and the refinement:

| theorem | statement |
| --- | --- |
| `Invariance`, `TypeCorrect` | `Spec => []Base`, `Spec => []TypeOK` |
| `NoWakeupIsLost` | `Spec => []NoLostWakeup` |
| `QueueImplementsLine` | `Spec => ImplementsLine` |
| `RotationsAreSingle` | `ModesApart` implies `Spec => []OneRotation` |
| `AcceptedAreKept` | `ModesApart` implies `Spec => []KeptUnlessHeld` |

`ModesApart` says that no session has both rotations and settings changes that replace its
runtime. It is needed for the last two: the run `queue_stale_rotation` shows how a session
with both loses a message (section 5). The other theorems hold for such sessions too;
`ImplementsLine` then says nothing, as the line is mapped for sessions that only rotate.

The argument.

1. *Moves.* Most steps are about drains, timers, processes and promises. `StepMoves` says
   that every step does to the messages one of ten things (`Moves`): a message joins, is
   handed over by a drain, is sent past the queue or withdrawn, the queue is sorted or
   cleared, a turn ends, a rotation or a replacement moves the queue, or nothing. Whatever
   is about messages is proved over these ten.
2. *Base.* `TypeOK` is not inductive: that the limit survives a replacement which puts the
   current message back needs `CurInv`, that there is no current message while a drain
   awaits a rotation (else the drain that resumes would hand over a second one), and that
   a runtime which has not had the name is new. `RefInv` says that what a request, a
   rotation or a settings change remembers is a runtime.
3. *Wakeups.* `NoLostWakeup` is inductive given `Base`.
4. *Rotations.* `Registered`: a rotation that is due is registered in the step that makes
   it due, for the runtime behind the name, so `NoOwn`: no drain or send starts one itself,
   and the queue a rotation carries over is the one behind the name.
5. *The line.* `InLine`: the queue holds accepted messages, each once, in bands, none handed
   over. So a drain hands each message over once, and removing the first entry with its id
   removes the message.

What `RemoveFirst`, `Inserted`, `Banded` and a reorder return is stated once, by positions
(`RemoveFacts`, `InsertFacts`, `BandedFacts`, `ReorderFacts`): `Banded` gives each entry the
place that the entries before it leave, which makes it a bijection on positions without an
induction over the sequence.

Only model-checked: liveness (`AcceptedIsHanded`, `Answered`, `EndedSettles`, `EndArrives`,
`Recovers`, `StaleJobGoes`, the two `RequestsEnd`), which the prover does not do. Every
safety property a run checks has its theorem, except the two that are violated (section 5).

## 5. Findings

* `lifecycle_orphan`: comments at `commanders/routes/conversation-runtime.ts:1412-1414` and
  `commanders/package-lifecycle-state.ts:119-124` say that a launch that failed advances the
  generation before its error surfaces. It is advanced at admission only. A deletion that
  captured the version in between is accepted although the failed launch has left a
  provider process.
* `queue_stale_rotation`: a rotation that started before a settings change overwrites the
  replacement, and what was queued on the replacement is lost. This contradicts the
  comment of `replaceCommanderSession` (`agents/commander-interface.ts:413-416`).

Three more ways the code falls short are excluded from the passing properties by name:

* The message route queues on the session object it looked up before an await
  (`agents/routes/session-control-routes.ts:242`); after a replacement in that await the
  message sits in a runtime nobody drains. `KeptUnlessHeld` leaves out the messages in `Held`.
* The approval timeout in minutes has no upper bound; above 35791 the delay does not fit a
  Node.js timer (`policies/pending-store.ts:899`), which fires at once, and with
  "auto-approve after timeout" the request is approved before anybody could see it.
  `AllowedIsDecided` assumes `TimerFits`.
* A turn may end while its stream is being begun. The end takes the stream, but the
  continuation at `commanders/routes/conversation-runtime.ts:3240-3243` gives it to the
  forwarder as well, and the next turn edits the message of the previous reply. No property
  of `ChannelReplies` is about the text a post keeps.

Seen while modelling, not checked because no text promises the contrary (hazards with a
note): a rotation that fails is registered again at once while the resumed drain starts a
turn on the old runtime, which the next success ends; a second user with an outdated list is told ok for a
decision that does not stand; resolutions nobody fetches stay in the snapshot for ever; a
decision may be told before it is saved, so after a crash the request is pending again. In
the channel replies: a reconciliation between a claim and the entry of its delivery among
those in flight fails the intent although it is about to be sent, so a delivered reply may
be recorded as failed and another one may be sent at the same time; after a restart
pending intents wait for the next message of the conversation.

In `Approvals`, `ChannelInbox`, `Automations`, `DaemonLink` and `FileLock` the properties
name their exceptions, which are how the code behaves.

* *Locks*: two processes that judge one dead lock at the same time both go on to break it, and
  the second removes the lock the first has taken (`rival`). A lock that cannot be read at
  the moment, for whatever error (`durable-file.ts:119-124`), is judged by its age, which is
  that of the acquisition: the lock of a server that has run for an hour is broken although
  the server uses it (`misjudged`, with `staleMs` only).
* *Approvals*: with `HERD_APPROVAL_FAIL_OPEN=1` a hook whose call fails, whose deadline
  passes or whose server stops lets the action go ahead with neither an approval nor a
  timeout, also when a user has just rejected it and the response was lost (the answer
  "open", `agents/claude-approval-hook.mjs:20-32`).
* *Inbound messages*: a message that asks for deep thinking is answered as delivered, and
  claimed, when an operation in memory has taken it
  (`commanders/routes/conversation-runtime.ts:2386-2425`). When a worker fails or takes too
  long, another such message comes, or the server stops, the session never gets it and the
  channel does not send it again (`operation` of `AcceptedIsDelivered`). When it is handed
  over late, a request that checked before may deliver it a second time (`overtaken` of
  `NotTwice`), and its entry is valid by then.
* *Inbound messages*, further: a delivery that fails after the message was handed over is
  answered with an error, and after the entry expired or the file stayed unreadable only the
  session and the transcript keep the message from being delivered again.
* *Automations*: a failed run writes back the status it read, over a pause or a cancellation
  (`undone`); a deletion that fails leaves an active automation without its job until the
  next restart (`jobless`); a client may lower the limit below the runs made, or under a run
  in progress (`allowed`), and a tick that found the limit reached may complete the
  automation after the limit was raised (`reached`). A stop during the write of a record
  loses the automation.
* *Daemon link*: output of a child passes what waits in the buffer for the hello
  (`overtook`); output may follow the exit of its child, and is heard after it when the
  server has restored the session since (`Before` ranks it so); an entry of the registry
  stays for a process whose spawn threw (`phantom`) or whose exit was lost; a hello that
  fails leaves what waits in the buffer while the connection is up (`Mute`), and an expired
  pairing leaves it there for good (`agents/daemon/enrollment-token.ts:4`: after 180 days).

## 6. Plan

Done: the eight components above, in the order of what is worst to lose: commanders,
messages, approvals, replies; then the locks under all stores, inbound messages, automations
and remote processes. What is left, in order:

1. `Heartbeats`: the loop of a conversation that is restarted while a send is in flight.
2. `SessionQueue` extended with provider exit, credential recovery
   (`pendingDirectSendMessages`), and the persisted queue with restart, which `DaemonLink`
   only shows from the side of the processes.
3. The conversation store with its file: what a restart makes of a conversation whose write
   has failed after its memory changed.

## 7. Not modelled

User interface, CLI and installer (no shared state of their own); telemetry and workspace
browsing (input and output); provider protocols other than the send contract of the
claude adapter; machine launch over ssh; record-keeping stores whose operations are single
writes. In `CommanderLifecycle`: the package-removal marker file, removal of directories
and remote mirrors, the restart (tombstones are in memory), and with it the file of a
conversation, which after a write that failed says something else than the memory. In
`SessionQueue`: steering
over the codex RPC, provider exit, pause, deletion, resume, persistence. In `Approvals`:
which policy applies to an action, resolution handlers and "cancel", which nothing uses,
the approvals kept inside a codex session, and the pruning of the audit log. In
`ChannelReplies`: failing writes of the store, the pruning of settled intents, inbound
fates, the throttling of edits, failure notices sent as messages of their own, services
that return no message reference, the start-up turns a forwarder skips, the retry an
operator asks for, and two conversations that share a chat. In `ChannelInbox`:
messages without a source id, voice transcription and the checks before the ledger, the
choice of binding and conversation, and what the workers of a deep-thinking operation do. In `Automations`: prompts, validation, the files of a
run, and a move to another commander, which `CommanderLifecycle` has. In `DaemonLink`: stdin
and resize, terminals, which are never restored, enrolment, and pairing anew with another
token after one has expired or was revoked; heartbeat messages
carry only the health of providers. In `FileLock`: the queue of one process, the
write-rename-fsync of a document, backups and appends; a lock file that is removed by hand.

Most of the 210 thousand lines of the repository are providers' protocols, text
and route handling, and views, where no two actors share state; they are what the share of
mapped lines leaves out.
