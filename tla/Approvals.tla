------------------------------- MODULE Approvals -------------------------------
(***************************************************************************)
(* Requests for the approval of an action, from the moment the policy asks *)
(* for a review: the ApprovalCoordinator with its queue of mutations, its  *)
(* snapshot file and its expiry timers, the requesters that wait inside    *)
(* the server (provider adapters, mail replies) or poll over HTTP (the     *)
(* approval hook of claude), and the users who decide.                     *)
(*                                                                         *)
(* Mutations run one at a time, but what a mutation has changed in memory  *)
(* can be seen while it still writes the snapshot and the history.  A      *)
(* write that fails rejects a promise nobody handles and ends the server,  *)
(* except that an adapter catches it: see SaveFails.                       *)
(*                                                                         *)
(* Left out because nothing in the program uses it: resolution handlers,   *)
(* a second waiter of one request (and so resolvedOutcomes), and the       *)
(* decision "cancel".                                                      *)
(***************************************************************************)
EXTENDS Integers, Sequences, FiniteSets

CONSTANTS
  Req,             \* requests
  Waiter,          \* those whose requester waits in the server; others poll
  FailOpen,        \* hooks with HERD_APPROVAL_FAIL_OPEN=1 in their environment
  TimeoutAction,   \* settings.timeoutAction: "allow" (auto) or "deny" (block)
  TimeoutMinutes,  \* settings.timeoutMinutes
  MaxCrashes,      \* bound: crashes of the server
  MaxDecisions     \* bound: decisions users send

ASSUME ApprovalAssumption ==
  /\ Waiter \subseteq Req /\ FailOpen \subseteq Req \ Waiter
  /\ TimeoutAction \in {"allow", "deny"}
  /\ TimeoutMinutes \in Nat \ {0} /\ MaxCrashes \in Nat /\ MaxDecisions \in Nat

VARIABLES
  \* in memory
  entry,    \* approvals: "none", "pending" or the resolution
  loaded,   \* initialized and timeoutsInitialized
  armed,    \* timeoutTimers
  waiters,  \* requests with a registered waiter
  jobs,     \* mutationQueue, the mutation that runs first
  phase,    \* of that one: "ready", "saving" the snapshot, "logging" it
  \* on disk
  disk,     \* the snapshot
  history,  \* [Req -> SUBSET Decision]: resolutions in the audit log
  \* the world
  due,      \* requests whose expiresAt has passed
  client,   \* what the requester does, or how its request ended
  wish,     \* decisions users have sent
  acked,    \* requests with a decision that was acknowledged to its user
  crashes

vars == <<entry, loaded, armed, waiters, jobs, phase, disk, history, due, client,
          wish, acked, crashes>>

Decision == {"allow", "deny"}
Ended    == Decision \cup {"failed", "open"}
Sending  == [allow |-> "allowing", deny |-> "denying"]

\* failClosed: no answer blocks the action, or lets it go ahead ("open") if the
\* environment of the hook says so.
Failed(r) == IF r \in FailOpen THEN "open" ELSE "failed"

Job(op, r, d, by) == [op |-> op, req |-> r, dec |-> d, by |-> by]
Resolve(r, d, by) == Job("resolve", r, d, by)

\* A timer of Node.js counts at most 2^31 - 1 ms; one set for longer fires at once.
TimerFits == TimeoutMinutes <= 2147483647 \div 60000

Init ==
  /\ entry = [r \in Req |-> "none"] /\ disk = entry
  /\ loaded = FALSE
  /\ armed = {} /\ waiters = {} /\ due = {} /\ acked = {}
  /\ jobs = <<>> /\ phase = "ready"
  /\ history = [r \in Req |-> {}] /\ wish = [r \in Req |-> {}]
  /\ client = [r \in Req |-> "idle"]
  /\ crashes = 0

--------------------------------------------------------------------------------
(***************************************************************************)
(* The coordinator                                                         *)
(***************************************************************************)

\* Deviation from Timed: the timers are not set again after a restart.
NoneTimed == {}

\* initializeTimeouts
Timed == {r \in Req : disk[r] = "pending"}

\* ensureLoaded, by whatever uses the coordinator first.
Load ==
  /\ ~loaded
  /\ loaded' = TRUE
  /\ entry' = disk
  /\ armed' = Timed
  /\ UNCHANGED <<waiters, jobs, phase, disk, history, due, client, wish, acked, crashes>>

\* The mutation at the head of the queue starts.
Starts(op) == loaded /\ phase = "ready" /\ jobs # <<>> /\ Head(jobs).op = op

StartEnqueue ==
  LET r == Head(jobs).req IN
  /\ Starts("enqueue")
  /\ entry' = [entry EXCEPT ![r] = "pending"]
  /\ armed' = armed \cup {r}
  /\ phase' = "saving"
  /\ UNCHANGED <<loaded, waiters, jobs, disk, history, due, client, wish, acked, crashes>>

\* Deviation from Open: a resolution may be replaced.
OpenUntilGone(r) == entry[r] # "none"

Open(r) == entry[r] = "pending"

\* resolve decides: a waiter is told at once, for a poll the resolution is kept.
Decide ==
  LET j == Head(jobs)
      r == j.req
  IN
  /\ Starts("resolve") /\ Open(r)
  /\ armed' = armed \ {r}
  /\ waiters' = waiters \ {r}
  /\ entry' = [entry EXCEPT ![r] = IF r \in waiters THEN "none" ELSE j.dec]
  /\ client' = [client EXCEPT ![r] = IF r \in waiters THEN j.dec ELSE @]
  /\ phase' = "saving"
  /\ UNCHANGED <<loaded, jobs, disk, history, due, wish, acked, crashes>>

\* What the caller of resolve is told, a user or a poll that found r expired.
Told(j, d) ==
  /\ acked' = IF j.by = "user" THEN acked \cup {j.req} ELSE acked
  /\ client' = IF j.by = "poll" THEN [client EXCEPT ![j.req] = Sending[d]] ELSE client

\* resolve finds a resolution: the first decision stands, and is the answer.
AlreadyDecided ==
  LET j == Head(jobs) IN
  /\ Starts("resolve") /\ ~Open(j.req) /\ entry[j.req] # "none"
  /\ Told(j, entry[j.req])
  /\ jobs' = Tail(jobs)
  /\ UNCHANGED <<entry, loaded, armed, waiters, phase, disk, history, due, wish, crashes>>

\* resolve finds no request: 404, for a poller a failed call.
NotFound ==
  LET j == Head(jobs) IN
  /\ Starts("resolve") /\ entry[j.req] = "none"
  /\ client' = IF j.by = "poll" THEN [client EXCEPT ![j.req] = Failed(j.req)] ELSE client
  /\ jobs' = Tail(jobs)
  /\ UNCHANGED <<entry, loaded, armed, waiters, phase, disk, history, due, wish, acked,
                 crashes>>

\* Deviation from Registered: it waits for a decision that was taken already.
RegisteredLate(r) == "waiting"

\* Deviation from Registered: whatever is found is returned.
RegisteredUnchecked(r) == entry[r]

\* The registration of waitForResolution: what becomes of the requester.
Registered(r) ==
  CASE entry[r] = "pending" -> "waiting"
    [] entry[r] = "none"    -> TimeoutAction
    [] OTHER                -> entry[r]

Register ==
  LET r == Head(jobs).req IN
  /\ Starts("wait")
  /\ client' = [client EXCEPT ![r] = Registered(r)]
  /\ waiters' = IF Registered(r) = "waiting" THEN waiters \cup {r} ELSE waiters
  /\ jobs' = Tail(jobs)
  /\ UNCHANGED <<entry, loaded, armed, phase, disk, history, due, wish, acked, crashes>>

\* markDelivered forgets a request whose resolution was sent.
StartDelivered ==
  LET r == Head(jobs).req IN
  /\ Starts("delivered")
  /\ IF entry[r] \in Decision
       THEN /\ entry' = [entry EXCEPT ![r] = "none"]
            /\ phase' = "saving"
            /\ UNCHANGED jobs
       ELSE /\ jobs' = Tail(jobs)
            /\ UNCHANGED <<entry, phase>>
  /\ UNCHANGED <<loaded, armed, waiters, disk, history, due, client, wish, acked, crashes>>

\* Deviation from Snapshot: a resolution is not saved.
SnapshotUnresolved == IF Head(jobs).op = "resolve" THEN disk ELSE entry

\* persistSnapshot
Snapshot == entry

Save ==
  /\ phase = "saving"
  /\ disk' = Snapshot
  /\ phase' = "logging"
  /\ UNCHANGED <<entry, loaded, armed, waiters, jobs, history, due, client, wish, acked,
                 crashes>>

\* The snapshot of a new request or its audit record fails: its adapter gets an
\* error, the request stays in memory with its timer.
SaveFails ==
  LET j == Head(jobs) IN
  /\ phase # "ready" /\ j.op = "enqueue" /\ j.req \in Waiter
  /\ client' = [client EXCEPT ![j.req] = "failed"]
  /\ jobs' = Tail(jobs)
  /\ phase' = "ready"
  /\ UNCHANGED <<entry, loaded, armed, waiters, disk, history, due, wish, acked, crashes>>

\* The audit log is written and the mutation ends; a request that was enqueued is
\* answered as pending, or its requester goes on to waitForResolution.
LogEnqueued ==
  LET r == Head(jobs).req IN
  /\ phase = "logging" /\ Head(jobs).op = "enqueue"
  /\ phase' = "ready"
  /\ IF r \in Waiter
       THEN /\ client' = [client EXCEPT ![r] = "registering"]
            /\ jobs' = Append(Tail(jobs), Job("wait", r, TimeoutAction, "requester"))
       ELSE /\ client' = [client EXCEPT ![r] = "polling"]
            /\ jobs' = Tail(jobs)
  /\ UNCHANGED <<entry, loaded, armed, waiters, disk, history, due, wish, acked, crashes>>

LogResolved ==
  LET j == Head(jobs) IN
  /\ phase = "logging" /\ j.op = "resolve"
  /\ history' = [history EXCEPT ![j.req] = @ \cup {j.dec}]
  /\ Told(j, j.dec)
  /\ phase' = "ready"
  /\ jobs' = Tail(jobs)
  /\ UNCHANGED <<entry, loaded, armed, waiters, disk, due, wish, crashes>>

LogDelivered ==
  /\ phase = "logging" /\ Head(jobs).op = "delivered"
  /\ phase' = "ready"
  /\ jobs' = Tail(jobs)
  /\ UNCHANGED <<entry, loaded, armed, waiters, disk, history, due, client, wish, acked,
                 crashes>>

--------------------------------------------------------------------------------
(***************************************************************************)
(* Requesters, users and time                                              *)
(***************************************************************************)

\* The policy of an action says review: the gate enqueues a request.
Ask(r) ==
  /\ client[r] = "idle"
  /\ client' = [client EXCEPT ![r] = "asking"]
  /\ jobs' = Append(jobs, Job("enqueue", r, TimeoutAction, "requester"))
  /\ UNCHANGED <<entry, loaded, armed, waiters, phase, disk, history, due, wish, acked,
                 crashes>>

\* A user decides on a request that the list of pending ones has shown; the list
\* is read from memory, and may be out of date when the user acts on it.
UserDecides(r, d) ==
  /\ client[r] # "idle" /\ (entry[r] = "pending" \/ client[r] # "asking")
  /\ d \notin wish[r]
  /\ Cardinality({w \in Req \X Decision : w[2] \in wish[w[1]]}) < MaxDecisions
  /\ wish' = [wish EXCEPT ![r] = @ \cup {d}]
  /\ jobs' = Append(jobs, Resolve(r, d, "user"))
  /\ UNCHANGED <<entry, loaded, armed, waiters, phase, disk, history, due, client, acked,
                 crashes>>

Expire(r) ==
  /\ client[r] # "idle" /\ r \notin due
  /\ due' = due \cup {r}
  /\ UNCHANGED <<entry, loaded, armed, waiters, jobs, phase, disk, history, client, wish,
                 acked, crashes>>

TimerFires(r) ==
  /\ r \in armed
  /\ r \in due \/ ~TimerFits
  /\ armed' = armed \ {r}
  /\ jobs' = Append(jobs, Resolve(r, TimeoutAction, "timer"))
  /\ UNCHANGED <<entry, loaded, waiters, phase, disk, history, due, client, wish, acked,
                 crashes>>

\* Deviation from Expired: a poll takes any pending request for expired.
AnyPending(r) == entry[r] = "pending"

Expired(r) == entry[r] = "pending" /\ r \in due

\* GET /approval/check/:id reads the memory at once; a pending request that has
\* expired is resolved first, any other is polled for again.
Poll(r) ==
  /\ loaded /\ client[r] = "polling"
  /\ \/ /\ entry[r] = "none"
        /\ client' = [client EXCEPT ![r] = Failed(r)]
        /\ UNCHANGED jobs
     \/ /\ entry[r] \in Decision
        /\ client' = [client EXCEPT ![r] = Sending[entry[r]]]
        /\ UNCHANGED jobs
     \/ /\ Expired(r)
        /\ client' = [client EXCEPT ![r] = "deciding"]
        /\ jobs' = Append(jobs, Resolve(r, TimeoutAction, "poll"))
  /\ UNCHANGED <<entry, loaded, armed, waiters, phase, disk, history, due, wish, acked,
                 crashes>>

\* The response is handed over ("finish"), and read by the hook or lost; or the
\* connection was closed before.
Respond(r) ==
  \E d \in Decision :
    /\ client[r] = Sending[d]
    /\ \/ /\ client' \in {[client EXCEPT ![r] = d], [client EXCEPT ![r] = Failed(r)]}
          /\ jobs' = Append(jobs, Job("delivered", r, d, "requester"))
       \/ /\ client' = [client EXCEPT ![r] = Failed(r)]
          /\ UNCHANGED jobs
    /\ UNCHANGED <<entry, loaded, armed, waiters, phase, disk, history, due, wish, acked,
                   crashes>>

\* The deadline of the hook, or a poll that fails.
GiveUp(r) ==
  /\ client[r] = "polling"
  /\ client' = [client EXCEPT ![r] = Failed(r)]
  /\ UNCHANGED <<entry, loaded, armed, waiters, jobs, phase, disk, history, due, wish,
                 acked, crashes>>

\* The server stops, also because a write failed, and is started again.  Who
\* waits inside it or has a call open gets no answer; a hook that is between two
\* polls goes on, unless it polls while the server is down.
Crash(down) ==
  /\ crashes < MaxCrashes
  /\ crashes' = crashes + 1
  /\ \A r \in down : client[r] = "polling"
  /\ client' = [r \in Req |->
       IF r \in down \/ client[r] \notin Ended \cup {"idle", "polling"}
         THEN Failed(r) ELSE client[r]]
  /\ entry' = [r \in Req |-> "none"]
  /\ loaded' = FALSE
  /\ armed' = {} /\ waiters' = {}
  /\ jobs' = <<>> /\ phase' = "ready"
  /\ UNCHANGED <<disk, history, due, wish, acked>>

--------------------------------------------------------------------------------
Mutation ==
  \/ StartEnqueue \/ Decide \/ AlreadyDecided \/ NotFound \/ Register \/ StartDelivered
  \/ Save \/ SaveFails \/ LogEnqueued \/ LogResolved \/ LogDelivered

Next ==
  \/ Load \/ Mutation
  \/ \E r \in Req : Ask(r) \/ Expire(r) \/ TimerFires(r) \/ Poll(r) \/ Respond(r)
                      \/ GiveUp(r)
  \/ \E r \in Req, d \in Decision : UserDecides(r, d)
  \/ \E down \in SUBSET Req : Crash(down)

Spec == Init /\ [][Next]_vars

\* Something uses the coordinator, so it is loaded.
Needed == jobs # <<>> \/ \E r \in Req : client[r] = "polling"

\* Writes end, time passes, timers fire, hooks poll and responses are sent; that a
\* user decides, or a hook gives up, is not assumed.
FairSpec ==
  /\ Spec
  /\ WF_vars(Needed /\ Load)
  /\ WF_vars(Mutation)
  /\ \A r \in Req : /\ WF_vars(Expire(r))
                    /\ WF_vars(TimerFires(r))
                    /\ WF_vars(Poll(r))
                    /\ WF_vars(Respond(r))

--------------------------------------------------------------------------------
(***************************************************************************)
(* Properties                                                              *)
(***************************************************************************)

JobType == [op : {"enqueue", "wait", "resolve", "delivered"}, req : Req,
            dec : Decision, by : {"requester", "user", "timer", "poll"}]

ClientState == Ended \cup {"idle", "asking", "registering", "waiting", "polling",
                           "deciding", "allowing", "denying"}

\* The types of the state.
TypeOK ==
  /\ entry \in [Req -> {"none", "pending"} \cup Decision]
  /\ disk \in [Req -> {"none", "pending"} \cup Decision]
  /\ loaded \in BOOLEAN
  /\ armed \subseteq Req /\ waiters \subseteq Waiter
  /\ due \subseteq Req /\ acked \subseteq Req
  /\ jobs \in Seq(JobType)
  /\ phase \in {"ready", "saving", "logging"}
  /\ phase # "ready" => jobs # <<>>
  /\ history \in [Req -> SUBSET Decision] /\ wish \in [Req -> SUBSET Decision]
  /\ client \in [Req -> ClientState]
  /\ crashes \in 0..MaxCrashes

\* An action goes ahead only if a user approved it, or if the time to review it
\* has passed and the settings then approve, whatever was lost, late or restarted;
\* or for want of an answer, if its hook is told to fail open.
AllowedIsDecided ==
  \A r \in Req : client[r] \in {"allow", "open"} =>
    \/ "allow" \in wish[r]
    \/ TimeoutAction = "allow" /\ r \in due
    \/ client[r] = "open" /\ r \in FailOpen

\* A decision that was acknowledged to its user survives a restart: the request is
\* not asked again.
AckedIsSaved == \A r \in acked : disk[r] # "pending"

\* The history never shows two decisions of one request, restarts included.
HistoryIsSingle == \A r \in Req : Cardinality(history[r]) <= 1

\* Until the server stops for the first time, the answer of the requester, the
\* history and the resolution that is kept say the same.
AnswersAgree ==
  crashes = 0 => \A r \in Req : client[r] \in Decision =>
    /\ history[r] \subseteq {client[r]}
    /\ entry[r] \in {"none", client[r]}

Queued == {jobs[i] : i \in DOMAIN jobs}

\* No request stays pending for want of a timer: it has one, or a resolution of
\* it is on its way.  So does every registered waiter.
PendingIsTimed ==
  \A r \in Req :
    /\ r \in waiters => entry[r] = "pending"
    /\ entry[r] = "pending" =>
         r \in armed \/ \E j \in Queued : j.op = "resolve" /\ j.req = r

\* Every request for approval ends, without a user and across a restart.
Answered == \A r \in Req : client[r] = "asking" ~> client[r] \in Ended
================================================================================
