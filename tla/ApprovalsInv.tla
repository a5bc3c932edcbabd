----------------------------- MODULE ApprovalsInv -----------------------------
(***************************************************************************)
(* The inductive invariant behind the safety properties of Approvals:      *)
(* checked with TLC, proved in ApprovalsProofs.                            *)
(***************************************************************************)
EXTENDS Approvals

\* The request whose decision, or whose enqueueing, is being saved or logged.
Resolving(r) == phase # "ready" /\ Head(jobs).op = "resolve" /\ Head(jobs).req = r
Enqueuing(r) == phase # "ready" /\ Head(jobs).op = "enqueue" /\ Head(jobs).req = r

\* Nothing has been decided about a request whose enqueueing has not ended.
New(r) == client[r] \in {"idle", "asking"}

\* What the requester waits for says which kind of requester it is.
ClientInv ==
  \A r \in Req :
    /\ client[r] \in {"registering", "waiting"} => r \in Waiter
    /\ client[r] \in {"polling", "deciding", "allowing", "denying"} => r \notin Waiter
    /\ client[r] = "registering" => entry[r] # "none"
    /\ r \in waiters => client[r] = "waiting"
    /\ client[r] = "open" => r \in FailOpen

\* A mutation in the queue belongs to what its requester does, and a requester
\* enqueues and waits once.
JobAt(j) ==
  /\ j.op = "enqueue" => client[j.req] = "asking"
  /\ j.op = "wait" => client[j.req] = "registering"
  /\ j.op = "delivered" => j.req \notin Waiter
  /\ j.by = "poll" => j.op = "resolve" /\ j.req \notin Waiter /\ ~New(j.req)

JobInv ==
  /\ \A i \in DOMAIN jobs : JobAt(jobs[i])
  /\ \A i, k \in DOMAIN jobs :
       /\ jobs[i].op \in {"enqueue", "wait"}
       /\ jobs[k].op = jobs[i].op /\ jobs[k].req = jobs[i].req
       => i = k

\* Where a mutation is, and how far the snapshot may lag behind the memory: a new
\* request may be missing if it could not be saved.
PhaseInv ==
  /\ phase # "ready" => loaded /\ jobs # <<>> /\ Head(jobs).op # "wait"
  /\ ~loaded => waiters = {} /\ \A r \in Req : client[r] # "registering"
  /\ phase = "logging" => disk = entry
  /\ loaded => \A r \in Req :
       \/ disk[r] = entry[r]
       \/ disk[r] = "none" /\ entry[r] = "pending"
       \/ phase = "saving" /\ Head(jobs).req = r

\* A new request is unknown until the mutation that enqueues it.
NewInv ==
  \A r \in Req : New(r) =>
    /\ history[r] = {} /\ r \notin acked /\ ~Resolving(r)
    /\ IF Enqueuing(r)
         THEN entry[r] = "pending" /\ (phase = "saving" => disk[r] = "none")
         ELSE entry[r] = "none" /\ disk[r] = "none"

\* A decision that is in the history, or acknowledged, is not taken again: it is
\* saved by then, so no restart brings the pending request back.
DecidedInv ==
  \A r \in Req :
    /\ Resolving(r) => entry[r] # "pending" /\ history[r] = {}
    /\ history[r] # {} \/ r \in acked => entry[r] # "pending" /\ disk[r] # "pending"
    /\ history[r] \in {{}, {"allow"}, {"deny"}}

Justified(r) == "allow" \in wish[r] \/ (TimeoutAction = "allow" /\ r \in due)

\* Wherever an approval shows, somebody or the expired timeout has given it.
AllowInv ==
  TimerFits =>
    /\ \A r \in Req :
         entry[r] = "allow" \/ disk[r] = "allow" \/ client[r] \in {"allow", "allowing"}
           => Justified(r)
    /\ \A j \in Queued : j.op = "resolve" /\ j.dec = "allow" => Justified(j.req)

\* What an answer that the requester has, or is being sent, says.
Answer(r) == CASE client[r] \in {"allow", "allowing"} -> "allow"
               [] client[r] \in {"deny", "denying"} -> "deny"
               [] OTHER -> "none"

\* Before the first crash, memory, history and answer agree.
AgreeInv ==
  crashes = 0 =>
    /\ ~loaded => \A r \in Req : New(r)
    /\ \A r \in Req :
         /\ Resolving(r) => entry[r] \in {"none", Head(jobs).dec}
         /\ entry[r] \in Decision => history[r] \subseteq {entry[r]}
         /\ Answer(r) # "none" =>
              /\ history[r] \subseteq {Answer(r)}
              /\ entry[r] \in {"none", Answer(r)}
              /\ Resolving(r) => Head(jobs).dec = Answer(r)

Inv ==
  /\ TypeOK /\ ClientInv /\ JobInv /\ PhaseInv /\ NewInv /\ DecidedInv /\ PendingIsTimed
  /\ AllowInv /\ AgreeInv
===============================================================================
