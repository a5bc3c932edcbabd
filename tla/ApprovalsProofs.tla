--------------------------- MODULE ApprovalsProofs ---------------------------
(***************************************************************************)
(* TLAPS proofs of the safety properties of Approvals.                     *)
(***************************************************************************)
EXTENDS ApprovalsInv, TLAPS, FiniteSetTheorems

\* The mutation that runs, and what is left of the queue when it has ended.
LEMMA TailFacts ==
  ASSUME jobs \in Seq(JobType), jobs # <<>>
  PROVE  /\ Tail(jobs) \in Seq(JobType)
         /\ 1 \in DOMAIN jobs /\ jobs[1] = Head(jobs) /\ Head(jobs) \in JobType
         /\ \A i \in DOMAIN Tail(jobs) :
              i + 1 \in DOMAIN jobs /\ i \in Nat \ {0} /\ Tail(jobs)[i] = jobs[i + 1]
         /\ \A i \in DOMAIN jobs :
              i # 1 => i - 1 \in DOMAIN Tail(jobs) /\ Tail(jobs)[i - 1] = jobs[i]
  OBVIOUS

\* A mutation that joins the queue comes after all others.
LEMMA AppendFacts ==
  ASSUME NEW q \in Seq(JobType), NEW j \in JobType
  PROVE  /\ Append(q, j) \in Seq(JobType)
         /\ Append(q, j) # <<>>
         /\ q # <<>> => Head(Append(q, j)) = Head(q)
         /\ Len(q) + 1 \in DOMAIN Append(q, j) /\ Append(q, j)[Len(q) + 1] = j
         /\ \A i \in DOMAIN Append(q, j) :
              (i \in DOMAIN q /\ Append(q, j)[i] = q[i]) \/ i = Len(q) + 1
         /\ \A i \in DOMAIN q : i \in DOMAIN Append(q, j) /\ Append(q, j)[i] = q[i]
         /\ Len(q) + 1 \notin DOMAIN q
<1> DEFINE a == Append(q, j)
<1>1. a \in Seq(JobType) /\ Len(a) = Len(q) + 1 /\ Len(q) \in Nat
  OBVIOUS
<1>2. DOMAIN a = 1..Len(q) + 1 /\ DOMAIN q = 1..Len(q)
  BY <1>1
<1>3. a[Len(q) + 1] = j /\ \A i \in 1..Len(q) : a[i] = q[i]
  OBVIOUS
<1>4. q # <<>> => 1 \in DOMAIN q /\ Head(q) = q[1] /\ Head(a) = a[1]
  OBVIOUS
<1> HIDE DEF a
<1>5. \A i \in DOMAIN a : (i \in DOMAIN q /\ a[i] = q[i]) \/ i = Len(q) + 1
  BY <1>1, <1>2, <1>3
<1>6. \A i \in DOMAIN q : i \in DOMAIN a /\ a[i] = q[i]
  BY <1>1, <1>2, <1>3
<1>7. Len(q) + 1 \in DOMAIN a /\ Len(q) + 1 \notin DOMAIN q /\ a # <<>>
  BY <1>1, <1>2
<1>8. q # <<>> => Head(a) = Head(q)
  BY <1>3, <1>4, <1>2
<1>9. QED
  BY <1>1, <1>3, <1>5, <1>6, <1>7, <1>8 DEF a

\* Every step keeps the types.
LEMMA TypeStep ==
  TypeOK /\ ClientInv /\ JobInv /\ PhaseInv /\ [Next]_vars => TypeOK'
<1> SUFFICES ASSUME TypeOK, ClientInv, JobInv, PhaseInv, [Next]_vars PROVE TypeOK'
  OBVIOUS
<1> USE ApprovalAssumption DEF ClientState, Decision, Ended, Sending, Failed
<1> jobs \in Seq(JobType)
  BY DEF TypeOK
<1>0. /\ \A r \in Req, by \in {"requester", "user", "timer", "poll"} :
           /\ Job("wait", r, TimeoutAction, "requester") \in JobType
           /\ Job("enqueue", r, TimeoutAction, "requester") \in JobType
           /\ \A d \in Decision :
                Resolve(r, d, by) \in JobType /\ Job("delivered", r, d, "requester") \in JobType
      /\ \A j \in JobType : j.req \in Req /\ j.dec \in Decision
  BY DEF JobType, Job, Resolve
<1> USE <1>0
<1>1. CASE Load
  BY <1>1 DEF Load, Timed, TypeOK, PhaseInv
<1>2. CASE StartEnqueue
  BY <1>2, TailFacts DEF StartEnqueue, Starts, TypeOK
<1>3. CASE Decide
  BY <1>3, TailFacts DEF Decide, Starts, TypeOK
<1>4. CASE AlreadyDecided
  BY <1>4, TailFacts DEF AlreadyDecided, Starts, Told, Open, TypeOK
<1>5. CASE NotFound
  BY <1>5, TailFacts DEF NotFound, Starts, TypeOK
<1>6. CASE Register
  BY <1>6, TailFacts DEF Register, Starts, Registered, TypeOK, JobInv, JobAt, ClientInv
<1>7. CASE StartDelivered
  BY <1>7, TailFacts DEF StartDelivered, Starts, TypeOK
<1>8. CASE Save
  BY <1>8, TailFacts DEF Save, Snapshot, TypeOK
<1>9. CASE SaveFails
  BY <1>9, TailFacts DEF SaveFails, TypeOK
<1>10. CASE LogEnqueued
  <2> DEFINE r == Head(jobs).req
             j == Job("wait", r, TimeoutAction, "requester")
  <2>1. jobs # <<>> /\ r \in Req /\ Tail(jobs) \in Seq(JobType)
    BY <1>10, TailFacts DEF LogEnqueued, TypeOK
  <2>3. jobs' \in Seq(JobType)
    <3> HIDE DEF j
    <3>1. j \in JobType /\ (jobs' = Append(Tail(jobs), j) \/ jobs' = Tail(jobs))
      BY <1>10, <2>1 DEF LogEnqueued, j
    <3>2. Append(Tail(jobs), j) \in Seq(JobType)
      BY <2>1, <3>1, AppendFacts
    <3>3. QED
      BY <2>1, <3>1, <3>2
  <2>4. client' \in [Req -> ClientState]
    BY <1>10 DEF LogEnqueued, TypeOK
  <2>5. QED
    BY <1>10, <2>3, <2>4 DEF LogEnqueued, TypeOK
<1>11. CASE LogResolved
  BY <1>11, TailFacts DEF LogResolved, Told, TypeOK
<1>12. CASE LogDelivered
  BY <1>12, TailFacts DEF LogDelivered, TypeOK
<1>13. ASSUME NEW r \in Req, Ask(r) PROVE TypeOK'
  BY <1>13, AppendFacts DEF Ask, TypeOK
<1>14. ASSUME NEW r \in Req, Expire(r) PROVE TypeOK'
  BY <1>14 DEF Expire, TypeOK
<1>15. ASSUME NEW r \in Req, TimerFires(r) PROVE TypeOK'
  BY <1>15, AppendFacts DEF TimerFires, TypeOK
<1>16. ASSUME NEW r \in Req, Poll(r) PROVE TypeOK'
  <2>2. jobs' = jobs \/ jobs' = Append(jobs, Resolve(r, TimeoutAction, "poll"))
    BY <1>16 DEF Poll
  <2>3. client' \in [Req -> ClientState]
    <3>1. PICK s \in ClientState : client' = [client EXCEPT ![r] = s]
      BY <1>16 DEF Poll
    <3>2. QED
      BY <3>1 DEF TypeOK
  <2> DEFINE j == Resolve(r, TimeoutAction, "poll")
  <2> HIDE DEF j
  <2>4. jobs' \in Seq(JobType) /\ (jobs # <<>> => jobs' # <<>>)
    <3>1. j \in JobType /\ (jobs' = jobs \/ jobs' = Append(jobs, j))
      BY <2>2 DEF j
    <3>2. QED
      BY <3>1, AppendFacts
  <2>5. QED
    BY <1>16, <2>3, <2>4 DEF Poll, TypeOK
<1>17. ASSUME NEW r \in Req, Respond(r) PROVE TypeOK'
  <2>2. PICK d \in Decision :
          /\ client' = [client EXCEPT ![r] = d] \/ client' = [client EXCEPT ![r] = Failed(r)]
          /\ jobs' = jobs \/ jobs' = Append(jobs, Job("delivered", r, d, "requester"))
    BY <1>17 DEF Respond
  <2> DEFINE j == Job("delivered", r, d, "requester")
  <2> HIDE DEF j
  <2>3. jobs' \in Seq(JobType) /\ (jobs # <<>> => jobs' # <<>>)
    <3>1. j \in JobType /\ (jobs' = jobs \/ jobs' = Append(jobs, j))
      BY <2>2 DEF j
    <3>2. QED
      BY <3>1, AppendFacts
  <2>4. client' \in [Req -> ClientState]
    BY <2>2 DEF TypeOK
  <2>5. QED
    BY <1>17, <2>3, <2>4 DEF Respond, TypeOK
<1>18. ASSUME NEW r \in Req, GiveUp(r) PROVE TypeOK'
  BY <1>18 DEF GiveUp, TypeOK
<1>19. ASSUME NEW r \in Req, NEW d \in Decision, UserDecides(r, d) PROVE TypeOK'
  BY <1>19, AppendFacts DEF UserDecides, TypeOK
<1>20. ASSUME NEW down \in SUBSET Req, Crash(down) PROVE TypeOK'
  <2>1. crashes' \in 0..MaxCrashes
    BY <1>20 DEF Crash, TypeOK
  <2>2. client' \in [Req -> ClientState]
    BY <1>20 DEF Crash, TypeOK
  <2>3. jobs' \in Seq(JobType) /\ phase' = "ready"
    BY <1>20 DEF Crash
  <2>4. QED
    BY <1>20, <2>1, <2>2, <2>3 DEF Crash, TypeOK
<1>21. CASE UNCHANGED vars
  BY <1>21 DEF vars, TypeOK
<1>22. QED
  BY <1>1, <1>2, <1>3, <1>4, <1>5, <1>6, <1>7, <1>8, <1>9, <1>10, <1>11, <1>12, <1>13,
     <1>14, <1>15, <1>16, <1>17, <1>18, <1>19, <1>20, <1>21 DEF Next, Mutation

\* The mutation that runs belongs to what its requester does.
LEMMA HeadFacts ==
  ASSUME TypeOK, JobInv, jobs # <<>>
  PROVE  /\ Head(jobs) \in JobType /\ Head(jobs).req \in Req /\ Head(jobs).dec \in Decision
         /\ JobAt(Head(jobs))
  BY TailFacts DEF TypeOK, JobInv, JobType

\* What a requester waits for goes on saying which kind it is.
LEMMA ClientStep == Inv /\ [Next]_vars => ClientInv'
<1> SUFFICES ASSUME Inv, [Next]_vars PROVE ClientInv'
  OBVIOUS
<1> USE ApprovalAssumption DEF ClientState, Decision, Ended, Sending, Failed
<1>0. TypeOK /\ ClientInv /\ JobInv /\ PhaseInv /\ NewInv
  BY DEF Inv
<1>1. CASE Load
  BY <1>0, <1>1 DEF Load, Timed, TypeOK, JobAt, ClientInv, PhaseInv, NewInv, New, Enqueuing
<1>2. CASE StartEnqueue
  BY <1>0, <1>2, HeadFacts DEF StartEnqueue, Starts, TypeOK, JobAt, ClientInv, PhaseInv, NewInv, New, Enqueuing
<1>3. CASE Decide
  BY <1>0, <1>3, HeadFacts DEF Decide, Starts, Open, TypeOK, JobAt, ClientInv, PhaseInv, NewInv, New, Enqueuing
<1>4. CASE AlreadyDecided
  BY <1>0, <1>4, HeadFacts DEF AlreadyDecided, Starts, Open, Told, TypeOK, JobAt, ClientInv, PhaseInv, NewInv, New, Enqueuing
<1>5. CASE NotFound
  BY <1>0, <1>5, HeadFacts DEF NotFound, Starts, TypeOK, JobAt, ClientInv, PhaseInv, NewInv, New, Enqueuing
<1>6. CASE Register
  BY <1>0, <1>6, HeadFacts DEF Register, Starts, Registered, TypeOK, JobAt, ClientInv, PhaseInv, NewInv, New, Enqueuing
<1>7. CASE StartDelivered
  BY <1>0, <1>7, HeadFacts DEF StartDelivered, Starts, TypeOK, JobAt, ClientInv, PhaseInv, NewInv, New, Enqueuing
<1>8. CASE Save
  BY <1>0, <1>8, HeadFacts DEF Save, Snapshot, TypeOK, JobAt, ClientInv, PhaseInv, NewInv, New, Enqueuing
<1>9. CASE SaveFails
  BY <1>0, <1>9, HeadFacts DEF SaveFails, TypeOK, JobAt, ClientInv, PhaseInv, NewInv, New, Enqueuing
<1>10. CASE LogEnqueued
  BY <1>0, <1>10, HeadFacts DEF LogEnqueued, TypeOK, JobAt, ClientInv, PhaseInv, NewInv, New, Enqueuing
<1>11. CASE LogResolved
  BY <1>0, <1>11, HeadFacts DEF LogResolved, Told, TypeOK, JobAt, ClientInv, PhaseInv, NewInv, New, Enqueuing
<1>12. CASE LogDelivered
  BY <1>0, <1>12, HeadFacts DEF LogDelivered, TypeOK, JobAt, ClientInv, PhaseInv, NewInv, New, Enqueuing
<1>13. ASSUME NEW r \in Req, Ask(r) PROVE ClientInv'
  BY <1>0, <1>13 DEF Ask, TypeOK, JobAt, ClientInv, PhaseInv, NewInv, New, Enqueuing
<1>14. ASSUME NEW r \in Req, Expire(r) PROVE ClientInv'
  BY <1>0, <1>14 DEF Expire, TypeOK, JobAt, ClientInv, PhaseInv, NewInv, New, Enqueuing
<1>15. ASSUME NEW r \in Req, TimerFires(r) PROVE ClientInv'
  BY <1>0, <1>15 DEF TimerFires, TypeOK, JobAt, ClientInv, PhaseInv, NewInv, New, Enqueuing
<1>16. ASSUME NEW r \in Req, Poll(r) PROVE ClientInv'
  BY <1>0, <1>16 DEF Poll, Expired, TypeOK, JobAt, ClientInv, PhaseInv, NewInv, New, Enqueuing
<1>17. ASSUME NEW r \in Req, Respond(r) PROVE ClientInv'
  BY <1>0, <1>17 DEF Respond, TypeOK, JobAt, ClientInv, PhaseInv, NewInv, New, Enqueuing
<1>18. ASSUME NEW r \in Req, GiveUp(r) PROVE ClientInv'
  BY <1>0, <1>18 DEF GiveUp, TypeOK, JobAt, ClientInv, PhaseInv, NewInv, New, Enqueuing
<1>19. ASSUME NEW r \in Req, NEW d \in Decision, UserDecides(r, d) PROVE ClientInv'
  BY <1>0, <1>19 DEF UserDecides, TypeOK, JobAt, ClientInv, PhaseInv, NewInv, New, Enqueuing
<1>20. ASSUME NEW down \in SUBSET Req, Crash(down) PROVE ClientInv'
  BY <1>0, <1>20 DEF Crash, TypeOK, JobAt, ClientInv, PhaseInv, NewInv, New, Enqueuing
<1>21. CASE UNCHANGED vars
  BY <1>0, <1>21 DEF vars, TypeOK, JobAt, ClientInv, PhaseInv, NewInv, New, Enqueuing
<1>22. QED
  BY <1>1, <1>2, <1>3, <1>4, <1>5, <1>6, <1>7, <1>8, <1>9, <1>10, <1>11, <1>12, <1>13, <1>14, <1>15, <1>16, <1>17, <1>18, <1>19, <1>20, <1>21 DEF Next, Mutation

\* A mutation joins the queue behind the one that runs.
LEMMA JoinFacts ==
  ASSUME jobs \in Seq(JobType), NEW j \in JobType, jobs' = Append(jobs, j)
  PROVE  /\ jobs' # <<>> /\ (jobs # <<>> => Head(jobs') = Head(jobs))
         /\ Len(jobs) + 1 \in DOMAIN jobs' /\ jobs'[Len(jobs) + 1] = j
         /\ \A i \in DOMAIN jobs' : (i \in DOMAIN jobs /\ jobs'[i] = jobs[i]) \/ i = Len(jobs) + 1
         /\ \A i \in DOMAIN jobs : i \in DOMAIN jobs' /\ jobs'[i] = jobs[i]
         /\ Len(jobs) + 1 \notin DOMAIN jobs
  BY AppendFacts

\* What requesters, users and timers put into the queue are mutations.
LEMMA JobFacts ==
  ASSUME NEW r \in Req, NEW d \in Decision, NEW by \in {"requester", "user", "timer", "poll"}
  PROVE  /\ Resolve(r, d, by) \in JobType
         /\ Job("wait", r, d, by) \in JobType
         /\ Job("enqueue", r, d, by) \in JobType
         /\ Job("delivered", r, d, by) \in JobType
  BY DEF JobType, Job, Resolve

\* A response ends the request or its connection; the queue grows behind what runs.
LEMMA RespondFacts ==
  ASSUME TypeOK, NEW r \in Req, Respond(r)
  PROVE  /\ \E d \in Decision :
              /\ client[r] = Sending[d]
              /\ client' = [client EXCEPT ![r] = d] \/ client' = [client EXCEPT ![r] = Failed(r)]
              /\ jobs' = jobs \/ jobs' = Append(jobs, Job("delivered", r, d, "requester"))
         /\ jobs # <<>> => jobs' # <<>> /\ Head(jobs') = Head(jobs)
         /\ UNCHANGED <<entry, loaded, armed, waiters, phase, disk, history, due, wish, acked,
                        crashes>>
<1>1. PICK d \in Decision :
        /\ client[r] = Sending[d]
        /\ client' = [client EXCEPT ![r] = d] \/ client' = [client EXCEPT ![r] = Failed(r)]
        /\ jobs' = jobs \/ jobs' = Append(jobs, Job("delivered", r, d, "requester"))
  BY DEF Respond
<1>2. jobs # <<>> => jobs' # <<>> /\ Head(jobs') = Head(jobs)
  BY <1>1, JobFacts, JoinFacts DEF TypeOK
<1>3. QED
  BY <1>1, <1>2 DEF Respond

\* A poll finds nothing, a resolution, or a request to resolve; the queue grows behind
\* what runs.
LEMMA PollFacts ==
  ASSUME TypeOK, NEW r \in Req, Poll(r)
  PROVE  /\ \/ entry[r] = "none" /\ client' = [client EXCEPT ![r] = Failed(r)] /\ jobs' = jobs
            \/ /\ entry[r] \in Decision /\ jobs' = jobs
               /\ client' = [client EXCEPT ![r] = Sending[entry[r]]]
            \/ /\ Expired(r)
               /\ client' = [client EXCEPT ![r] = "deciding"]
               /\ jobs' = Append(jobs, Resolve(r, TimeoutAction, "poll"))
         /\ jobs # <<>> => jobs' # <<>> /\ Head(jobs') = Head(jobs)
         /\ loaded /\ client[r] = "polling"
         /\ UNCHANGED <<entry, loaded, armed, waiters, phase, disk, history, due, wish, acked,
                        crashes>>
<1>1. jobs' = jobs \/ jobs' = Append(jobs, Resolve(r, TimeoutAction, "poll"))
  BY DEF Poll
<1>2. Resolve(r, TimeoutAction, "poll") \in JobType
  BY JobFacts, ApprovalAssumption DEF Decision
<1>3. jobs # <<>> => jobs' # <<>> /\ Head(jobs') = Head(jobs)
  BY <1>1, <1>2, JoinFacts DEF TypeOK
<1>4. QED
  BY <1>3 DEF Poll

\* The snapshot lags behind the memory by what is being saved at most.
LEMMA PhaseStep == Inv /\ [Next]_vars => PhaseInv'
<1> SUFFICES ASSUME Inv, [Next]_vars PROVE PhaseInv'
  OBVIOUS
<1> USE ApprovalAssumption DEF ClientState, Decision, Ended, Sending, Failed
<1>0. TypeOK /\ ClientInv /\ JobInv /\ PhaseInv /\ NewInv
  BY DEF Inv
<1>1. CASE Load
  BY <1>0, <1>1 DEF Load, Timed, TypeOK, JobAt, ClientInv, PhaseInv, NewInv, New, Enqueuing
<1>2. CASE StartEnqueue
  BY <1>0, <1>2, HeadFacts DEF StartEnqueue, Starts, TypeOK, JobAt, ClientInv, PhaseInv, NewInv, New, Enqueuing
<1>3. CASE Decide
  BY <1>0, <1>3, HeadFacts DEF Decide, Starts, Open, TypeOK, JobAt, ClientInv, PhaseInv, NewInv, New, Enqueuing
<1>4. CASE AlreadyDecided
  BY <1>0, <1>4, HeadFacts DEF AlreadyDecided, Starts, Open, Told, TypeOK, JobAt, ClientInv, PhaseInv, NewInv, New, Enqueuing
<1>5. CASE NotFound
  BY <1>0, <1>5, HeadFacts DEF NotFound, Starts, TypeOK, JobAt, ClientInv, PhaseInv, NewInv, New, Enqueuing
<1>6. CASE Register
  BY <1>0, <1>6, HeadFacts DEF Register, Starts, Registered, TypeOK, JobAt, ClientInv, PhaseInv, NewInv, New, Enqueuing
<1>7. CASE StartDelivered
  BY <1>0, <1>7, HeadFacts DEF StartDelivered, Starts, TypeOK, JobAt, ClientInv, PhaseInv, NewInv, New, Enqueuing
<1>8. CASE Save
  BY <1>0, <1>8, HeadFacts DEF Save, Snapshot, TypeOK, JobAt, ClientInv, PhaseInv, NewInv, New, Enqueuing
<1>9. CASE SaveFails
  BY <1>0, <1>9, HeadFacts DEF SaveFails, TypeOK, JobAt, ClientInv, PhaseInv, NewInv, New, Enqueuing
<1>10. CASE LogEnqueued
  BY <1>0, <1>10, HeadFacts DEF LogEnqueued, TypeOK, JobAt, ClientInv, PhaseInv, NewInv, New, Enqueuing
<1>11. CASE LogResolved
  BY <1>0, <1>11, HeadFacts DEF LogResolved, Told, TypeOK, JobAt, ClientInv, PhaseInv, NewInv, New, Enqueuing
<1>12. CASE LogDelivered
  BY <1>0, <1>12, HeadFacts DEF LogDelivered, TypeOK, JobAt, ClientInv, PhaseInv, NewInv, New, Enqueuing
<1>13. ASSUME NEW r \in Req, Ask(r) PROVE PhaseInv'
  BY <1>0, <1>13 DEF Ask, TypeOK, JobAt, ClientInv, PhaseInv, NewInv, New, Enqueuing
<1>14. ASSUME NEW r \in Req, Expire(r) PROVE PhaseInv'
  BY <1>0, <1>14 DEF Expire, TypeOK, JobAt, ClientInv, PhaseInv, NewInv, New, Enqueuing
<1>15. ASSUME NEW r \in Req, TimerFires(r) PROVE PhaseInv'
  BY <1>0, <1>15 DEF TimerFires, TypeOK, JobAt, ClientInv, PhaseInv, NewInv, New, Enqueuing
<1>16. ASSUME NEW r \in Req, Poll(r) PROVE PhaseInv'
  BY <1>0, <1>16, PollFacts DEF TypeOK, JobAt, ClientInv, PhaseInv, NewInv, New, Enqueuing
<1>17. ASSUME NEW r \in Req, Respond(r) PROVE PhaseInv'
  BY <1>0, <1>17, RespondFacts DEF TypeOK, JobAt, ClientInv, PhaseInv, NewInv, New, Enqueuing
<1>18. ASSUME NEW r \in Req, GiveUp(r) PROVE PhaseInv'
  BY <1>0, <1>18 DEF GiveUp, TypeOK, JobAt, ClientInv, PhaseInv, NewInv, New, Enqueuing
<1>19. ASSUME NEW r \in Req, NEW d \in Decision, UserDecides(r, d) PROVE PhaseInv'
  BY <1>0, <1>19 DEF UserDecides, TypeOK, JobAt, ClientInv, PhaseInv, NewInv, New, Enqueuing
<1>20. ASSUME NEW down \in SUBSET Req, Crash(down) PROVE PhaseInv'
  BY <1>0, <1>20 DEF Crash, TypeOK, JobAt, ClientInv, PhaseInv, NewInv, New, Enqueuing
<1>21. CASE UNCHANGED vars
  BY <1>0, <1>21 DEF vars, TypeOK, JobAt, ClientInv, PhaseInv, NewInv, New, Enqueuing
<1>22. QED
  BY <1>1, <1>2, <1>3, <1>4, <1>5, <1>6, <1>7, <1>8, <1>9, <1>10, <1>11, <1>12, <1>13, <1>14, <1>15, <1>16, <1>17, <1>18, <1>19, <1>20, <1>21 DEF Next, Mutation

\* A request stays unknown until the mutation that enqueues it.
LEMMA NewStep == Inv /\ [Next]_vars => NewInv'
<1> SUFFICES ASSUME Inv, [Next]_vars PROVE NewInv'
  OBVIOUS
<1> USE ApprovalAssumption DEF ClientState, Decision, Ended, Sending, Failed
<1>0. TypeOK /\ ClientInv /\ JobInv /\ PhaseInv /\ NewInv
  BY DEF Inv
<1>1. CASE Load
  BY <1>0, <1>1 DEF Load, Timed, TypeOK, JobInv, JobAt, ClientInv, PhaseInv, NewInv, New, Enqueuing, Resolving
<1>2. CASE StartEnqueue
  BY <1>0, <1>2, HeadFacts DEF StartEnqueue, Starts, TypeOK, JobInv, JobAt, ClientInv, PhaseInv, NewInv, New, Enqueuing, Resolving
<1>3. CASE Decide
  BY <1>0, <1>3, HeadFacts DEF Decide, Starts, Open, TypeOK, JobInv, JobAt, ClientInv, PhaseInv, NewInv, New, Enqueuing, Resolving
<1>4. CASE AlreadyDecided
  BY <1>0, <1>4, HeadFacts DEF AlreadyDecided, Starts, Open, Told, TypeOK, JobInv, JobAt, ClientInv, PhaseInv, NewInv, New, Enqueuing, Resolving
<1>5. CASE NotFound
  BY <1>0, <1>5, HeadFacts DEF NotFound, Starts, TypeOK, JobInv, JobAt, ClientInv, PhaseInv, NewInv, New, Enqueuing, Resolving
<1>6. CASE Register
  BY <1>0, <1>6, HeadFacts DEF Register, Starts, Registered, TypeOK, JobInv, JobAt, ClientInv, PhaseInv, NewInv, New, Enqueuing, Resolving
<1>7. CASE StartDelivered
  BY <1>0, <1>7, HeadFacts DEF StartDelivered, Starts, TypeOK, JobInv, JobAt, ClientInv, PhaseInv, NewInv, New, Enqueuing, Resolving
<1>8. CASE Save
  BY <1>0, <1>8, HeadFacts DEF Save, Snapshot, TypeOK, JobInv, JobAt, ClientInv, PhaseInv, NewInv, New, Enqueuing, Resolving
<1>9. CASE SaveFails
  BY <1>0, <1>9, HeadFacts DEF SaveFails, TypeOK, JobInv, JobAt, ClientInv, PhaseInv, NewInv, New, Enqueuing, Resolving
<1>10. CASE LogEnqueued
  BY <1>0, <1>10, HeadFacts DEF LogEnqueued, TypeOK, JobInv, JobAt, ClientInv, PhaseInv, NewInv, New, Enqueuing, Resolving
<1>11. CASE LogResolved
  BY <1>0, <1>11, HeadFacts DEF LogResolved, Told, TypeOK, JobInv, JobAt, ClientInv, PhaseInv, NewInv, New, Enqueuing, Resolving
<1>12. CASE LogDelivered
  BY <1>0, <1>12, HeadFacts DEF LogDelivered, TypeOK, JobInv, JobAt, ClientInv, PhaseInv, NewInv, New, Enqueuing, Resolving
<1>13. ASSUME NEW r \in Req, Ask(r) PROVE NewInv'
  BY <1>0, <1>13 DEF Ask, TypeOK, JobInv, JobAt, ClientInv, PhaseInv, NewInv, New, Enqueuing, Resolving
<1>14. ASSUME NEW r \in Req, Expire(r) PROVE NewInv'
  BY <1>0, <1>14 DEF Expire, TypeOK, JobInv, JobAt, ClientInv, PhaseInv, NewInv, New, Enqueuing, Resolving
<1>15. ASSUME NEW r \in Req, TimerFires(r) PROVE NewInv'
  BY <1>0, <1>15 DEF TimerFires, TypeOK, JobInv, JobAt, ClientInv, PhaseInv, NewInv, New, Enqueuing, Resolving
<1>16. ASSUME NEW r \in Req, Poll(r) PROVE NewInv'
  BY <1>0, <1>16, PollFacts DEF TypeOK, JobInv, JobAt, ClientInv, PhaseInv, NewInv, New, Enqueuing, Resolving
<1>17. ASSUME NEW r \in Req, Respond(r) PROVE NewInv'
  BY <1>0, <1>17, RespondFacts DEF TypeOK, JobInv, JobAt, ClientInv, PhaseInv, NewInv, New, Enqueuing, Resolving
<1>18. ASSUME NEW r \in Req, GiveUp(r) PROVE NewInv'
  BY <1>0, <1>18 DEF GiveUp, TypeOK, JobInv, JobAt, ClientInv, PhaseInv, NewInv, New, Enqueuing, Resolving
<1>19. ASSUME NEW r \in Req, NEW d \in Decision, UserDecides(r, d) PROVE NewInv'
  BY <1>0, <1>19 DEF UserDecides, TypeOK, JobInv, JobAt, ClientInv, PhaseInv, NewInv, New, Enqueuing, Resolving
<1>20. ASSUME NEW down \in SUBSET Req, Crash(down) PROVE NewInv'
  BY <1>0, <1>20 DEF Crash, TypeOK, JobInv, JobAt, ClientInv, PhaseInv, NewInv, New, Enqueuing, Resolving
<1>21. CASE UNCHANGED vars
  BY <1>0, <1>21 DEF vars, TypeOK, JobInv, JobAt, ClientInv, PhaseInv, NewInv, New, Enqueuing, Resolving
<1>22. QED
  BY <1>1, <1>2, <1>3, <1>4, <1>5, <1>6, <1>7, <1>8, <1>9, <1>10, <1>11, <1>12, <1>13, <1>14, <1>15, <1>16, <1>17, <1>18, <1>19, <1>20, <1>21 DEF Next, Mutation

\* A decision that is in the history or acknowledged is not taken again.
LEMMA DecidedStep == Inv /\ [Next]_vars => DecidedInv'
<1> SUFFICES ASSUME Inv, [Next]_vars PROVE DecidedInv'
  OBVIOUS
<1> USE ApprovalAssumption DEF ClientState, Decision, Ended, Sending, Failed
<1>0. TypeOK /\ ClientInv /\ JobInv /\ PhaseInv /\ NewInv /\ DecidedInv
  BY DEF Inv
<1>1. CASE Load
  BY <1>0, <1>1 DEF Load, Timed, TypeOK, JobInv, JobAt, ClientInv, PhaseInv, NewInv, DecidedInv, New, Enqueuing, Resolving
<1>2. CASE StartEnqueue
  BY <1>0, <1>2, HeadFacts DEF StartEnqueue, Starts, TypeOK, JobInv, JobAt, ClientInv, PhaseInv, NewInv, DecidedInv, New, Enqueuing, Resolving
<1>3. CASE Decide
  BY <1>0, <1>3, HeadFacts DEF Decide, Starts, Open, TypeOK, JobInv, JobAt, ClientInv, PhaseInv, NewInv, DecidedInv, New, Enqueuing, Resolving
<1>4. CASE AlreadyDecided
  BY <1>0, <1>4, HeadFacts DEF AlreadyDecided, Starts, Open, Told, TypeOK, JobInv, JobAt, ClientInv, PhaseInv, NewInv, DecidedInv, New, Enqueuing, Resolving
<1>5. CASE NotFound
  BY <1>0, <1>5, HeadFacts DEF NotFound, Starts, TypeOK, JobInv, JobAt, ClientInv, PhaseInv, NewInv, DecidedInv, New, Enqueuing, Resolving
<1>6. CASE Register
  BY <1>0, <1>6, HeadFacts DEF Register, Starts, Registered, TypeOK, JobInv, JobAt, ClientInv, PhaseInv, NewInv, DecidedInv, New, Enqueuing, Resolving
<1>7. CASE StartDelivered
  BY <1>0, <1>7, HeadFacts DEF StartDelivered, Starts, TypeOK, JobInv, JobAt, ClientInv, PhaseInv, NewInv, DecidedInv, New, Enqueuing, Resolving
<1>8. CASE Save
  BY <1>0, <1>8, HeadFacts DEF Save, Snapshot, TypeOK, JobInv, JobAt, ClientInv, PhaseInv, NewInv, DecidedInv, New, Enqueuing, Resolving
<1>9. CASE SaveFails
  BY <1>0, <1>9, HeadFacts DEF SaveFails, TypeOK, JobInv, JobAt, ClientInv, PhaseInv, NewInv, DecidedInv, New, Enqueuing, Resolving
<1>10. CASE LogEnqueued
  BY <1>0, <1>10, HeadFacts DEF LogEnqueued, TypeOK, JobInv, JobAt, ClientInv, PhaseInv, NewInv, DecidedInv, New, Enqueuing, Resolving
<1>11. CASE LogResolved
  <2> DEFINE j == Head(jobs)
  <2>1. /\ phase = "logging" /\ phase' = "ready" /\ j.op = "resolve" /\ j.req \in Req
        /\ j.dec \in Decision /\ history' = [history EXCEPT ![j.req] = @ \cup {j.dec}]
        /\ acked' = IF j.by = "user" THEN acked \cup {j.req} ELSE acked
        /\ UNCHANGED <<entry, disk>>
    BY <1>0, <1>11, HeadFacts DEF LogResolved, Told, PhaseInv
  <2>2. /\ entry[j.req] # "pending" /\ history[j.req] = {}
        /\ disk[j.req] # "pending" /\ history \in [Req -> SUBSET Decision]
    BY <1>0, <2>1 DEF DecidedInv, Resolving, PhaseInv, TypeOK
  <2>3. \A r \in Req : ~Resolving(r)'
    BY <2>1 DEF Resolving
  <2>4. history'[j.req] = {j.dec} /\ \A r \in Req \ {j.req} : history'[r] = history[r]
    BY <2>1, <2>2
  <2>5. QED
    BY <1>0, <2>1, <2>2, <2>3, <2>4 DEF DecidedInv
<1>12. CASE LogDelivered
  BY <1>0, <1>12, HeadFacts DEF LogDelivered, TypeOK, JobInv, JobAt, ClientInv, PhaseInv, NewInv, DecidedInv, New, Enqueuing, Resolving
<1>13. ASSUME NEW r \in Req, Ask(r) PROVE DecidedInv'
  BY <1>0, <1>13 DEF Ask, TypeOK, JobInv, JobAt, ClientInv, PhaseInv, NewInv, DecidedInv, New, Enqueuing, Resolving
<1>14. ASSUME NEW r \in Req, Expire(r) PROVE DecidedInv'
  BY <1>0, <1>14 DEF Expire, TypeOK, JobInv, JobAt, ClientInv, PhaseInv, NewInv, DecidedInv, New, Enqueuing, Resolving
<1>15. ASSUME NEW r \in Req, TimerFires(r) PROVE DecidedInv'
  BY <1>0, <1>15 DEF TimerFires, TypeOK, JobInv, JobAt, ClientInv, PhaseInv, NewInv, DecidedInv, New, Enqueuing, Resolving
<1>16. ASSUME NEW r \in Req, Poll(r) PROVE DecidedInv'
  BY <1>0, <1>16, PollFacts DEF TypeOK, JobInv, JobAt, ClientInv, PhaseInv, NewInv, DecidedInv, New, Enqueuing, Resolving
<1>17. ASSUME NEW r \in Req, Respond(r) PROVE DecidedInv'
  BY <1>0, <1>17, RespondFacts DEF TypeOK, JobInv, JobAt, ClientInv, PhaseInv, NewInv, DecidedInv, New, Enqueuing, Resolving
<1>18. ASSUME NEW r \in Req, GiveUp(r) PROVE DecidedInv'
  BY <1>0, <1>18 DEF GiveUp, TypeOK, JobInv, JobAt, ClientInv, PhaseInv, NewInv, DecidedInv, New, Enqueuing, Resolving
<1>19. ASSUME NEW r \in Req, NEW d \in Decision, UserDecides(r, d) PROVE DecidedInv'
  BY <1>0, <1>19 DEF UserDecides, TypeOK, JobInv, JobAt, ClientInv, PhaseInv, NewInv, DecidedInv, New, Enqueuing, Resolving
<1>20. ASSUME NEW down \in SUBSET Req, Crash(down) PROVE DecidedInv'
  BY <1>0, <1>20 DEF Crash, TypeOK, JobInv, JobAt, ClientInv, PhaseInv, NewInv, DecidedInv, New, Enqueuing, Resolving
<1>21. CASE UNCHANGED vars
  BY <1>0, <1>21 DEF vars, TypeOK, JobInv, JobAt, ClientInv, PhaseInv, NewInv, DecidedInv, New, Enqueuing, Resolving
<1>22. QED
  BY <1>1, <1>2, <1>3, <1>4, <1>5, <1>6, <1>7, <1>8, <1>9, <1>10, <1>11, <1>12, <1>13, <1>14, <1>15, <1>16, <1>17, <1>18, <1>19, <1>20, <1>21 DEF Next, Mutation

\* Before the first crash, memory, history and answer go on agreeing.
LEMMA AgreeStep == Inv /\ [Next]_vars => AgreeInv'
<1> SUFFICES ASSUME Inv, [Next]_vars PROVE AgreeInv'
  OBVIOUS
<1> USE ApprovalAssumption DEF ClientState, Decision, Ended, Sending, Failed
<1>0. TypeOK /\ ClientInv /\ JobInv /\ PhaseInv /\ NewInv /\ DecidedInv /\ AgreeInv
  BY DEF Inv
<1>1. CASE Load
  BY <1>0, <1>1 DEF Load, Timed, TypeOK, JobInv, JobAt, ClientInv, PhaseInv, NewInv, DecidedInv, AgreeInv, Answer, New, Enqueuing, Resolving
<1>2. CASE StartEnqueue
  BY <1>0, <1>2, HeadFacts DEF StartEnqueue, Starts, TypeOK, JobInv, JobAt, ClientInv, PhaseInv, NewInv, DecidedInv, AgreeInv, Answer, New, Enqueuing, Resolving
<1>3. CASE Decide
  <2> DEFINE j == Head(jobs)
  <2>1. /\ loaded /\ phase' = "saving" /\ entry[j.req] = "pending" /\ j.req \in Req
        /\ entry' = [entry EXCEPT ![j.req] = IF j.req \in waiters THEN "none" ELSE j.dec]
        /\ client' = [client EXCEPT ![j.req] = IF j.req \in waiters THEN j.dec ELSE @]
        /\ UNCHANGED <<loaded, jobs, history, crashes>> /\ j.dec \in Decision
    BY <1>0, <1>3, HeadFacts DEF Decide, Starts, Open, TypeOK
  <2>2. entry \in [Req -> {"none", "pending", "allow", "deny"}] /\ client \in [Req -> ClientState]
    BY <1>0 DEF TypeOK
  <2>3. ASSUME crashes = 0, NEW r \in Req, r # j.req
        PROVE  /\ entry'[r] \in Decision => history'[r] \subseteq {entry'[r]}
               /\ Answer(r)' # "none" => /\ history'[r] \subseteq {Answer(r)'}
                                        /\ entry'[r] \in {"none", Answer(r)'}
               /\ ~Resolving(r)'
    <3>1. /\ entry'[r] = entry[r] /\ client'[r] = client[r] /\ history'[r] = history[r]
          /\ Answer(r)' = Answer(r)
      BY <2>1, <2>2, <2>3 DEF Answer
    <3>2. ~Resolving(r)'
      BY <2>1, <2>3 DEF Resolving
    <3>3. QED
      BY <1>0, <2>3, <3>1, <3>2 DEF AgreeInv
  <2>4. ASSUME crashes = 0
        PROVE  /\ entry'[j.req] \in {"none", j.dec} /\ history'[j.req] = {}
               /\ Answer(j.req)' \in {"none", j.dec}
    <3>1. entry'[j.req] \in {"none", j.dec} /\ client'[j.req] \in {j.dec, client[j.req]}
      BY <2>1, <2>2
    <3>2. history'[j.req] = {}
      BY <1>0, <2>1 DEF DecidedInv
    <3>3. Answer(j.req) = "none"
      BY <1>0, <2>1, <2>4 DEF AgreeInv, Answer
    <3>4. QED
      BY <2>1, <3>1, <3>2, <3>3 DEF Answer
  <2>5. QED
    BY <2>1, <2>2, <2>3, <2>4 DEF AgreeInv
<1>4. CASE AlreadyDecided
  <2> DEFINE j == Head(jobs)
  <2>1. /\ j.req \in Req /\ JobAt(j) /\ entry[j.req] \in Decision /\ phase' = "ready"
        /\ client' = IF j.by = "poll" THEN [client EXCEPT ![j.req] = Sending[entry[j.req]]] ELSE client
        /\ UNCHANGED <<entry, loaded, history, crashes>>
    BY <1>0, <1>4, HeadFacts DEF AlreadyDecided, Starts, Open, Told, TypeOK
  <2>2. client \in [Req -> ClientState] /\ (j.by = "poll" => ~New(j.req))
    BY <1>0, <2>1 DEF TypeOK, JobAt
  <2>3. ASSUME NEW r \in Req
        PROVE  /\ client'[r] = client[r] \/ (r = j.req /\ Answer(r)' = entry[r])
               /\ New(r) => New(r)'
    <3>1. CASE j.by = "poll" /\ r = j.req
      <4>1. client'[r] = Sending[entry[r]]
        BY <2>1, <2>2, <3>1
      <4>2. Answer(r)' = entry[r]
        BY <2>1, <3>1, <4>1 DEF Answer
      <4>3. QED
        BY <2>2, <3>1, <4>2
    <3>2. CASE ~(j.by = "poll" /\ r = j.req)
      <4>1. client'[r] = client[r]
        BY <2>1, <2>2, <3>2
      <4>2. QED
        BY <4>1 DEF New
    <3>3. QED
      BY <3>1, <3>2
  <2>4. \A r \in Req : ~Resolving(r)'
    BY <2>1 DEF Resolving
  <2>5. ASSUME crashes = 0, NEW r \in Req
        PROVE  /\ entry'[r] \in Decision => history'[r] \subseteq {entry'[r]}
               /\ Answer(r)' # "none" => /\ history'[r] \subseteq {Answer(r)'}
                                        /\ entry'[r] \in {"none", Answer(r)'}
    <3>1. /\ entry[r] \in Decision => history[r] \subseteq {entry[r]}
          /\ Answer(r) # "none" => history[r] \subseteq {Answer(r)} /\ entry[r] \in {"none", Answer(r)}
      BY <1>0, <2>5 DEF AgreeInv
    <3>2. CASE client'[r] = client[r]
      BY <2>1, <3>1, <3>2 DEF Answer
    <3>3. CASE r = j.req /\ Answer(r)' = entry[r]
      BY <2>1, <3>1, <3>3
    <3>4. QED
      BY <2>3, <3>2, <3>3
  <2>6. crashes = 0 /\ ~loaded => \A r \in Req : New(r)'
    BY <1>0, <2>3 DEF AgreeInv
  <2>7. QED
    BY <2>1, <2>4, <2>5, <2>6 DEF AgreeInv
<1>5. CASE NotFound
  BY <1>0, <1>5, HeadFacts DEF NotFound, Starts, TypeOK, JobInv, JobAt, ClientInv, PhaseInv, NewInv, DecidedInv, AgreeInv, Answer, New, Enqueuing, Resolving
<1>6. CASE Register
  BY <1>0, <1>6, HeadFacts DEF Register, Starts, Registered, TypeOK, JobInv, JobAt, ClientInv, PhaseInv, NewInv, DecidedInv, AgreeInv, Answer, New, Enqueuing, Resolving
<1>7. CASE StartDelivered
  BY <1>0, <1>7, HeadFacts DEF StartDelivered, Starts, TypeOK, JobInv, JobAt, ClientInv, PhaseInv, NewInv, DecidedInv, AgreeInv, Answer, New, Enqueuing, Resolving
<1>8. CASE Save
  BY <1>0, <1>8, HeadFacts DEF Save, Snapshot, TypeOK, JobInv, JobAt, ClientInv, PhaseInv, NewInv, DecidedInv, AgreeInv, Answer, New, Enqueuing, Resolving
<1>9. CASE SaveFails
  BY <1>0, <1>9, HeadFacts DEF SaveFails, TypeOK, JobInv, JobAt, ClientInv, PhaseInv, NewInv, DecidedInv, AgreeInv, Answer, New, Enqueuing, Resolving
<1>10. CASE LogEnqueued
  BY <1>0, <1>10, HeadFacts DEF LogEnqueued, TypeOK, JobInv, JobAt, ClientInv, PhaseInv, NewInv, DecidedInv, AgreeInv, Answer, New, Enqueuing, Resolving
<1>11. CASE LogResolved
  BY <1>0, <1>11, HeadFacts DEF LogResolved, Told, TypeOK, JobInv, JobAt, ClientInv, PhaseInv, NewInv, DecidedInv, AgreeInv, Answer, New, Enqueuing, Resolving
<1>12. CASE LogDelivered
  BY <1>0, <1>12, HeadFacts DEF LogDelivered, TypeOK, JobInv, JobAt, ClientInv, PhaseInv, NewInv, DecidedInv, AgreeInv, Answer, New, Enqueuing, Resolving
<1>13. ASSUME NEW r \in Req, Ask(r) PROVE AgreeInv'
  BY <1>0, <1>13 DEF Ask, TypeOK, JobInv, JobAt, ClientInv, PhaseInv, NewInv, DecidedInv, AgreeInv, Answer, New, Enqueuing, Resolving
<1>14. ASSUME NEW r \in Req, Expire(r) PROVE AgreeInv'
  BY <1>0, <1>14 DEF Expire, TypeOK, JobInv, JobAt, ClientInv, PhaseInv, NewInv, DecidedInv, AgreeInv, Answer, New, Enqueuing, Resolving
<1>15. ASSUME NEW r \in Req, TimerFires(r) PROVE AgreeInv'
  BY <1>0, <1>15 DEF TimerFires, TypeOK, JobInv, JobAt, ClientInv, PhaseInv, NewInv, DecidedInv, AgreeInv, Answer, New, Enqueuing, Resolving
<1>16. ASSUME NEW r \in Req, Poll(r) PROVE AgreeInv'
  BY <1>0, <1>16, PollFacts DEF TypeOK, JobInv, JobAt, ClientInv, PhaseInv, NewInv, DecidedInv, AgreeInv, Answer, New, Enqueuing, Resolving
<1>17. ASSUME NEW r \in Req, Respond(r) PROVE AgreeInv'
  BY <1>0, <1>17, RespondFacts DEF TypeOK, JobInv, JobAt, ClientInv, PhaseInv, NewInv, DecidedInv, AgreeInv, Answer, New, Enqueuing, Resolving
<1>18. ASSUME NEW r \in Req, GiveUp(r) PROVE AgreeInv'
  BY <1>0, <1>18 DEF GiveUp, TypeOK, JobInv, JobAt, ClientInv, PhaseInv, NewInv, DecidedInv, AgreeInv, Answer, New, Enqueuing, Resolving
<1>19. ASSUME NEW r \in Req, NEW d \in Decision, UserDecides(r, d) PROVE AgreeInv'
  BY <1>0, <1>19 DEF UserDecides, TypeOK, JobInv, JobAt, ClientInv, PhaseInv, NewInv, DecidedInv, AgreeInv, Answer, New, Enqueuing, Resolving
<1>20. ASSUME NEW down \in SUBSET Req, Crash(down) PROVE AgreeInv'
  BY <1>0, <1>20 DEF Crash, TypeOK, JobInv, JobAt, ClientInv, PhaseInv, NewInv, DecidedInv, AgreeInv, Answer, New, Enqueuing, Resolving
<1>21. CASE UNCHANGED vars
  BY <1>0, <1>21 DEF vars, TypeOK, JobInv, JobAt, ClientInv, PhaseInv, NewInv, DecidedInv, AgreeInv, Answer, New, Enqueuing, Resolving
<1>22. QED
  BY <1>1, <1>2, <1>3, <1>4, <1>5, <1>6, <1>7, <1>8, <1>9, <1>10, <1>11, <1>12, <1>13, <1>14, <1>15, <1>16, <1>17, <1>18, <1>19, <1>20, <1>21 DEF Next, Mutation

\* The mutation that ran leaves the queue.
LEMMA PopFacts ==
  ASSUME jobs \in Seq(JobType), jobs # <<>>, jobs' = Tail(jobs)
  PROVE  /\ 1 \in DOMAIN jobs /\ jobs[1] = Head(jobs) /\ Head(jobs) \in JobType
         /\ \A i \in DOMAIN jobs' :
              i + 1 \in DOMAIN jobs /\ i \in Nat \ {0} /\ jobs'[i] = jobs[i + 1]
         /\ \A i \in DOMAIN jobs :
              i # 1 => i \in Nat /\ i - 1 \in DOMAIN jobs' /\ jobs'[i - 1] = jobs[i]
  BY TailFacts

\* What joins the queue may not double a mutation that enqueues or waits.
LEMMA JobJoin ==
  ASSUME TypeOK, JobInv, NEW j \in JobType, jobs' = Append(jobs, j),
         \A k \in JobType : JobAt(k) => JobAt(k)',
         JobAt(j)',
         j.op \in {"enqueue", "wait"} =>
           \A i \in DOMAIN jobs : ~(jobs[i].op = j.op /\ jobs[i].req = j.req)
  PROVE  JobInv'
<1>1. jobs \in Seq(JobType)
  BY DEF TypeOK
<1>2. (\A i \in DOMAIN jobs : JobAt(jobs[i]))'
  <2>1. \A i \in DOMAIN jobs : jobs[i] \in JobType /\ JobAt(jobs[i])
    BY <1>1 DEF JobInv
  <2>2. \A k \in JobType : JobAt(k) \/ k = j => JobAt(k)'
    OBVIOUS
  <2>3. \A i \in DOMAIN jobs' : jobs'[i] \in JobType /\ (JobAt(jobs'[i]) \/ jobs'[i] = j)
    BY <1>1, <2>1, JoinFacts
  <2>4. \A i \in DOMAIN jobs' : \A k \in JobType : k = jobs'[i] => JobAt(k)'
    BY <2>2, <2>3
  <2>5. QED
    BY <2>3, <2>4 DEF JobAt, New
<1>3. \A i, k \in DOMAIN jobs' :
        /\ jobs'[i].op \in {"enqueue", "wait"}
        /\ jobs'[k].op = jobs'[i].op /\ jobs'[k].req = jobs'[i].req
        => i = k
  BY <1>1, JoinFacts DEF JobInv
<1>4. QED
  BY <1>2, <1>3 DEF JobInv

\* A step that leaves the queue alone must leave its mutations in order.
LEMMA JobSame ==
  ASSUME TypeOK, JobInv, jobs' = jobs, \A k \in JobType : JobAt(k) => JobAt(k)'
  PROVE  JobInv'
<1>1. \A i \in DOMAIN jobs : jobs[i] \in JobType /\ JobAt(jobs[i])
  BY DEF JobInv, TypeOK
<1>2. \A i \in DOMAIN jobs : \A k \in JobType : k = jobs[i] => JobAt(k)'
  BY <1>1
<1>3. QED
  BY <1>1, <1>2 DEF JobInv, JobAt, New

\* What leaves the queue disturbs no other mutation.
LEMMA JobPop ==
  ASSUME TypeOK, JobInv, jobs # <<>>, jobs' = Tail(jobs),
         \A k \in JobType : JobAt(k) => JobAt(k)'
  PROVE  JobInv'
<1>1. jobs \in Seq(JobType)
  BY DEF TypeOK
<1>2. (\A i \in DOMAIN jobs : JobAt(jobs[i]))'
  <2>1. \A i \in DOMAIN jobs : jobs[i] \in JobType /\ JobAt(jobs[i])
    BY <1>1 DEF JobInv
  <2>2. \A i \in DOMAIN jobs' : jobs'[i] \in JobType /\ JobAt(jobs'[i])
    BY <1>1, <2>1, PopFacts
  <2>3. \A i \in DOMAIN jobs' : \A k \in JobType : k = jobs'[i] => JobAt(k)'
    BY <2>2
  <2>4. QED
    BY <2>2, <2>3 DEF JobAt, New
<1>3. \A i, k \in DOMAIN jobs' :
        /\ jobs'[i].op \in {"enqueue", "wait"}
        /\ jobs'[k].op = jobs'[i].op /\ jobs'[k].req = jobs'[i].req
        => i = k
  BY <1>1, PopFacts DEF JobInv
<1>4. QED
  BY <1>2, <1>3 DEF JobInv

\* A mutation in the queue goes on belonging to what its requester does.
LEMMA JobStep == Inv /\ [Next]_vars => JobInv'
<1> SUFFICES ASSUME Inv, [Next]_vars PROVE JobInv'
  OBVIOUS
<1> USE ApprovalAssumption DEF ClientState, Decision, Ended, Sending, Failed
<1>0. TypeOK /\ ClientInv /\ JobInv /\ PhaseInv /\ NewInv
  BY DEF Inv
<1>1. CASE Load
  BY <1>0, <1>1 DEF Load, Timed, TypeOK, JobInv, JobAt, ClientInv, NewInv, New
<1>2. CASE StartEnqueue
  BY <1>0, <1>2, HeadFacts DEF StartEnqueue, Starts, TypeOK, JobInv, JobAt, ClientInv, NewInv, New
<1>3. CASE Decide
  BY <1>0, <1>3, HeadFacts DEF Decide, Starts, Open, TypeOK, JobInv, JobAt, ClientInv, NewInv, New
<1>4. CASE AlreadyDecided
  BY <1>0, <1>4, HeadFacts, PopFacts DEF AlreadyDecided, Starts, Open, Told, TypeOK, JobInv, JobAt, ClientInv, NewInv, New
<1>5. CASE NotFound
  BY <1>0, <1>5, HeadFacts, PopFacts DEF NotFound, Starts, TypeOK, JobInv, JobAt, ClientInv, NewInv, New
<1>6. CASE Register
  <2> DEFINE r == Head(jobs).req
  <2>1. /\ jobs # <<>> /\ jobs' = Tail(jobs) /\ jobs \in Seq(JobType) /\ r \in Req
        /\ client' = [client EXCEPT ![r] = Registered(r)] /\ Head(jobs).op = "wait"
        /\ client[r] = "registering" /\ r \in Waiter
    BY <1>0, <1>6, HeadFacts DEF Register, Starts, TypeOK, JobAt, ClientInv
  <2>2. /\ 1 \in DOMAIN jobs /\ jobs[1] = Head(jobs)
        /\ \A i \in DOMAIN jobs' :
             i + 1 \in DOMAIN jobs /\ i \in Nat \ {0} /\ jobs'[i] = jobs[i + 1]
    BY <2>1, PopFacts
  <2>3. ASSUME NEW i \in DOMAIN jobs', NEW k \in JobType, k = jobs'[i] PROVE JobAt(k)'
    <3>1. i + 1 \in DOMAIN jobs /\ i + 1 # 1 /\ k = jobs[i + 1] /\ k.req \in Req
      BY <2>1, <2>2, <2>3 DEF JobType
    <3>2. JobAt(k) /\ ~(k.op = "wait" /\ k.req = r)
      <4>1. \A i1, i2 \in DOMAIN jobs : /\ jobs[i1].op = "wait" /\ jobs[i2].op = "wait"
                                       /\ jobs[i1].req = jobs[i2].req => i1 = i2
        BY <1>0 DEF JobInv
      <4>2. QED
        BY <1>0, <2>1, <2>2, <3>1, <4>1 DEF JobInv
    <3>3. client'[k.req] = client[k.req] \/ k.req = r
      BY <1>0, <2>1, <3>1 DEF TypeOK
    <3>4. k.req = r => k.op \notin {"enqueue", "wait"} /\ k.by # "poll"
      BY <2>1, <3>2 DEF JobAt
    <3>5. QED
      BY <3>2, <3>3, <3>4 DEF JobAt, New
  <2>4. \A i, k \in DOMAIN jobs' :
          /\ jobs'[i].op \in {"enqueue", "wait"}
          /\ jobs'[k].op = jobs'[i].op /\ jobs'[k].req = jobs'[i].req
          => i = k
    BY <1>0, <2>2 DEF JobInv
  <2>5. \A i \in DOMAIN jobs' : jobs'[i] \in JobType
    BY <2>1, <2>2
  <2>6. \A i \in DOMAIN jobs' : \A k \in JobType : k = jobs'[i] => JobAt(k)'
    BY <2>3
  <2>7. QED
    BY <2>4, <2>5, <2>6 DEF JobInv, JobAt, New
<1>7. CASE StartDelivered
  <2>1. jobs # <<>> /\ client' = client /\ (jobs' = jobs \/ jobs' = Tail(jobs))
    BY <1>7 DEF StartDelivered, Starts
  <2>2. \A k \in JobType : JobAt(k) => JobAt(k)'
    BY <2>1 DEF JobAt, New
  <2>3. jobs' = jobs => JobInv'
    BY <1>0, <2>2, JobSame
  <2>4. QED
    BY <1>0, <2>1, <2>2, <2>3, JobPop
<1>8. CASE Save
  BY <1>0, <1>8, HeadFacts DEF Save, Snapshot, TypeOK, JobInv, JobAt, ClientInv, NewInv, New
<1>9. CASE SaveFails
  BY <1>0, <1>9, HeadFacts, PopFacts DEF SaveFails, TypeOK, JobInv, JobAt, ClientInv, NewInv, New
<1>10. CASE LogEnqueued
  <2> DEFINE q == Tail(jobs)
  <2>1. PICK r \in Req :
        /\ jobs \in Seq(JobType) /\ jobs # <<>> /\ r = Head(jobs).req
        /\ 1 \in DOMAIN jobs /\ jobs[1] = Head(jobs) /\ Head(jobs) \in JobType
        /\ Head(jobs).op = "enqueue" /\ client[r] = "asking"
        /\ q \in Seq(JobType)
    BY <1>0, <1>10, HeadFacts, TailFacts DEF LogEnqueued, TypeOK, JobAt
  <2>2. PICK j \in JobType :
        /\ j = Job("wait", r, TimeoutAction, "requester")
        /\ j.op = "wait" /\ j.req = r /\ j.by = "requester"
    BY JobFacts DEF Job
  <2>3. IF r \in Waiter
          THEN client' = [client EXCEPT ![r] = "registering"] /\ jobs' = Append(q, j)
          ELSE client' = [client EXCEPT ![r] = "polling"] /\ jobs' = q
    BY <1>10, <2>1, <2>2 DEF LogEnqueued
  <2>4. \A k \in JobType : JobAt(k) /\ ~(k.op = "enqueue" /\ k.req = r) => JobAt(k)'
    BY <1>0, <2>1, <2>3 DEF TypeOK, JobAt, JobType, New
  <2>5. \A i \in DOMAIN jobs :
          i # 1 => /\ jobs[i] \in JobType /\ JobAt(jobs[i])
                   /\ ~(jobs[i].op \in {"enqueue", "wait"} /\ jobs[i].req = r)
    BY <1>0, <2>1 DEF JobInv, JobAt
  <2>6. \A i \in DOMAIN q : i + 1 \in DOMAIN jobs /\ i \in Nat \ {0} /\ q[i] = jobs[i + 1]
    BY <2>1, TailFacts
  <2> HIDE DEF q
  <2>7. /\ \A i \in DOMAIN q : /\ q[i] \in JobType
                             /\ JobAt(q[i]) /\ ~(q[i].op \in {"enqueue", "wait"} /\ q[i].req = r)
        /\ \A i, k \in DOMAIN q :
             q[i].op \in {"enqueue", "wait"} /\ q[k].op = q[i].op /\ q[k].req = q[i].req => i = k
    BY <1>0, <2>5, <2>6 DEF JobInv
  <2>8. CASE r \notin Waiter
    <3>1. \A i \in DOMAIN q : \A k \in JobType : k = q[i] => JobAt(k)'
      BY <2>4, <2>7
    <3>2. QED
      BY <2>3, <2>7, <2>8, <3>1 DEF JobInv, JobAt, New
  <2>9. CASE r \in Waiter
    <3>1. JobAt(j)'
      BY <1>0, <2>1, <2>2, <2>3, <2>9 DEF TypeOK, JobAt, New
    <3>2. /\ \A i \in DOMAIN jobs' : (i \in DOMAIN q /\ jobs'[i] = q[i]) \/ i = Len(q) + 1
          /\ jobs'[Len(q) + 1] = j
      BY <2>1, <2>2, <2>3, <2>9, AppendFacts
    <3>3. \A i \in DOMAIN jobs' : \A k \in JobType : k = jobs'[i] => JobAt(k)'
      BY <2>4, <2>7, <3>1, <3>2
    <3>4. \A i, k \in DOMAIN jobs' :
            /\ jobs'[i].op \in {"enqueue", "wait"}
            /\ jobs'[k].op = jobs'[i].op /\ jobs'[k].req = jobs'[i].req
            => i = k
      BY <2>2, <2>7, <3>2
    <3>5. \A i \in DOMAIN jobs' : jobs'[i] \in JobType
      BY <2>2, <2>7, <3>2
    <3>6. QED
      BY <3>3, <3>4, <3>5 DEF JobInv, JobAt, New
  <2>10. QED
    BY <2>8, <2>9
<1>11. CASE LogResolved
  BY <1>0, <1>11, HeadFacts, PopFacts DEF LogResolved, Told, TypeOK, JobInv, JobAt, ClientInv, NewInv, New
<1>12. CASE LogDelivered
  BY <1>0, <1>12, HeadFacts, PopFacts DEF LogDelivered, TypeOK, JobInv, JobAt, ClientInv, NewInv, New
<1>13. ASSUME NEW r \in Req, Ask(r) PROVE JobInv'
  <2> DEFINE j == Job("enqueue", r, TimeoutAction, "requester")
  <2>1. j \in JobType /\ j.op = "enqueue" /\ j.req = r /\ j.by = "requester"
    BY JobFacts DEF Job, Resolve
  <2>2. jobs' = Append(jobs, j)
    BY <1>13 DEF Ask
  <2> HIDE DEF j
  <2>3. \A k \in JobType : JobAt(k) => JobAt(k)'
    BY <1>0, <1>13 DEF Ask, TypeOK, JobAt, JobType, New
  <2>6. \A i \in DOMAIN jobs : ~(j.op = "enqueue" /\ jobs[i].op = j.op /\ jobs[i].req = r)
    BY <1>0, <2>1, <1>13 DEF Ask, TypeOK, JobInv, JobAt, New
  <2>4. JobAt(j)'
    BY <1>0, <2>1, <1>13 DEF Ask, TypeOK, JobAt, New
  <2>7. QED
    BY <1>0, <2>1, <2>2, <2>3, <2>4, <2>6, JobJoin
<1>14. ASSUME NEW r \in Req, Expire(r) PROVE JobInv'
  BY <1>0, <1>14 DEF Expire, TypeOK, JobInv, JobAt, ClientInv, NewInv, New
<1>15. ASSUME NEW r \in Req, TimerFires(r) PROVE JobInv'
  <2> DEFINE j == Resolve(r, TimeoutAction, "timer")
  <2>1. j \in JobType /\ j.op = "resolve" /\ j.req = r /\ j.by = "timer"
    BY JobFacts DEF Job, Resolve
  <2>2. jobs' = Append(jobs, j)
    BY <1>15 DEF TimerFires
  <2> HIDE DEF j
  <2>3. \A k \in JobType : JobAt(k) => JobAt(k)'
    BY <1>0, <1>15 DEF TimerFires, TypeOK, JobAt, JobType, New
  <2>6. \A i \in DOMAIN jobs : ~(j.op = "enqueue" /\ jobs[i].op = j.op /\ jobs[i].req = r)
    BY <1>0, <2>1, <1>15 DEF TimerFires, TypeOK, JobInv, JobAt, New
  <2>4. JobAt(j)'
    BY <1>0, <2>1, <1>15 DEF TimerFires, TypeOK, JobAt, New
  <2>7. QED
    BY <1>0, <2>1, <2>2, <2>3, <2>4, <2>6, JobJoin
<1>16. ASSUME NEW r \in Req, Poll(r) PROVE JobInv'
  <2> DEFINE j == Resolve(r, TimeoutAction, "poll")
  <2>1. j \in JobType /\ j.op = "resolve" /\ j.req = r /\ j.by = "poll"
    BY JobFacts DEF Job, Resolve
  <2>2. jobs' = jobs \/ (jobs' = Append(jobs, j) /\ client' = [client EXCEPT ![r] = "deciding"])
    BY <1>0, <1>16, PollFacts
  <2> HIDE DEF j
  <2>3. \A k \in JobType : JobAt(k) => JobAt(k)'
    BY <1>0, <1>16, PollFacts DEF TypeOK, JobAt, JobType, New
  <2>4. jobs' = Append(jobs, j) => JobAt(j)'
    BY <1>0, <2>1, <2>2, <1>16, PollFacts DEF TypeOK, ClientInv, JobAt, New
  <2>5. jobs' = jobs => JobInv'
    BY <1>0, <2>3, JobSame
  <2>6. QED
    BY <1>0, <2>1, <2>2, <2>3, <2>4, <2>5, JobJoin
<1>17. ASSUME NEW r \in Req, Respond(r) PROVE JobInv'
  <2>1. PICK d \in Decision :
          /\ client[r] = Sending[d]
          /\ client' = [client EXCEPT ![r] = d] \/ client' = [client EXCEPT ![r] = Failed(r)]
          /\ jobs' = jobs \/ jobs' = Append(jobs, Job("delivered", r, d, "requester"))
    BY <1>0, <1>17, RespondFacts
  <2> DEFINE j == Job("delivered", r, d, "requester")
  <2>2. j \in JobType /\ j.op = "delivered" /\ j.req = r /\ j.by = "requester"
    BY JobFacts DEF Job
  <2>3. jobs' = jobs \/ jobs' = Append(jobs, j)
    BY <2>1
  <2> HIDE DEF j
  <2>4. \A k \in JobType : JobAt(k) => JobAt(k)'
    BY <1>0, <2>1 DEF TypeOK, JobAt, JobType, New
  <2>5. JobAt(j)'
    BY <1>0, <2>1, <2>2 DEF TypeOK, ClientInv, JobAt, New
  <2>6. jobs' = jobs => JobInv'
    BY <1>0, <2>4, JobSame
  <2>7. QED
    BY <1>0, <2>2, <2>3, <2>4, <2>5, <2>6, JobJoin
<1>18. ASSUME NEW r \in Req, GiveUp(r) PROVE JobInv'
  BY <1>0, <1>18 DEF GiveUp, TypeOK, JobInv, JobAt, ClientInv, NewInv, New
<1>19. ASSUME NEW r \in Req, NEW d \in Decision, UserDecides(r, d) PROVE JobInv'
  <2> DEFINE j == Resolve(r, d, "user")
  <2>1. j \in JobType /\ j.op = "resolve" /\ j.req = r /\ j.by = "user"
    BY JobFacts DEF Job, Resolve
  <2>2. jobs' = Append(jobs, j)
    BY <1>19 DEF UserDecides
  <2> HIDE DEF j
  <2>3. \A k \in JobType : JobAt(k) => JobAt(k)'
    BY <1>0, <1>19 DEF UserDecides, TypeOK, JobAt, JobType, New
  <2>6. \A i \in DOMAIN jobs : ~(j.op = "enqueue" /\ jobs[i].op = j.op /\ jobs[i].req = r)
    BY <1>0, <2>1, <1>19 DEF UserDecides, TypeOK, JobInv, JobAt, New
  <2>4. JobAt(j)'
    BY <1>0, <2>1, <1>19 DEF UserDecides, TypeOK, JobAt, New
  <2>7. QED
    BY <1>0, <2>1, <2>2, <2>3, <2>4, <2>6, JobJoin
<1>20. ASSUME NEW down \in SUBSET Req, Crash(down) PROVE JobInv'
  BY <1>0, <1>20 DEF Crash, TypeOK, JobInv, JobAt, ClientInv, NewInv, New
<1>21. CASE UNCHANGED vars
  BY <1>0, <1>21 DEF vars, TypeOK, JobInv, JobAt, ClientInv, NewInv, New
<1>22. QED
  BY <1>1, <1>2, <1>3, <1>4, <1>5, <1>6, <1>7, <1>8, <1>9, <1>10, <1>11, <1>12, <1>13, <1>14, <1>15, <1>16, <1>17, <1>18, <1>19, <1>20, <1>21 DEF Next, Mutation

\* The mutations in the queue when one joins it.
LEMMA QueuedJoin ==
  ASSUME TypeOK, NEW j \in JobType, jobs' = Append(jobs, j)
  PROVE  Queued' = Queued \cup {j}
<1>1. jobs \in Seq(JobType)
  BY DEF TypeOK
<1>2. /\ \A i \in DOMAIN jobs' : (i \in DOMAIN jobs /\ jobs'[i] = jobs[i]) \/ jobs'[i] = j
      /\ \A i \in DOMAIN jobs : i \in DOMAIN jobs' /\ jobs'[i] = jobs[i]
      /\ \E i \in DOMAIN jobs' : jobs'[i] = j
  BY <1>1, JoinFacts
<1>3. QED
  BY <1>2 DEF Queued

\* The mutations in the queue when the one that ran leaves it.
LEMMA QueuedPop ==
  ASSUME TypeOK, jobs # <<>>, jobs' = Tail(jobs)
  PROVE  Queued' \subseteq Queued /\ Queued \subseteq Queued' \cup {Head(jobs)}
<1>1. jobs \in Seq(JobType)
  BY DEF TypeOK
<1>2. /\ \A i \in DOMAIN jobs' : \E k \in DOMAIN jobs : jobs'[i] = jobs[k]
      /\ \A k \in DOMAIN jobs : jobs[k] = Head(jobs) \/ \E i \in DOMAIN jobs' : jobs'[i] = jobs[k]
  BY <1>1, PopFacts
<1>3. QED
  BY <1>2 DEF Queued

\* The mutation that runs is in the queue.
LEMMA QueuedHead ==
  ASSUME TypeOK, jobs # <<>>
  PROVE  Head(jobs) \in Queued
  BY TailFacts DEF TypeOK, Queued

\* The mutations in the queue when the end of an enqueueing lets its requester wait.
LEMMA QueuedEnqueued ==
  ASSUME TypeOK, JobInv, LogEnqueued
  PROVE  /\ Queued \subseteq Queued' \cup {Head(jobs)} /\ Head(jobs).op = "enqueue"
         /\ \A j \in Queued' : j \in Queued \/ j.op = "wait"
<1>1. jobs \in Seq(JobType) /\ jobs # <<>> /\ Head(jobs) \in JobType /\ Head(jobs).op = "enqueue"
  BY HeadFacts DEF LogEnqueued, TypeOK
<1>2. PICK j \in JobType : j.op = "wait" /\ jobs' \in {Tail(jobs), Append(Tail(jobs), j)}
  <2>1. Job("wait", Head(jobs).req, TimeoutAction, "requester") \in JobType
    BY <1>1, JobFacts, ApprovalAssumption DEF Decision, JobType
  <2>2. QED
    BY <2>1 DEF LogEnqueued, Job
<1>3. CASE jobs' = Tail(jobs)
  BY <1>1, <1>3, QueuedPop
<1>4. CASE jobs' = Append(Tail(jobs), j)
  <2> DEFINE q == Tail(jobs)
  <2>1. /\ q \in Seq(JobType)
        /\ \A i \in DOMAIN q : \E k \in DOMAIN jobs : q[i] = jobs[k]
        /\ \A k \in DOMAIN jobs : jobs[k] = Head(jobs) \/ \E i \in DOMAIN q : q[i] = jobs[k]
    BY <1>1, TailFacts
  <2>2. jobs' = Append(q, j)
    BY <1>4
  <2> HIDE DEF q
  <2>3. /\ \A i \in DOMAIN jobs' : (i \in DOMAIN q /\ jobs'[i] = q[i]) \/ jobs'[i] = j
        /\ \A i \in DOMAIN q : i \in DOMAIN jobs' /\ jobs'[i] = q[i]
    BY <2>1, <2>2, AppendFacts
  <2>4. \A i \in DOMAIN jobs' : jobs'[i] = j \/ \E k \in DOMAIN jobs : jobs'[i] = jobs[k]
    BY <2>1, <2>3
  <2>5. \A k \in DOMAIN jobs : jobs[k] = Head(jobs) \/ \E i \in DOMAIN jobs' : jobs'[i] = jobs[k]
    BY <2>1, <2>3
  <2>6. QED
    BY <1>1, <1>2, <2>4, <2>5 DEF Queued
<1>5. QED
  BY <1>2, <1>3, <1>4

\* A pending request keeps its timer, or a resolution on its way.
LEMMA TimedStep == Inv /\ [Next]_vars => PendingIsTimed'
<1> SUFFICES ASSUME Inv, [Next]_vars PROVE PendingIsTimed'
  OBVIOUS
<1> USE ApprovalAssumption DEF ClientState, Decision, Ended, Sending, Failed
<1>0. TypeOK /\ ClientInv /\ JobInv /\ PhaseInv /\ NewInv /\ DecidedInv /\ PendingIsTimed
  BY DEF Inv
<1>1. CASE Load
  <2>1. Queued' = Queued
    BY <1>1 DEF Load, Queued
  <2>2. QED
    BY <1>0, <1>1, <2>1 DEF Load, Timed, TypeOK, JobAt, ClientInv, PhaseInv, NewInv, DecidedInv, PendingIsTimed, New, Enqueuing, Resolving
<1>2. CASE StartEnqueue
  <2>1. Queued' = Queued
    BY <1>2 DEF StartEnqueue, Queued
  <2>2. QED
    BY <1>0, <1>2, <2>1, HeadFacts, QueuedHead DEF StartEnqueue, Starts, TypeOK, JobAt, ClientInv, PhaseInv, NewInv, DecidedInv, PendingIsTimed, New, Enqueuing, Resolving
<1>3. CASE Decide
  <2>1. Queued' = Queued
    BY <1>3 DEF Decide, Queued
  <2>2. QED
    BY <1>0, <1>3, <2>1, HeadFacts, QueuedHead DEF Decide, Starts, Open, TypeOK, JobAt, ClientInv, PhaseInv, NewInv, DecidedInv, PendingIsTimed, New, Enqueuing, Resolving
<1>4. CASE AlreadyDecided
  BY <1>0, <1>4, HeadFacts, QueuedPop, QueuedHead DEF AlreadyDecided, Starts, Open, Told, TypeOK, JobAt, ClientInv, PhaseInv, NewInv, DecidedInv, PendingIsTimed, New, Enqueuing, Resolving
<1>5. CASE NotFound
  BY <1>0, <1>5, HeadFacts, QueuedPop, QueuedHead DEF NotFound, Starts, TypeOK, JobAt, ClientInv, PhaseInv, NewInv, DecidedInv, PendingIsTimed, New, Enqueuing, Resolving
<1>6. CASE Register
  BY <1>0, <1>6, HeadFacts, QueuedPop, QueuedHead DEF Register, Starts, Registered, TypeOK, JobAt, ClientInv, PhaseInv, NewInv, DecidedInv, PendingIsTimed, New, Enqueuing, Resolving
<1>7. CASE StartDelivered
  <2>1. Queued' \subseteq Queued /\ Queued \subseteq Queued' \cup {Head(jobs)}
    BY <1>0, <1>7, QueuedPop DEF StartDelivered, Starts, Queued
  <2>2. QED
    BY <1>0, <1>7, <2>1, HeadFacts DEF StartDelivered, Starts, TypeOK, JobAt, ClientInv, PhaseInv, NewInv, DecidedInv, PendingIsTimed, New, Enqueuing, Resolving
<1>8. CASE Save
  <2>1. Queued' = Queued
    BY <1>8 DEF Save, Queued
  <2>2. QED
    BY <1>0, <1>8, <2>1, HeadFacts, QueuedHead DEF Save, Snapshot, TypeOK, JobAt, ClientInv, PhaseInv, NewInv, DecidedInv, PendingIsTimed, New, Enqueuing, Resolving
<1>9. CASE SaveFails
  BY <1>0, <1>9, HeadFacts, QueuedPop, QueuedHead DEF SaveFails, TypeOK, JobAt, ClientInv, PhaseInv, NewInv, DecidedInv, PendingIsTimed, New, Enqueuing, Resolving
<1>10. CASE LogEnqueued
  BY <1>0, <1>10, HeadFacts, QueuedEnqueued DEF LogEnqueued, TypeOK, JobAt, ClientInv, PhaseInv, NewInv, DecidedInv, PendingIsTimed, New, Enqueuing, Resolving
<1>11. CASE LogResolved
  BY <1>0, <1>11, HeadFacts, QueuedPop, QueuedHead DEF LogResolved, Told, TypeOK, JobAt, ClientInv, PhaseInv, NewInv, DecidedInv, PendingIsTimed, New, Enqueuing, Resolving
<1>12. CASE LogDelivered
  BY <1>0, <1>12, HeadFacts, QueuedPop, QueuedHead DEF LogDelivered, TypeOK, JobAt, ClientInv, PhaseInv, NewInv, DecidedInv, PendingIsTimed, New, Enqueuing, Resolving
<1>13. ASSUME NEW r \in Req, Ask(r) PROVE PendingIsTimed'
  <2>1. Queued' = Queued \cup {Job("enqueue", r, TimeoutAction, "requester")}
    BY <1>0, <1>13, QueuedJoin, JobFacts DEF Ask
  <2>2. QED
    BY <1>0, <1>13, <2>1 DEF Ask, TypeOK, JobAt, ClientInv, PhaseInv, NewInv, DecidedInv, PendingIsTimed, New, Enqueuing, Resolving, Job, Resolve
<1>14. ASSUME NEW r \in Req, Expire(r) PROVE PendingIsTimed'
  <2>1. Queued' = Queued
    BY <1>14 DEF Expire, Queued
  <2>2. QED
    BY <1>0, <1>14, <2>1 DEF Expire, TypeOK, JobAt, ClientInv, PhaseInv, NewInv, DecidedInv, PendingIsTimed, New, Enqueuing, Resolving
<1>15. ASSUME NEW r \in Req, TimerFires(r) PROVE PendingIsTimed'
  <2>1. PICK j \in JobType : /\ j = Resolve(r, TimeoutAction, "timer")
                             /\ j.op = "resolve" /\ j.req = r
    BY JobFacts DEF Job, Resolve
  <2>2. Queued' = Queued \cup {j}
    BY <1>0, <1>15, <2>1, QueuedJoin DEF TimerFires
  <2>3. armed' = armed \ {r} /\ entry' = entry /\ waiters' = waiters
    BY <1>15 DEF TimerFires
  <2>4. QED
    BY <1>0, <2>1, <2>2, <2>3 DEF PendingIsTimed
<1>16. ASSUME NEW r \in Req, Poll(r) PROVE PendingIsTimed'
  <2>1. PICK j \in JobType : /\ j = Resolve(r, TimeoutAction, "poll")
                             /\ j.op = "resolve" /\ j.req = r /\ j.dec = TimeoutAction
    BY JobFacts DEF Job, Resolve
  <2>2. jobs' = jobs \/ (jobs' = Append(jobs, j) /\ r \in due)
    BY <1>0, <1>16, <2>1, PollFacts DEF Expired
  <2>3. Queued' = Queued \/ (Queued' = Queued \cup {j} /\ r \in due)
    BY <1>0, <2>1, <2>2, QueuedJoin DEF Queued
  <2>4. UNCHANGED <<entry, loaded, armed, waiters, phase, disk, due, wish>>
    BY <1>16 DEF Poll
  <2>5. \/ client' = [client EXCEPT ![r] = Failed(r)] \/ client' = [client EXCEPT ![r] = "deciding"]
        \/ entry[r] \in Decision /\ client' = [client EXCEPT ![r] = Sending[entry[r]]]
    BY <1>0, <1>16, PollFacts
  <2>6. QED
    BY <1>0, <2>1, <2>3, <2>4, <2>5 DEF TypeOK, JobAt, ClientInv, PhaseInv, NewInv, DecidedInv, PendingIsTimed, New, Enqueuing, Resolving
<1>17. ASSUME NEW r \in Req, Respond(r) PROVE PendingIsTimed'
  <2>1. PICK d \in Decision :
          /\ client[r] = Sending[d]
          /\ client' = [client EXCEPT ![r] = d] \/ client' = [client EXCEPT ![r] = Failed(r)]
          /\ jobs' = jobs \/ jobs' = Append(jobs, Job("delivered", r, d, "requester"))
    BY <1>0, <1>17, RespondFacts
  <2>2. PICK j \in JobType : j = Job("delivered", r, d, "requester") /\ j.op = "delivered"
    <3>1. Job("delivered", r, d, "requester") \in JobType
      BY JobFacts
    <3>2. Job("delivered", r, d, "requester").op = "delivered"
      BY DEF Job
    <3>3. QED
      BY <3>1, <3>2
  <2>3. Queued' = Queued \/ Queued' = Queued \cup {j}
    <3>1. CASE jobs' = jobs
      BY <3>1 DEF Queued
    <3>2. CASE jobs' = Append(jobs, j)
      BY <1>0, <2>2, <3>2, QueuedJoin
    <3>3. QED
      BY <2>1, <2>2, <3>1, <3>2
  <2>4. UNCHANGED <<entry, loaded, armed, waiters, phase, disk, due, wish>>
    BY <1>17 DEF Respond
  <2>5. QED
    BY <1>0, <2>1, <2>2, <2>3, <2>4 DEF TypeOK, JobAt, ClientInv, PhaseInv, NewInv, DecidedInv, PendingIsTimed, New, Enqueuing, Resolving
<1>18. ASSUME NEW r \in Req, GiveUp(r) PROVE PendingIsTimed'
  <2>1. Queued' = Queued
    BY <1>18 DEF GiveUp, Queued
  <2>2. QED
    BY <1>0, <1>18, <2>1 DEF GiveUp, TypeOK, JobAt, ClientInv, PhaseInv, NewInv, DecidedInv, PendingIsTimed, New, Enqueuing, Resolving
<1>19. ASSUME NEW r \in Req, NEW d \in Decision, UserDecides(r, d) PROVE PendingIsTimed'
  <2>1. Queued' = Queued \cup {Resolve(r, d, "user")}
    BY <1>0, <1>19, QueuedJoin, JobFacts DEF UserDecides
  <2>2. QED
    BY <1>0, <1>19, <2>1 DEF UserDecides, TypeOK, JobAt, ClientInv, PhaseInv, NewInv, DecidedInv, PendingIsTimed, New, Enqueuing, Resolving, Job, Resolve
<1>20. ASSUME NEW down \in SUBSET Req, Crash(down) PROVE PendingIsTimed'
  <2>1. Queued' = {}
    BY <1>20 DEF Crash, Queued
  <2>2. QED
    BY <1>0, <1>20, <2>1 DEF Crash, TypeOK, JobAt, ClientInv, PhaseInv, NewInv, DecidedInv, PendingIsTimed, New, Enqueuing, Resolving
<1>21. CASE UNCHANGED vars
  <2>1. Queued' = Queued
    BY <1>21 DEF vars, Queued
  <2>2. QED
    BY <1>0, <1>21, <2>1 DEF vars, TypeOK, JobAt, ClientInv, PhaseInv, NewInv, DecidedInv, PendingIsTimed, New, Enqueuing, Resolving
<1>22. QED
  BY <1>1, <1>2, <1>3, <1>4, <1>5, <1>6, <1>7, <1>8, <1>9, <1>10, <1>11, <1>12, <1>13, <1>14, <1>15, <1>16, <1>17, <1>18, <1>19, <1>20, <1>21 DEF Next, Mutation

\* An approval goes on having a reason wherever it shows.
LEMMA AllowStep == Inv /\ [Next]_vars => AllowInv'
<1> SUFFICES ASSUME Inv, [Next]_vars PROVE AllowInv'
  OBVIOUS
<1> USE ApprovalAssumption DEF ClientState, Decision, Ended, Sending, Failed
<1>0. TypeOK /\ ClientInv /\ JobInv /\ PhaseInv /\ NewInv /\ AllowInv
  BY DEF Inv
<1>1. CASE Load
  <2>1. Queued' = Queued
    BY <1>1 DEF Load, Queued
  <2>2. QED
    BY <1>0, <1>1, <2>1 DEF Load, Timed, TypeOK, JobAt, ClientInv, PhaseInv, NewInv, AllowInv, Justified, New
<1>2. CASE StartEnqueue
  <2>1. Queued' = Queued
    BY <1>2 DEF StartEnqueue, Queued
  <2>2. QED
    BY <1>0, <1>2, <2>1, HeadFacts, QueuedHead DEF StartEnqueue, Starts, TypeOK, JobAt, ClientInv, PhaseInv, NewInv, AllowInv, Justified, New
<1>3. CASE Decide
  <2>1. Queued' = Queued
    BY <1>3 DEF Decide, Queued
  <2>2. QED
    BY <1>0, <1>3, <2>1, HeadFacts, QueuedHead DEF Decide, Starts, Open, TypeOK, JobAt, ClientInv, PhaseInv, NewInv, AllowInv, Justified, New
<1>4. CASE AlreadyDecided
  BY <1>0, <1>4, HeadFacts, QueuedPop, QueuedHead DEF AlreadyDecided, Starts, Open, Told, TypeOK, JobAt, ClientInv, PhaseInv, NewInv, AllowInv, Justified, New
<1>5. CASE NotFound
  BY <1>0, <1>5, HeadFacts, QueuedPop, QueuedHead DEF NotFound, Starts, TypeOK, JobAt, ClientInv, PhaseInv, NewInv, AllowInv, Justified, New
<1>6. CASE Register
  BY <1>0, <1>6, HeadFacts, QueuedPop, QueuedHead DEF Register, Starts, Registered, TypeOK, JobAt, ClientInv, PhaseInv, NewInv, AllowInv, Justified, New
<1>7. CASE StartDelivered
  <2>1. Queued' \subseteq Queued /\ Queued \subseteq Queued' \cup {Head(jobs)}
    BY <1>0, <1>7, QueuedPop DEF StartDelivered, Starts, Queued
  <2>2. QED
    BY <1>0, <1>7, <2>1, HeadFacts DEF StartDelivered, Starts, TypeOK, JobAt, ClientInv, PhaseInv, NewInv, AllowInv, Justified, New
<1>8. CASE Save
  <2>1. Queued' = Queued
    BY <1>8 DEF Save, Queued
  <2>2. QED
    BY <1>0, <1>8, <2>1, HeadFacts, QueuedHead DEF Save, Snapshot, TypeOK, JobAt, ClientInv, PhaseInv, NewInv, AllowInv, Justified, New
<1>9. CASE SaveFails
  BY <1>0, <1>9, HeadFacts, QueuedPop, QueuedHead DEF SaveFails, TypeOK, JobAt, ClientInv, PhaseInv, NewInv, AllowInv, Justified, New
<1>10. CASE LogEnqueued
  BY <1>0, <1>10, HeadFacts, QueuedEnqueued DEF LogEnqueued, TypeOK, JobAt, ClientInv, PhaseInv, NewInv, AllowInv, Justified, New
<1>11. CASE LogResolved
  BY <1>0, <1>11, HeadFacts, QueuedPop, QueuedHead DEF LogResolved, Told, TypeOK, JobAt, ClientInv, PhaseInv, NewInv, AllowInv, Justified, New
<1>12. CASE LogDelivered
  BY <1>0, <1>12, HeadFacts, QueuedPop, QueuedHead DEF LogDelivered, TypeOK, JobAt, ClientInv, PhaseInv, NewInv, AllowInv, Justified, New
<1>13. ASSUME NEW r \in Req, Ask(r) PROVE AllowInv'
  <2>1. Queued' = Queued \cup {Job("enqueue", r, TimeoutAction, "requester")}
    BY <1>0, <1>13, QueuedJoin, JobFacts DEF Ask
  <2>2. QED
    BY <1>0, <1>13, <2>1 DEF Ask, TypeOK, JobAt, ClientInv, PhaseInv, NewInv, AllowInv, Justified, New, Job, Resolve
<1>14. ASSUME NEW r \in Req, Expire(r) PROVE AllowInv'
  <2>1. Queued' = Queued
    BY <1>14 DEF Expire, Queued
  <2>2. QED
    BY <1>0, <1>14, <2>1 DEF Expire, TypeOK, JobAt, ClientInv, PhaseInv, NewInv, AllowInv, Justified, New
<1>15. ASSUME NEW r \in Req, TimerFires(r) PROVE AllowInv'
  <2>1. Queued' = Queued \cup {Resolve(r, TimeoutAction, "timer")}
    BY <1>0, <1>15, QueuedJoin, JobFacts DEF TimerFires
  <2>2. QED
    BY <1>0, <1>15, <2>1 DEF TimerFires, TypeOK, JobAt, ClientInv, PhaseInv, NewInv, AllowInv, Justified, New, Job, Resolve
<1>16. ASSUME NEW r \in Req, Poll(r) PROVE AllowInv'
  <2>1. PICK j \in JobType : /\ j = Resolve(r, TimeoutAction, "poll")
                             /\ j.op = "resolve" /\ j.req = r /\ j.dec = TimeoutAction
    BY JobFacts DEF Job, Resolve
  <2>2. jobs' = jobs \/ (jobs' = Append(jobs, j) /\ r \in due)
    BY <1>0, <1>16, <2>1, PollFacts DEF Expired
  <2>3. Queued' = Queued \/ (Queued' = Queued \cup {j} /\ r \in due)
    BY <1>0, <2>1, <2>2, QueuedJoin DEF Queued
  <2>4. UNCHANGED <<entry, loaded, armed, waiters, phase, disk, due, wish>>
    BY <1>16 DEF Poll
  <2>5. \/ client' = [client EXCEPT ![r] = Failed(r)] \/ client' = [client EXCEPT ![r] = "deciding"]
        \/ entry[r] \in Decision /\ client' = [client EXCEPT ![r] = Sending[entry[r]]]
    BY <1>0, <1>16, PollFacts
  <2>6. QED
    BY <1>0, <2>1, <2>3, <2>4, <2>5 DEF TypeOK, JobAt, ClientInv, PhaseInv, NewInv, AllowInv, Justified, New
<1>17. ASSUME NEW r \in Req, Respond(r) PROVE AllowInv'
  <2>1. PICK d \in Decision :
          /\ client[r] = Sending[d]
          /\ client' = [client EXCEPT ![r] = d] \/ client' = [client EXCEPT ![r] = Failed(r)]
          /\ jobs' = jobs \/ jobs' = Append(jobs, Job("delivered", r, d, "requester"))
    BY <1>0, <1>17, RespondFacts
  <2>2. PICK j \in JobType : j = Job("delivered", r, d, "requester") /\ j.op = "delivered"
    <3>1. Job("delivered", r, d, "requester") \in JobType
      BY JobFacts
    <3>2. Job("delivered", r, d, "requester").op = "delivered"
      BY DEF Job
    <3>3. QED
      BY <3>1, <3>2
  <2>3. Queued' = Queued \/ Queued' = Queued \cup {j}
    <3>1. CASE jobs' = jobs
      BY <3>1 DEF Queued
    <3>2. CASE jobs' = Append(jobs, j)
      BY <1>0, <2>2, <3>2, QueuedJoin
    <3>3. QED
      BY <2>1, <2>2, <3>1, <3>2
  <2>4. UNCHANGED <<entry, loaded, armed, waiters, phase, disk, due, wish>>
    BY <1>17 DEF Respond
  <2>5. QED
    BY <1>0, <2>1, <2>2, <2>3, <2>4 DEF TypeOK, JobAt, ClientInv, PhaseInv, NewInv, AllowInv, Justified, New
<1>18. ASSUME NEW r \in Req, GiveUp(r) PROVE AllowInv'
  <2>1. Queued' = Queued
    BY <1>18 DEF GiveUp, Queued
  <2>2. QED
    BY <1>0, <1>18, <2>1 DEF GiveUp, TypeOK, JobAt, ClientInv, PhaseInv, NewInv, AllowInv, Justified, New
<1>19. ASSUME NEW r \in Req, NEW d \in Decision, UserDecides(r, d) PROVE AllowInv'
  <2>1. Queued' = Queued \cup {Resolve(r, d, "user")}
    BY <1>0, <1>19, QueuedJoin, JobFacts DEF UserDecides
  <2>2. QED
    BY <1>0, <1>19, <2>1 DEF UserDecides, TypeOK, JobAt, ClientInv, PhaseInv, NewInv, AllowInv, Justified, New, Job, Resolve
<1>20. ASSUME NEW down \in SUBSET Req, Crash(down) PROVE AllowInv'
  <2>1. Queued' = {}
    BY <1>20 DEF Crash, Queued
  <2>2. QED
    BY <1>0, <1>20, <2>1 DEF Crash, TypeOK, JobAt, ClientInv, PhaseInv, NewInv, AllowInv, Justified, New
<1>21. CASE UNCHANGED vars
  <2>1. Queued' = Queued
    BY <1>21 DEF vars, Queued
  <2>2. QED
    BY <1>0, <1>21, <2>1 DEF vars, TypeOK, JobAt, ClientInv, PhaseInv, NewInv, AllowInv, Justified, New
<1>22. QED
  BY <1>1, <1>2, <1>3, <1>4, <1>5, <1>6, <1>7, <1>8, <1>9, <1>10, <1>11, <1>12, <1>13, <1>14, <1>15, <1>16, <1>17, <1>18, <1>19, <1>20, <1>21 DEF Next, Mutation

--------------------------------------------------------------------------------
(***************************************************************************)
(* The theorems                                                            *)
(***************************************************************************)

\* The server starts without requests.
LEMMA InitInv == Init => Inv
<1> SUFFICES ASSUME Init PROVE Inv
  OBVIOUS
<1> USE ApprovalAssumption DEF Init
<1>1. TypeOK
  <2>1. jobs \in Seq(JobType) /\ phase \in {"ready", "saving", "logging"} /\ phase = "ready"
    OBVIOUS
  <2>2. /\ entry \in [Req -> {"none", "pending"} \cup Decision]
        /\ history \in [Req -> SUBSET Decision] /\ wish \in [Req -> SUBSET Decision]
        /\ client \in [Req -> ClientState]
    BY DEF ClientState
  <2>3. crashes \in 0..MaxCrashes
    OBVIOUS
  <2>4. QED
    BY <2>1, <2>2, <2>3 DEF TypeOK
<1>2. ClientInv /\ JobInv /\ PhaseInv /\ NewInv /\ DecidedInv
  BY DEF ClientInv, JobInv, PhaseInv, NewInv, DecidedInv, Resolving, Enqueuing
<1>3. PendingIsTimed /\ AllowInv
  BY DEF PendingIsTimed, AllowInv, Queued
<1>4. AgreeInv
  BY DEF AgreeInv, New, Resolving, Answer, Decision
<1>5. QED
  BY <1>1, <1>2, <1>3, <1>4 DEF Inv

\* Every part of the invariant survives every step, a crash at any point included.
THEOREM InvCorrect == Spec => []Inv
<1>1. Inv /\ [Next]_vars => Inv'
  <2>1. Inv /\ [Next]_vars => TypeOK'
    BY TypeStep DEF Inv
  <2>2. QED
    BY <2>1, ClientStep, JobStep, PhaseStep, NewStep, DecidedStep, TimedStep, AllowStep,
       AgreeStep DEF Inv
<1>2. QED
  BY <1>1, InitInv, PTL DEF Spec

\* The types of the state of the coordinator and its clients.
THEOREM TypeCorrect == Spec => []TypeOK
<1>1. Inv => TypeOK
  BY DEF Inv
<1>2. QED
  BY <1>1, InvCorrect, PTL

\* With a timeout that fits a timer, an action goes ahead only if a user approved it,
\* or if its time has passed and the settings then approve (scheduleTimeout, resolve).
THEOREM AllowedCorrect ==
  ASSUME TimerFits
  PROVE  Spec => []AllowedIsDecided
<1>1. Inv => AllowedIsDecided
  BY TimerFits DEF Inv, ClientInv, AllowInv, AllowedIsDecided, Justified
<1>2. QED
  BY <1>1, InvCorrect, PTL

\* No restart asks again what a user was told is decided (persistSnapshot in resolve).
THEOREM AckedCorrect == Spec => []AckedIsSaved
<1>1. Inv => AckedIsSaved
  BY DEF Inv, TypeOK, DecidedInv, AckedIsSaved
<1>2. QED
  BY <1>1, InvCorrect, PTL

\* The audit log holds at most one decision of a request, over restarts as well.
THEOREM HistoryCorrect == Spec => []HistoryIsSingle
<1>1. Inv => HistoryIsSingle
  <2>1. Cardinality({}) = 0 /\ Cardinality({"allow"}) = 1 /\ Cardinality({"deny"}) = 1
    BY FS_EmptySet, FS_Singleton, Zenon
  <2>2. Inv => \A r \in Req : Cardinality(history[r]) \in {0, 1}
    BY <2>1 DEF Inv, DecidedInv
  <2>3. QED
    BY <2>2 DEF HistoryIsSingle
<1>2. QED
  BY <1>1, InvCorrect, PTL

\* Before the first crash, requester, audit log and memory say the same.
THEOREM AnswersCorrect == Spec => []AnswersAgree
<1>1. Inv => AnswersAgree
  BY DEF Inv, AgreeInv, AnswersAgree, Answer, Decision
<1>2. QED
  BY <1>1, InvCorrect, PTL

\* A pending request has a timer or a resolution on its way (initializeTimeouts).
THEOREM TimedCorrect == Spec => []PendingIsTimed
<1>1. Inv => PendingIsTimed
  BY DEF Inv
<1>2. QED
  BY <1>1, InvCorrect, PTL

=============================================================================
