--------------------------- MODULE ChannelInboxProofs ---------------------------
(***************************************************************************)
(* TLAPS proofs of the safety properties of ChannelInbox.                  *)
(***************************************************************************)
EXTENDS ChannelInbox, TLAPS

\* The steps of a request that has the reservation, and those after the delivery.
Reserving == {"check", "deliver", "claim", "pruneClaim", "create", "write", "exists"}
Claiming  == Reserving \ {"check", "deliver"}

\* The message was delivered: to the session, or to an operation.
Known == sent > 0 \/ (deep /\ operation \in {"running", "dropped"})

\* Who waits for a reservation is at the step that waits.
WaitInv == \A r \in Req : on[r] # None => pc[r][1] = "wait"

\* Whatever remembers the message, and whoever goes on after a delivery, shows
\* that it was delivered.
SentInv ==
  /\ entry # "none" \/ live \/ tail => Known
  /\ \A r \in Req : pc[r][1] \in Claiming => Known

\* Who is about to hand the message over has seen that the session does not have it,
\* and it still does not, unless an operation was faster.
Unseen == overtaken \/ (~live /\ ~tail)
CheckInv ==
  /\ overtaken => deep
  /\ operation = "running" => Unseen
  /\ \A r \in Req : pc[r][1] = "deliver" => Unseen

\* What every step preserves.
Inv == TypeOK /\ WaitInv /\ SentInv /\ CheckInv /\ AcceptedIsDelivered

USE DEF inbox, hand

--------------------------------------------------------------------------------
\* A place of a request is made of its step and its round.
LEMMA Places ==
  /\ \A s \in Steps, d \in Rounds : At(s, d) \in Steps \X Rounds /\ At(s, d)[1] = s /\ At(s, d)[2] = d
  /\ \A x \in Steps \X Rounds : x[1] \in Steps /\ x[2] \in Rounds /\ x = At(x[1], x[2])
  BY DEF At

\* The invariant holds in the initial states.
LEMMA InvInit == Init => Inv
<1> SUFFICES ASSUME Init PROVE Inv
  OBVIOUS
<1>1. "idle" \in Steps /\ "first" \in Rounds
  BY DEF Steps, Rounds
<1>2. /\ At("idle", "first") \in Steps \X Rounds
      /\ \A r \in Req : pc[r] = At("idle", "first") /\ pc[r][1] = "idle"
  BY <1>1, Places DEF Init
<1>3. TypeOK
  <2>1. pc \in [Req -> Steps \X Rounds]
    BY <1>2 DEF Init
  <2>2. \A r \in Req : inFlight # r /\ pc[r][1] \notin Reserving
    BY <1>2, InboxAssumption DEF Init, Reserving
  <2>3. QED
    <3>1. /\ answer \in [Req -> {None, "delivered", "duplicate", "retry", "failed"}]
          /\ on \in [Req -> Req \cup {None}]
      BY DEF Init
    <3>2. sent \in Nat /\ crashes \in 0..MaxCrashes
      BY InboxAssumption DEF Init
    <3>3. QED
      BY <2>1, <2>2, <3>1, <3>2 DEF Init, TypeOK, Reserving
<1>4. WaitInv
  BY DEF Init, WaitInv
<1>5. SentInv
  BY <1>2 DEF Init, SentInv, Claiming, Reserving
<1>8. CheckInv
  BY <1>2 DEF Init, CheckInv, Unseen
<1>6. AcceptedIsDelivered
  BY InboxAssumption DEF Init, AcceptedIsDelivered
<1>7. QED
  BY <1>3, <1>4, <1>5, <1>6, <1>8 DEF Inv

\* The end of a reservation answers its holder and sends its waiters on.
LEMMA ReleasedFacts ==
  ASSUME Inv, NEW r \in Req, inFlight = r, NEW b \in BOOLEAN,
         NEW a \in {"delivered", "failed"}, Released(r, b, a)
  PROVE  /\ pc' \in [Req -> Steps \X Rounds] /\ on' \in [Req -> Req \cup {None}]
         /\ answer' \in [Req -> {None, "delivered", "duplicate", "retry", "failed"}]
         /\ inFlight' = None
         /\ \A w \in Req : pc'[w][1] \notin Reserving
         /\ \A w \in Req : on'[w] # None => pc'[w][1] = "wait"
         /\ \A w \in Req : answer'[w] \in {answer[w], "failed"} \/ b \/ a = "delivered"
<1>1. TypeOK /\ WaitInv
  BY DEF Inv
<1>2. None \notin Req
  BY InboxAssumption
<1>3. \A w \in Req \ {r} : pc[w][1] \notin Reserving
  BY <1>1 DEF TypeOK, Reserving
<1>4. \A w \in Waiting(r) : w \in Req /\ pc[w][1] = "wait" /\ pc[w][2] \in Rounds
  BY <1>1, <1>2, Places DEF Waiting, WaitInv, TypeOK
<1>5. r \notin Waiting(r)
  BY <1>1, <1>4 DEF TypeOK
<1>6. \A w \in Req : pc'[w] = IF w = r \/ (w \in Waiting(r) /\ b) THEN At("ended", "first")
                              ELSE IF w \in Waiting(r) THEN At("ask", pc[w][2]) ELSE pc[w]
  <2> TAKE w \in Req
  <2>1. CASE w = r \/ (w \in Waiting(r) /\ b)
    BY <2>1, <1>5 DEF Released
  <2>2. CASE w # r /\ w \in Waiting(r) /\ ~b
    BY <2>2 DEF Released
  <2>3. CASE w # r /\ w \notin Waiting(r)
    BY <2>3 DEF Released
  <2>4. QED
    BY <2>1, <2>2, <2>3
<1>7. pc' = [w \in Req |-> pc'[w]]
  BY DEF Released
<1>8. pc' \in [Req -> Steps \X Rounds]
  <2>1. \A w \in Req : pc'[w] \in Steps \X Rounds
    <3>1. At("ended", "first") \in Steps \X Rounds
      BY Places DEF Steps, Rounds
    <3>2. "ask" \in Steps
      BY DEF Steps
    <3>3. \A w \in Waiting(r) : At("ask", pc[w][2]) \in Steps \X Rounds
      BY <1>4, <3>2, Places
    <3>4. QED
      BY <1>1, <1>6, <3>1, <3>3 DEF TypeOK
  <2>2. QED
    BY <1>7, <2>1
<1>9. \A w \in Req : pc'[w][1] \notin Reserving
  BY <1>3, <1>4, <1>6, Places DEF Reserving, Steps, Rounds
<1>10. \A w \in Req : on'[w] # None => pc'[w][1] = "wait"
  <2>1. on[r] = None
    BY <1>1 DEF WaitInv, TypeOK
  <2>2. \A w \in Req : on'[w] = IF w \in Waiting(r) THEN None ELSE on[w]
    BY DEF Released
  <2>3. QED
    BY <1>1, <1>6, <2>1, <2>2 DEF WaitInv
<1>11. QED
  BY <1>1, <1>8, <1>9, <1>10 DEF Released, TypeOK

--------------------------------------------------------------------------------
(***************************************************************************)
(* The two kinds of steps of a request                                     *)
(***************************************************************************)

\* What a step may do to the layers that remember the message: nothing remembers
\* one that was not handed over.
Remembers ==
  /\ entry' \in {"none", "unreadable", "fresh", "expired"}
  /\ live' \in BOOLEAN /\ tail' \in BOOLEAN
  /\ sent' \in Nat /\ deep' = deep /\ (Known => Known')
  /\ operation' \in {"none", "running", "dropped"} /\ (operation' # "none" => deep)
  /\ overtaken' \in BOOLEAN /\ (overtaken' => deep) /\ (operation' = "running" => Unseen')
  /\ entry' # "none" \/ live' \/ tail' => Known'
  /\ pruner' \in {"none", "reading", "removing"} /\ UNCHANGED <<due, crashes>>

\* A request goes on to another step, with or without the reservation.
LEMMA LocalStep ==
  ASSUME Inv, NEW r \in Req, NEW s \in Steps, NEW d \in Rounds,
         pc' = [pc EXCEPT ![r] = At(s, d)], pc[r][1] # "wait", Remembers,
         on' = on \/ (s = "wait" /\ inFlight \in Req /\ on' = [on EXCEPT ![r] = inFlight]),
         \/ answer' = answer
         \/ answer' = [answer EXCEPT ![r] = "retry"]
         \/ Known' /\ answer' = [answer EXCEPT ![r] = "duplicate"],
         \/ inFlight' = inFlight /\ (s \in Reserving <=> pc[r][1] \in Reserving)
         \/ inFlight = None /\ inFlight' = r /\ s \in Reserving,
         s \in Claiming => Known',
         \/ s # "deliver" /\ (inFlight = r \/ UNCHANGED <<live, tail, overtaken>>)
         \/ s = "deliver" /\ ~live' /\ ~tail',
         \/ entry' \in {"none", "unreadable"}
         \/ entry' = entry /\ inFlight' = inFlight
  PROVE  Inv'
<1> TypeOK /\ WaitInv /\ SentInv /\ CheckInv /\ AcceptedIsDelivered /\ None \notin Req
  BY InboxAssumption DEF Inv
<1>1. /\ pc' \in [Req -> Steps \X Rounds] /\ pc'[r][1] = s
      /\ \A w \in Req \ {r} : pc'[w] = pc[w]
  BY Places DEF TypeOK
<1>2. \A w \in Req : inFlight = w <=> pc[w][1] \in Reserving
  BY DEF TypeOK, Reserving
<1>3. \A w \in Req : inFlight' = w <=> pc'[w][1] \in Reserving
  BY <1>1, <1>2
<1>4. TypeOK'
  <2>1. answer' \in [Req -> {None, "delivered", "duplicate", "retry", "failed"}]
    BY DEF TypeOK
  <2>2. on' \in [Req -> Req \cup {None}]
    BY DEF TypeOK
  <2>3. QED
    BY <1>1, <1>3, <2>1, <2>2 DEF TypeOK, Remembers, Reserving
<1>5. WaitInv'
  <2>1. on[r] = None
    BY DEF WaitInv
  <2>2. QED
    BY <1>1, <2>1 DEF WaitInv, TypeOK
<1>6. SentInv'
  BY <1>1 DEF SentInv, Remembers, TypeOK
<1>7. AcceptedIsDelivered'
  BY DEF AcceptedIsDelivered, Remembers, TypeOK, Known
<1>8. CheckInv'
  <2>1. \A w \in Req : pc'[w][1] = "deliver" => Unseen'
    <3>1. CASE s = "deliver"
      BY <3>1 DEF Unseen
    <3>2. CASE s # "deliver" /\ inFlight = r
      BY <1>1, <1>2, <3>2 DEF Reserving
    <3>3. CASE s # "deliver" /\ UNCHANGED <<live, tail, overtaken>>
      BY <1>1, <3>3 DEF CheckInv, Unseen
    <3>4. QED
      BY <3>1, <3>2, <3>3
  <2>2. QED
    BY <2>1 DEF CheckInv, Remembers
<1>9. QED
  BY <1>4, <1>5, <1>6, <1>7, <1>8 DEF Inv

\* A request gives the reservation up.
LEMMA ReleaseStep ==
  ASSUME Inv, NEW r \in Req, pc[r][1] \in Reserving, NEW b \in BOOLEAN,
         NEW a \in {"delivered", "failed"}, Released(r, b, a), Remembers,
         b \/ a = "delivered" => Known'
  PROVE  Inv'
<1>1. inFlight = r
  BY DEF Inv, TypeOK, Reserving
<1>2. /\ pc' \in [Req -> Steps \X Rounds] /\ on' \in [Req -> Req \cup {None}]
      /\ answer' \in [Req -> {None, "delivered", "duplicate", "retry", "failed"}]
      /\ inFlight' = None
      /\ \A w \in Req : pc'[w][1] \notin Reserving
      /\ \A w \in Req : on'[w] # None => pc'[w][1] = "wait"
      /\ \A w \in Req : answer'[w] \in {answer[w], "failed"} \/ b \/ a = "delivered"
  BY <1>1, ReleasedFacts
<1>3. TypeOK'
  BY <1>2, InboxAssumption DEF Inv, TypeOK, Remembers, Reserving
<1>4. WaitInv' /\ SentInv'
  BY <1>2 DEF WaitInv, SentInv, Remembers, Reserving, Claiming
<1>5. AcceptedIsDelivered'
  BY <1>2 DEF Inv, AcceptedIsDelivered, Remembers, TypeOK, Known
<1>6. CheckInv'
  BY <1>2 DEF CheckInv, Remembers, Reserving
<1>7. QED
  BY <1>3, <1>4, <1>5, <1>6 DEF Inv

--------------------------------------------------------------------------------
(***************************************************************************)
(* The steps                                                               *)
(***************************************************************************)

\* Where a request is tells what step and round it is at.
LEMMA PlaceOf ==
  \A r \in Req : \A s, d : pc[r] = At(s, d) => pc[r][1] = s /\ pc[r][2] = d
  BY DEF At

\* What the layers remember stays when nothing touches them.
LEMMA Unchanged ==
  ASSUME Inv, UNCHANGED <<live, tail, deep, hand, due, crashes>>,
         pruner' \in {"none", "reading", "removing"},
         \/ entry' \in {entry, "none"}
         \/ entry' \in {"unreadable", "fresh", "expired"} /\ Known
  PROVE  Remembers
  BY DEF Inv, TypeOK, SentInv, CheckInv, Remembers, Known, Unseen

\* Waiting for the prune, before the ledger is asked or claimed.
LEMMA PruneWaitStep ==
  ASSUME Inv, NEW r \in Req, Ask(r) \/ Claim(r)
  PROVE  Inv'
<1>1. ASSUME NEW s \in {"pruneAsk", "read", "pruneClaim", "create"}, NEW d \in Rounds,
             Goto(r, At(s, d)), pc[r][1] # "wait",
             s \in Reserving <=> pc[r][1] \in Reserving,
             s \in Claiming => pc[r][1] \in Claiming,
             pruner' \in {pruner, "reading"},
             UNCHANGED <<answer, on, inFlight, entry, due, live, tail, deep, hand, crashes>>
      PROVE Inv'
  <2>1. Remembers
    <3>1. pruner' \in {"none", "reading", "removing"}
      BY <1>1 DEF Inv, TypeOK
    <3>2. QED
      BY <1>1, <3>1, Unchanged
  <2>2. s \in Claiming => Known'
    BY <1>1 DEF Inv, SentInv, Known
  <2>3. s \in Steps /\ s # "deliver"
    BY DEF Steps
  <2>4. entry' = entry /\ inFlight' = inFlight
    BY <1>1
  <2>5. pc' = [pc EXCEPT ![r] = At(s, d)]
    BY <1>1 DEF Goto
  <2>6. QED
    BY <1>1, <2>1, <2>2, <2>3, <2>4, <2>5, LocalStep
<1>2. ASSUME NEW d \in Rounds, AwaitPrune(r, At("ask", d), At("pruneAsk", d), At("read", d))
      PROVE Inv'
  <2>1. pc[r][1] = "ask"
    BY <1>2, PlaceOf DEF AwaitPrune
  <2>2. pruner' \in {pruner, "reading"} /\ (Goto(r, At("pruneAsk", d)) \/ Goto(r, At("read", d)))
        /\ UNCHANGED <<answer, on, inFlight, entry, due, live, tail, deep, hand, crashes>>
    BY <1>2 DEF AwaitPrune
  <2>3. QED
    BY <1>1, <2>1, <2>2 DEF Reserving, Claiming
<1>3. CASE Claim(r)
  <2>1. pc[r][1] = "claim"
    BY <1>3, PlaceOf DEF Claim, AwaitPrune
  <2>2. pruner' \in {pruner, "reading"} /\ (Goto(r, At("pruneClaim", "first")) \/ Goto(r, At("create", "first")))
        /\ UNCHANGED <<answer, on, inFlight, entry, due, live, tail, deep, hand, crashes>>
    BY <1>3 DEF Claim, AwaitPrune
  <2>3. "first" \in Rounds
    BY DEF Rounds
  <2>4. QED
    BY <1>1, <2>1, <2>2, <2>3 DEF Reserving, Claiming
<1>4. QED
  BY <1>2, <1>3 DEF Ask

\* A message the ledger does not know: reserve, wait, or ask for a retry.
LEMMA NotSeenStep ==
  ASSUME Inv, NEW r \in Req, NEW d \in Rounds, pc[r][1] \in {"read", "remove"}, NotSeen(r, d),
         entry' \in {entry, "none"}, entry' \in {"none", "unreadable"},
         UNCHANGED <<pruner, due, live, tail, deep, hand, crashes>>
  PROVE  Inv'
<1> "first" \in Rounds /\ "second" \in Rounds /\ {"check", "wait", "ended"} \subseteq Steps
  BY DEF Rounds, Steps
<1>1. Remembers
  <2>1. pruner' \in {"none", "reading", "removing"}
    BY DEF Inv, TypeOK
  <2>2. QED
    BY <2>1, Unchanged
<1>2. pc[r][1] # "wait" /\ pc[r][1] \notin Reserving
  BY DEF Reserving
<1>3. inFlight = None \/ inFlight \in Req
  BY DEF Inv, TypeOK
<1>4. CASE inFlight = None /\ inFlight' = r /\ Goto(r, At("check", "first")) /\ UNCHANGED <<on, answer>>
  BY <1>1, <1>2, <1>4, LocalStep DEF Goto, Reserving, Claiming
<1>5. CASE /\ inFlight # None /\ UNCHANGED <<inFlight, answer>> /\ Goto(r, At("wait", "second"))
           /\ on' = [on EXCEPT ![r] = inFlight]
  BY <1>1, <1>2, <1>3, <1>5, LocalStep DEF Goto, Reserving, Claiming
<1>6. CASE Answer(r, "retry") /\ UNCHANGED <<on, inFlight>>
  BY <1>1, <1>2, <1>6, LocalStep DEF Answer, Reserving, Claiming
<1>7. QED
  BY <1>4, <1>5, <1>6 DEF NotSeen, Reserve

\* The ledger is asked.
LEMMA AskedStep ==
  ASSUME Inv, NEW r \in Req, Arrive(r) \/ ReadEntry(r) \/ RemoveExpired(r)
  PROVE  Inv'
<1> {"first", "second"} \subseteq Rounds /\ {"ask", "wait", "ended", "remove"} \subseteq Steps
  BY DEF Rounds, Steps
<1>1. ASSUME UNCHANGED <<entry, pruner, due, live, tail, deep, hand, crashes>> PROVE Remembers
  <2>1. pruner' \in {"none", "reading", "removing"}
    BY <1>1 DEF Inv, TypeOK
  <2>2. QED
    BY <1>1, <2>1, Unchanged
<1>2. CASE Arrive(r)
  <2>1. pc[r][1] = "idle" /\ Remembers /\ UNCHANGED <<answer, inFlight, entry, live, tail, overtaken>>
    BY <1>1, <1>2, PlaceOf DEF Arrive
  <2>2. CASE Goto(r, At("ask", "first")) /\ UNCHANGED on
    BY <2>1, <2>2, LocalStep DEF Goto, Reserving, Claiming
  <2>3. CASE inFlight # None /\ Goto(r, At("wait", "first")) /\ on' = [on EXCEPT ![r] = inFlight]
    <3>1. inFlight \in Req
      BY <2>3 DEF Inv, TypeOK
    <3>2. QED
      BY <2>1, <2>3, <3>1, LocalStep DEF Goto, Reserving, Claiming
  <2>4. QED
    BY <1>2, <2>2, <2>3 DEF Arrive, Look
<1>3. ASSUME NEW d \in Rounds, pc[r] = At("read", d), UNCHANGED <<entry, pruner, due, live, tail, deep, hand, crashes>>,
             \/ entry = "fresh" /\ Answer(r, "duplicate") /\ UNCHANGED <<on, inFlight>>
             \/ entry = "expired" /\ Goto(r, At("remove", d)) /\ UNCHANGED <<answer, on, inFlight>>
             \/ entry \in {"none", "unreadable"} /\ NotSeen(r, d)
      PROVE Inv'
  <2>1. pc[r][1] = "read" /\ Remembers
    BY <1>1, <1>3, PlaceOf
  <2>2. CASE entry = "fresh" /\ Answer(r, "duplicate") /\ UNCHANGED <<on, inFlight>>
    <3>1. Known'
      BY <1>3, <2>2 DEF Inv, SentInv, Known
    <3>2. QED
      BY <1>3, <2>1, <2>2, <3>1, LocalStep DEF Answer, Reserving, Claiming
  <2>3. CASE entry = "expired" /\ Goto(r, At("remove", d)) /\ UNCHANGED <<answer, on, inFlight>>
    BY <1>3, <2>1, <2>3, LocalStep DEF Goto, Reserving, Claiming
  <2>4. CASE entry \in {"none", "unreadable"} /\ NotSeen(r, d)
    BY <1>3, <2>1, <2>4, NotSeenStep
  <2>5. QED
    BY <1>3, <2>2, <2>3, <2>4
<1>4. ASSUME NEW d \in Rounds, pc[r] = At("remove", d), entry' = "none", NotSeen(r, d),
             UNCHANGED <<pruner, due, live, tail, deep, hand, crashes>>
      PROVE Inv'
  <2>1. pc[r][1] = "remove"
    BY <1>4, PlaceOf
  <2>2. QED
    BY <1>4, <2>1, NotSeenStep
<1>5. CASE ReadEntry(r)
  BY <1>3, <1>5 DEF ReadEntry
<1>6. CASE RemoveExpired(r)
  BY <1>4, <1>6 DEF RemoveExpired
<1>7. QED
  BY <1>2, <1>5, <1>6

\* The session is looked at: it has the message, or the delivery goes on.
LEMMA CheckStep ==
  ASSUME Inv, NEW r \in Req, Check(r)
  PROVE  Inv'
<1>1. pc[r][1] = "check" /\ UNCHANGED <<entry, pruner, due, live, tail, deep, operation, sent, crashes>>
  BY PlaceOf DEF Check
<1>2. pc[r][1] \in Reserving /\ inFlight = r /\ entry \in {"none", "unreadable"}
  BY <1>1, InboxAssumption DEF Inv, TypeOK, Reserving
<1>3. ASSUME overtaken' = overtaken \/ (~AlreadyHas /\ overtaken' = FALSE) PROVE Remembers
  <2>1. overtaken' \in BOOLEAN /\ (overtaken' => deep) /\ (operation' = "running" => Unseen')
    <3>1. overtaken \in BOOLEAN /\ (overtaken => deep) /\ (operation = "running" => Unseen)
      BY DEF Inv, TypeOK, CheckInv
    <3>2. CASE overtaken' = overtaken
      BY <1>1, <3>1, <3>2 DEF Unseen
    <3>3. CASE ~AlreadyHas /\ overtaken' = FALSE
      BY <1>1, <3>3 DEF Unseen, AlreadyHas
    <3>4. QED
      BY <1>3, <3>2, <3>3
  <2>2. (Known => Known') /\ (entry' # "none" \/ live' \/ tail' => Known')
    BY <1>1 DEF Inv, SentInv, Known
  <2>3. QED
    BY <1>1, <2>1, <2>2 DEF Inv, TypeOK, Remembers
<1>4. CASE Released(r, FALSE, "failed") /\ UNCHANGED overtaken
  BY <1>2, <1>3, <1>4, ReleaseStep
<1>5. CASE AlreadyHas /\ Goto(r, At("claim", "first")) /\ UNCHANGED <<answer, on, inFlight, overtaken>>
  <2>1. Remembers
    BY <1>3, <1>5
  <2>2. Known'
    BY <1>5, <2>1 DEF Remembers, AlreadyHas, Inv, SentInv
  <2>3. "claim" \in Steps /\ "first" \in Rounds /\ "claim" \in Reserving
    BY DEF Steps, Rounds, Reserving
  <2>4. pc' = [pc EXCEPT ![r] = At("claim", "first")] /\ pc[r][1] # "wait" /\ entry' = entry
    BY <1>1, <1>5 DEF Goto
  <2>5. QED
    BY <1>2, <1>5, <2>1, <2>2, <2>3, <2>4, LocalStep
<1>6. CASE ~AlreadyHas /\ Goto(r, At("deliver", "first")) /\ overtaken' = FALSE /\ UNCHANGED <<answer, on, inFlight>>
  <2>1. Remembers
    BY <1>3, <1>6
  <2>2. ~live' /\ ~tail'
    BY <1>1, <1>6 DEF AlreadyHas
  <2>3. "deliver" \in Steps /\ "first" \in Rounds /\ "deliver" \in Reserving /\ "deliver" \notin Claiming
    BY DEF Steps, Rounds, Reserving, Claiming
  <2>4. pc' = [pc EXCEPT ![r] = At("deliver", "first")] /\ pc[r][1] # "wait" /\ entry' = entry
    BY <1>1, <1>6 DEF Goto
  <2>5. QED
    BY <1>2, <1>6, <2>1, <2>2, <2>3, <2>4, LocalStep
<1>7. QED
  BY <1>4, <1>5, <1>6 DEF Check

\* What a step that hands the message over finds.
FirstTime ==
  /\ (~live /\ ~tail) \/ (deep /\ overtaken)
  /\ entry = "fresh" => operation = "running"

\* The message is refused, or goes to the session or to an operation, and in any
\* case only while nothing shows that it was there.
LEMMA DeliverStep ==
  ASSUME Inv, NEW r \in Req, Deliver(r)
  PROVE  Inv' /\ (sent' # sent => FirstTime)
<1>1. pc[r][1] = "deliver" /\ UNCHANGED <<entry, pruner, due, tail, deep, overtaken, crashes>>
  BY PlaceOf DEF Deliver
<1>2. pc[r][1] \in Reserving /\ inFlight = r /\ entry \in {"none", "unreadable"} /\ Unseen /\ (overtaken => deep)
  BY <1>1, InboxAssumption DEF Inv, TypeOK, Reserving, CheckInv
<1>3. \/ UNCHANGED <<live, operation, sent>>
      \/ deep /\ operation' = "running" /\ UNCHANGED <<live, sent>>
      \/ ~deep /\ live' = TRUE /\ sent' = sent + 1 /\ UNCHANGED operation
  BY DEF Deliver, Taken
<1>4. sent \in Nat /\ deep \in BOOLEAN /\ (operation # "none" => deep)
  BY DEF Inv, TypeOK
<1>5. Remembers /\ (Taken => Known')
  <2>1. Known => Known'
    BY <1>1, <1>3, <1>4 DEF Known
  <2>2. Taken => Known'
    BY <1>1, <1>4 DEF Known, Taken
  <2>3. entry' # "none" \/ live' \/ tail' => Known'
    <3>1. CASE UNCHANGED live
      BY <1>1, <2>1, <3>1 DEF Inv, SentInv
    <3>2. CASE sent' = sent + 1
      BY <1>4, <3>2 DEF Known
    <3>3. QED
      BY <1>3, <3>1, <3>2
  <2>4. operation' = "running" => Unseen'
    BY <1>1, <1>2, <1>3, <1>4 DEF Unseen
  <2>5. sent' \in Nat /\ operation' \in {"none", "running", "dropped"} /\ (operation' # "none" => deep)
    BY <1>3, <1>4 DEF Inv, TypeOK
  <2>6. /\ entry' \in {"none", "unreadable", "fresh", "expired"}
        /\ live' \in BOOLEAN /\ tail' \in BOOLEAN /\ overtaken' \in BOOLEAN
        /\ pruner' \in {"none", "reading", "removing"}
    BY <1>1, <1>3 DEF Inv, TypeOK
  <2>7. QED
    BY <1>1, <1>2, <2>1, <2>2, <2>3, <2>4, <2>5, <2>6 DEF Remembers
<1>6. sent' # sent => FirstTime
  BY <1>2 DEF FirstTime, Unseen
<1>7. CASE Released(r, FALSE, "failed")
  BY <1>2, <1>5, <1>6, <1>7, ReleaseStep
<1>8. CASE Taken /\ Goto(r, At("claim", "first")) /\ UNCHANGED <<answer, on, inFlight>>
  <2>1. "claim" \in Steps /\ "first" \in Rounds /\ "claim" \in Reserving
    BY DEF Steps, Rounds, Reserving
  <2>2. pc' = [pc EXCEPT ![r] = At("claim", "first")] /\ pc[r][1] # "wait" /\ entry' = entry
    BY <1>1, <1>8 DEF Goto
  <2>3. QED
    BY <1>2, <1>5, <1>6, <1>8, <2>1, <2>2, LocalStep
<1>9. QED
  BY <1>7, <1>8 DEF Deliver

\* An operation hands the message over, or does not.
LEMMA OperationStep ==
  ASSUME Inv, HandOver \/ Drop
  PROVE  Inv' /\ (sent' # sent => FirstTime)
<1>1. /\ UNCHANGED <<pc, answer, on, inFlight, entry, pruner, due, tail, deep, crashes>>
      /\ operation = "running"
      /\ \/ operation' = "none" /\ live' = TRUE /\ sent' = sent + 1 /\ overtaken' = TRUE
         \/ operation' = "dropped" /\ UNCHANGED <<live, sent, overtaken>>
  BY DEF HandOver, Drop
<1>2. deep /\ sent \in Nat /\ Unseen /\ Known
  BY <1>1 DEF Inv, TypeOK, CheckInv, Known
<1>3. Known'
  BY <1>1, <1>2 DEF Known
<1>4. TypeOK' /\ WaitInv'
  <2>1. sent' \in Nat /\ live' \in BOOLEAN /\ overtaken' \in BOOLEAN
    <3>1. live \in BOOLEAN /\ overtaken \in BOOLEAN
      BY DEF Inv, TypeOK
    <3>2. sent' = sent \/ sent' = sent + 1
      BY <1>1
    <3>3. (live' = live /\ overtaken' = overtaken) \/ (live' = TRUE /\ overtaken' = TRUE)
      BY <1>1
    <3>4. sent' \in Nat
      BY <1>2, <3>2
    <3>5. live' \in BOOLEAN /\ overtaken' \in BOOLEAN
      BY <3>1, <3>3
    <3>6. QED
      BY <3>4, <3>5
  <2>2. operation' \in {"none", "running", "dropped"} /\ (operation' # "none" => deep')
    BY <1>1, <1>2
  <2>3. \A r \in Req : inFlight' = r <=>
          pc'[r][1] \in {"check", "deliver", "claim", "pruneClaim", "create", "write", "exists"}
    <3>1. pc' = pc /\ inFlight' = inFlight
      BY <1>1
    <3>2. QED
      BY <3>1 DEF Inv, TypeOK
  <2>4. /\ pc' \in [Req -> Steps \X Rounds]
        /\ answer' \in [Req -> {None, "delivered", "duplicate", "retry", "failed"}]
        /\ on' \in [Req -> Req \cup {None}] /\ inFlight' \in Req \cup {None}
        /\ entry' \in {"none", "unreadable", "fresh", "expired"}
        /\ pruner' \in {"none", "reading", "removing"} /\ due' \in BOOLEAN
        /\ tail' \in BOOLEAN /\ deep' \in BOOLEAN /\ crashes' \in 0..MaxCrashes
        /\ inFlight' # None => entry' \in {"none", "unreadable"}
    BY <1>1 DEF Inv, TypeOK
  <2>5. WaitInv'
    BY <1>1 DEF Inv, WaitInv
  <2>6. QED
    BY <2>1, <2>2, <2>3, <2>4, <2>5 DEF TypeOK
<1>5. SentInv' /\ AcceptedIsDelivered'
  BY <1>3 DEF SentInv, AcceptedIsDelivered, Known
<1>6. CheckInv'
  BY <1>1, <1>2 DEF Inv, CheckInv, Unseen
<1>7. FirstTime
  BY <1>1, <1>2 DEF FirstTime, Unseen
<1>8. QED
  BY <1>4, <1>5, <1>6, <1>7 DEF Inv

\* The claim of a delivered message writes the entry, and ends the reservation.
LEMMA ClaimStep ==
  ASSUME Inv, NEW r \in Req, Create(r) \/ Write(r) \/ Exists(r)
  PROVE  Inv'
<1>1. /\ pc[r][1] \in {"create", "write", "exists"}
      /\ UNCHANGED <<pruner, due, live, tail, deep, hand, crashes>>
  BY PlaceOf DEF Create, Write, Exists
<1>2. pc[r][1] \in Reserving /\ pc[r][1] # "wait" /\ Known /\ Known' /\ inFlight = r
  BY <1>1 DEF Inv, TypeOK, SentInv, Reserving, Claiming, Known
<1>3. entry' \in {"none", "unreadable", "fresh", "expired"}
  BY DEF Create, Write, Exists, Inv, TypeOK
<1>4. Remembers
  BY <1>1, <1>2, <1>3 DEF Inv, TypeOK, CheckInv, Remembers, Unseen
<1>5. CASE \/ Released(r, FALSE, "failed") \/ Released(r, TRUE, "delivered")
  BY <1>2, <1>4, <1>5, ReleaseStep
<1>6. ASSUME NEW s \in {"write", "exists"}, Goto(r, At(s, "first")), UNCHANGED <<answer, on, inFlight>>,
             entry' = entry \/ entry' = "unreadable"
      PROVE Inv'
  <2>1. s \in Steps /\ s \in Reserving /\ s # "deliver" /\ "first" \in Rounds
    BY DEF Steps, Reserving, Rounds
  <2>2. QED
    BY <1>2, <1>4, <1>6, <2>1, LocalStep DEF Goto
<1>7. QED
  BY <1>5, <1>6 DEF Create, Write, Exists

\* The prune, time, the transcript and restarts.
LEMMA OtherStep ==
  ASSUME Inv, Prune \/ PruneIsDue \/ Expires \/ TranscriptWritten \/ TailMovesOn \/ Crash
  PROVE  Inv'
<1> TypeOK /\ WaitInv /\ SentInv /\ CheckInv /\ AcceptedIsDelivered
  BY DEF Inv
<1>1. CASE PruneIsDue \/ Expires \/ TranscriptWritten \/ TailMovesOn
  <2>1. /\ UNCHANGED <<pc, answer, on, inFlight, pruner, deep, hand, crashes>>
        /\ entry' = entry \/ (entry = "fresh" /\ entry' = "expired")
        /\ due' \in BOOLEAN /\ live' \in BOOLEAN /\ tail' \in BOOLEAN
        /\ live' \/ tail' => live \/ tail
    <3>1. CASE PruneIsDue
      BY <3>1 DEF PruneIsDue, TypeOK
    <3>2. CASE Expires
      BY <3>2 DEF Expires, TypeOK
    <3>3. CASE TranscriptWritten
      BY <3>3 DEF TranscriptWritten, TypeOK
    <3>4. CASE TailMovesOn
      BY <3>4 DEF TailMovesOn, TypeOK
    <3>5. QED
      BY <1>1, <3>1, <3>2, <3>3, <3>4
  <2>2. TypeOK'
    BY <2>1 DEF TypeOK
  <2>3. WaitInv' /\ SentInv' /\ CheckInv' /\ AcceptedIsDelivered'
    BY <2>1 DEF WaitInv, SentInv, CheckInv, Known, Unseen, AcceptedIsDelivered
  <2>4. QED
    BY <2>2, <2>3 DEF Inv
<1>2. CASE PruneEnds /\ entry' \in {entry, "none"} /\ UNCHANGED <<answer, on, inFlight, live, tail, deep, hand, crashes>>
  <2>1. \A r \in Req : /\ pc'[r] \in Steps \X Rounds
                       /\ pc'[r][1] \in Reserving <=> pc[r][1] \in Reserving
                       /\ pc'[r][1] = "deliver" => pc[r][1] = "deliver"
                       /\ pc[r][1] = "wait" => pc'[r][1] = "wait"
                       /\ pc'[r][1] \in Claiming => pc[r][1] \in Claiming
    <3> TAKE r \in Req
    <3> pc[r] \in Steps \X Rounds /\ pc[r][2] \in Rounds
      BY Places DEF TypeOK
    <3> {"read", "create"} \subseteq Steps
      BY DEF Steps
    <3>1. CASE pc[r][1] = "pruneAsk"
      <4>1. pc'[r] = At("read", pc[r][2])
        BY <1>2, <3>1 DEF PruneEnds
      <4>2. QED
        BY <3>1, <4>1, Places DEF Reserving, Claiming
    <3>2. CASE pc[r][1] = "pruneClaim"
      <4>1. pc'[r] = At("create", pc[r][2])
        BY <1>2, <3>2 DEF PruneEnds
      <4>2. QED
        BY <3>2, <4>1, Places DEF Reserving, Claiming
    <3>3. CASE pc[r][1] \notin {"pruneAsk", "pruneClaim"}
      BY <1>2, <3>3 DEF PruneEnds
    <3>4. QED
      BY <3>1, <3>2, <3>3
  <2>2. pc' \in [Req -> Steps \X Rounds]
    BY <1>2, <2>1 DEF PruneEnds
  <2>3. TypeOK'
    BY <1>2, <2>1, <2>2 DEF PruneEnds, TypeOK, Reserving
  <2>4. WaitInv' /\ SentInv' /\ CheckInv' /\ AcceptedIsDelivered'
    BY <1>2, <2>1 DEF WaitInv, SentInv, CheckInv, Known, Unseen, AcceptedIsDelivered
  <2>5. QED
    BY <2>3, <2>4 DEF Inv
<1>3. CASE Prune
  <2>1. CASE pruner' = "removing" /\ UNCHANGED <<pc, due, answer, on, inFlight, entry, live, tail, deep, hand, crashes>>
    BY <2>1 DEF Inv, TypeOK, WaitInv, SentInv, CheckInv, Known, Unseen, AcceptedIsDelivered
  <2>2. QED
    BY <1>2, <1>3, <2>1 DEF Prune, PruneReads, PruneRemoves
<1>4. CASE Crash
  <2>1. \A r \in Req : pc'[r] \in Over /\ pc'[r] \in Steps \X Rounds
    BY <1>4, Places DEF Crash, Active, Over, TypeOK, Steps, Rounds
  <2>2. \A r \in Req : pc'[r][1] \in {"idle", "ended"}
    BY <2>1, Places DEF Over, Steps, Rounds
  <2>3. pc' \in [Req -> Steps \X Rounds] /\ inFlight' = None /\ on' = [r \in Req |-> None]
    BY <1>4, <2>1 DEF Crash
  <2>4. crashes' \in 0..MaxCrashes
    BY <1>4, InboxAssumption DEF Crash, TypeOK
  <2>5. TypeOK'
    <3>1. /\ pruner' = "none" /\ due' = TRUE /\ live' = FALSE
          /\ answer' = answer /\ entry' = entry /\ tail' = tail /\ sent' = sent
          /\ deep' = deep /\ overtaken' = overtaken
          /\ operation' = IF operation = "running" THEN "dropped" ELSE operation
      BY <1>4 DEF Crash
    <3>2. /\ answer' \in [Req -> {None, "delivered", "duplicate", "retry", "failed"}]
          /\ entry' \in {"none", "unreadable", "fresh", "expired"}
          /\ pruner' \in {"none", "reading", "removing"} /\ sent' \in Nat
          /\ operation' \in {"none", "running", "dropped"} /\ (operation' # "none" => deep')
      BY <3>1 DEF TypeOK
    <3>3. /\ due' \in BOOLEAN /\ live' \in BOOLEAN /\ tail' \in BOOLEAN
          /\ deep' \in BOOLEAN /\ overtaken' \in BOOLEAN
      BY <3>1 DEF TypeOK
    <3>4. on' \in [Req -> Req \cup {None}] /\ inFlight' \in Req \cup {None}
      BY <2>3
    <3>5. \A r \in Req : inFlight' # r
      BY <2>3, InboxAssumption
    <3>6. \A r \in Req : inFlight' = r <=>
            pc'[r][1] \in {"check", "deliver", "claim", "pruneClaim", "create", "write", "exists"}
      BY <2>2, <3>5
    <3>7. inFlight' # None => entry' \in {"none", "unreadable"}
      BY <2>3
    <3>8. QED
      BY <2>3, <2>4, <3>2, <3>3, <3>4, <3>6, <3>7 DEF TypeOK
  <2>6. WaitInv' /\ SentInv' /\ CheckInv' /\ AcceptedIsDelivered'
    BY <1>4, <2>2, <2>3 DEF Crash, WaitInv, SentInv, CheckInv, Known, Unseen, AcceptedIsDelivered, Claiming, Reserving
  <2>7. QED
    BY <2>5, <2>6 DEF Inv
<1>5. QED
  BY <1>1, <1>3, <1>4

--------------------------------------------------------------------------------
\* Every step keeps the invariant, and only a delivery hands the message over.
LEMMA InvStep ==
  Inv /\ [Next]_vars => Inv' /\ (sent' # sent => FirstTime)
<1> SUFFICES ASSUME Inv, [Next]_vars
             PROVE  Inv' /\ (sent' # sent => FirstTime)
  OBVIOUS
<1>1. ASSUME NEW r \in Req, Arrive(r) \/ Step(r) PROVE Inv'
  BY <1>1, AskedStep, PruneWaitStep, CheckStep, DeliverStep, ClaimStep DEF Step
<1>2. CASE UNCHANGED vars
  BY <1>2 DEF vars, Inv, TypeOK, WaitInv, SentInv, CheckInv, Known, Unseen, AcceptedIsDelivered
<1>3. Inv'
  BY <1>1, <1>2, OperationStep, OtherStep DEF Next
<1>4. ASSUME sent' # sent PROVE HandOver \/ \E r \in Req : Deliver(r)
  BY <1>4 DEF Next, Step, vars, Arrive, Ask, ReadEntry, RemoveExpired, Check, Claim, AwaitPrune, Create,
              Write, Exists, Prune, PruneReads, PruneRemoves, PruneIsDue, Expires,
              TranscriptWritten, TailMovesOn, Crash, Drop
<1>5. QED
  BY <1>3, <1>4, DeliverStep, OperationStep

\* The inductive invariant of the inbox holds for any requests and restarts.
THEOREM InvCorrect == Spec => []Inv
  BY InvInit, InvStep, PTL DEF Spec

\* Type correctness of the inbox; a request has the reservation exactly while it
\* delivers and claims.
THEOREM TypeCorrect == Spec => []TypeOK
<1>1. Inv => TypeOK
  BY DEF Inv
<1>2. QED
  BY InvCorrect, <1>1, PTL

\* A message that was acknowledged to the channel has been handed to the session,
\* for any number of requests and restarts.
THEOREM AcceptedCorrect == Spec => []AcceptedIsDelivered
<1>1. Inv => AcceptedIsDelivered
  BY DEF Inv
<1>2. QED
  BY InvCorrect, <1>1, PTL

\* No step hands the message over again while an entry, the session or the tail
\* of its transcript remembers it.
THEOREM NotTwiceCorrect == Spec => NotTwice
<1>1. Inv /\ [Next]_vars => [sent' # sent => FirstTime]_vars
  BY InvStep
<1>2. QED
  BY InvCorrect, <1>1, PTL DEF Spec, NotTwice, FirstTime
================================================================================
