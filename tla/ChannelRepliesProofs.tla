-------------------------- MODULE ChannelRepliesProofs --------------------------
(***************************************************************************)
(* Invariants and theorems of ChannelReplies, for any number of messages,  *)
(* reconciliation runs, removed forwarders and streams.                    *)
(***************************************************************************)
EXTENDS ChannelReplies, TLAPS

Maybe(S) == S \cup {None}

Pc == {"idle", "next", "await", "awaitUndo", "claim", "claiming", "dispatch", "finalize",
       "delivered", "undelivered", "undo", "undone", "settling", "undoing", "fail", "failing"}

Job == [pc : Pc, send : Maybe(Send), stream : Maybe(Send), wait : Maybe(Begin)]

\* What is known of the message, the stream and the promise of a job at each await.
Fits(j) ==
  /\ j.pc \in {"await", "claim", "claiming", "dispatch", "finalize", "fail", "failing"}
       => j.send \in Send
  /\ j.pc \in {"dispatch", "finalize", "undo", "delivered", "undelivered", "undone",
               "settling", "undoing"} => j.stream \in Send
  /\ j.pc = "dispatch" => j.stream = j.send
  /\ j.wait # None => j.pc \in {"await", "awaitUndo"}

\* Who waits for a stream waits for one that is being begun; the forwarder's promise
\* is one that will be handed to it.
JobInv ==
  /\ job \in [Worker -> Job] /\ \A w \in Worker : Fits(job[w])
  /\ begin \in [Begin -> [pc : {"unused", "create", "claiming"}, send : Maybe(Send),
                          attached : BOOLEAN]]
  /\ \A b \in Begin : begin[b].pc # "unused" => begin[b].send \in Send
  /\ forwarder \in [pending : SUBSET Send, active : Maybe(Send), stream : Maybe(Send),
                    promise : Maybe(Begin)]
  /\ forwarder.promise # None =>
       begin[forwarder.promise].pc # "unused" /\ begin[forwarder.promise].attached
  /\ \A w \in Worker : job[w].wait # None => begin[job[w].wait].pc # "unused"
  /\ todo \in [Reconciler -> [claimed : SUBSET Send, open : SUBSET Send, slot : Maybe(Delivery),
                              status : Status, read : BOOLEAN]]

PlainInv ==
  /\ inFlight \subseteq {Claim(s) : s \in Send}
  /\ ingest \in [Send -> {"idle", "recording", "rerecording", "armed", "refused",
                         "withdrawing", "done"}]
  /\ due \in 0..MaxDue /\ retry \in BOOLEAN
  /\ session \in {"none", "live", "stopping"}
  /\ turn \in [Send -> {"none", "queued", "running", "ok", "failed", "cut"}]
  /\ shown \in [Send -> Send \cup {None, "notice"}]
  /\ draft \in [Send -> {"new", "open", "off"}]

\* The delivery of an intent is its own, and once it is in the file it stays.
RecordInv ==
  /\ rec \in Record /\ disk \in Record
  /\ \A s \in Send : /\ rec.ref[s] \in {None, Claim(s), Minted(s)}
                     /\ disk.ref[s] \in {None, Claim(s), Minted(s)}
                     /\ disk.ref[s] # None => rec.ref[s] # None

\* A message the session may have is an intent, in the file before it is handed over;
\* one that is being recorded, refused or withdrawn has not been handed over.
HandInv ==
  \A s \in Send :
    /\ turn[s] # "none" => rec.intent[s] # "none" /\ disk.intent[s] # "none"
    /\ ingest[s] \in {"recording", "armed"} => rec.intent[s] # "none"
    /\ ingest[s] = "armed" => disk.intent[s] # "none"
    /\ ingest[s] \in {"recording", "armed", "refused", "withdrawing"} => turn[s] = "none"

\* What is delivered, in the record, in the file or by a worker, is in the chat.
PostedInv ==
  /\ \A s \in Send : "delivered" \in {rec.intent[s], disk.intent[s]} => shown[s] # None
  /\ \A w \in Worker : job[w].pc = "delivered" => shown[job[w].stream] # None

\* A reply that was begun has its claim in the file; a claim that is being saved is
\* the only one of its intent, and its reply was not begun before.
BeginClaiming(b) == begin[b].pc = "claiming"
JobClaiming(w)   == job[w].pc = "claiming"
ClaimInv ==
  /\ started \in [Send -> {0, 1}]
  /\ \A s \in Send : started[s] = 1 => disk.ref[s] # None
  /\ \A b \in Begin : BeginClaiming(b) =>
       rec.ref[begin[b].send] # None /\ started[begin[b].send] = 0
  /\ \A w \in Worker : JobClaiming(w) => rec.ref[job[w].send] # None /\ started[job[w].send] = 0
  /\ \A b, c \in Begin :
       BeginClaiming(b) /\ BeginClaiming(c) /\ begin[b].send = begin[c].send => b = c
  /\ \A v, w \in Worker : JobClaiming(v) /\ JobClaiming(w) /\ job[v].send = job[w].send => v = w
  /\ \A b \in Begin, w \in Worker :
       BeginClaiming(b) /\ JobClaiming(w) => begin[b].send # job[w].send

\* What every step preserves.
Inv == JobInv /\ PlainInv /\ RecordInv /\ HandInv /\ PostedInv /\ ClaimInv

--------------------------------------------------------------------------------
(***************************************************************************)
(* Jobs, streams being begun, and the forwarder                            *)
(***************************************************************************)

LEMMA NoneIsNot ==
  /\ None \notin Send /\ None \notin Begin /\ None \notin Delivery /\ None # "notice"
  /\ \A s \in Send : Claim(s) \in Delivery /\ Minted(s) \in Delivery
  /\ \A s, t \in Send : Claim(s) # Minted(t) /\ (Claim(s) = Claim(t) => s = t)
  BY ChannelAssumption DEF ChannelAssumption, Delivery, Claim, Minted

\* How the end of a turn or a removed forwarder is settled.
LEMMA SettlingFacts ==
  ASSUME JobInv, NEW s \in Maybe(Send), NEW ok \in BOOLEAN,
         s \in Send \/ (~ok /\ (forwarder.stream # None \/ forwarder.promise # None))
  PROVE  LET j == Settling(s, ok) IN
         /\ j \in Job /\ Fits(j) /\ j.pc \notin {"claiming", "delivered"}
         /\ j.wait # None => j.wait \in Begin /\ begin[j.wait].pc # "unused" /\ begin[j.wait].attached
<1> DEFINE j == Settling(s, ok)
<1>1. /\ forwarder.stream \in Maybe(Send) /\ forwarder.promise \in Maybe(Begin)
      /\ forwarder.promise # None =>
           begin[forwarder.promise].pc # "unused" /\ begin[forwarder.promise].attached
  BY DEF JobInv
<1>2. /\ j.send = s /\ j.stream = forwarder.stream
      /\ j.wait = IF forwarder.stream = None THEN forwarder.promise ELSE None
      /\ j.pc = CASE forwarder.stream # None -> IF ok THEN "finalize" ELSE "undo"
                  [] forwarder.stream = None /\ forwarder.promise # None ->
                       IF ok THEN "await" ELSE "awaitUndo"
                  [] OTHER -> IF ok THEN "claim" ELSE "fail"
      /\ j = [pc |-> j.pc, send |-> j.send, stream |-> j.stream, wait |-> j.wait]
  BY DEF Settling
<1> HIDE DEF j
<1>3. CASE forwarder.stream # None
  <2>1. j.pc = IF ok THEN "finalize" ELSE "undo"
    BY <1>2, <1>3
  <2>2. j.pc \in {"finalize", "undo"} /\ (j.pc = "finalize" => s \in Send) /\ j.wait = None
    BY <1>2, <1>3, <2>1
  <2>3. j.stream \in Send
    BY <1>1, <1>2, <1>3 DEF Maybe
  <2>4. QED
    BY <1>1, <1>2, <2>2, <2>3 DEF Job, Fits, Pc, Maybe, j
<1>4. CASE forwarder.stream = None /\ forwarder.promise # None
  <2>1. j.pc = IF ok THEN "await" ELSE "awaitUndo"
    BY <1>2, <1>4
  <2>2. j.pc \in {"await", "awaitUndo"} /\ (j.pc = "await" => s \in Send)
    BY <1>2, <1>4, <2>1
  <2>3. j.wait = forwarder.promise /\ j.wait \in Begin
    BY <1>1, <1>2, <1>4 DEF Maybe
  <2>4. QED
    BY <1>1, <1>2, <1>4, <2>2, <2>3 DEF Job, Fits, Pc, Maybe, j
<1>5. CASE forwarder.stream = None /\ forwarder.promise = None
  <2>1. s \in Send /\ j.wait = None /\ j.pc = IF ok THEN "claim" ELSE "fail"
    BY <1>2, <1>5
  <2>2. j.pc \in {"claim", "fail"}
    BY <2>1
  <2>3. QED
    BY <1>1, <1>2, <1>5, <2>1, <2>2 DEF Job, Fits, Pc, Maybe, j
<1>6. QED
  BY <1>3, <1>4, <1>5 DEF j

LEMMA RemovesFacts ==
  ASSUME JobInv, Removes, forwarder' = NoForwarder, todo' = todo
  PROVE  /\ JobInv'
         /\ \A w \in Worker : job'[w] = job[w] \/ job'[w].pc \notin {"claiming", "delivered"}
         /\ \A b \in Begin : begin'[b].pc = begin[b].pc /\ begin'[b].send = begin[b].send
<1>1. begin' = [b \in Begin |-> [begin[b] EXCEPT !.attached = FALSE]]
  BY DEF Removes
<1>2. /\ begin' \in [Begin -> [pc : {"unused", "create", "claiming"}, send : Maybe(Send),
                               attached : BOOLEAN]]
      /\ \A b \in Begin : begin'[b].pc = begin[b].pc /\ begin'[b].send = begin[b].send
  <2>1. ASSUME NEW b \in Begin
        PROVE  /\ begin'[b] = [begin[b] EXCEPT !.attached = FALSE]
               /\ begin'[b] \in [pc : {"unused", "create", "claiming"}, send : Maybe(Send),
                                  attached : BOOLEAN]
               /\ begin'[b].pc = begin[b].pc /\ begin'[b].send = begin[b].send
    <3>1. begin[b] \in [pc : {"unused", "create", "claiming"}, send : Maybe(Send),
                        attached : BOOLEAN]
      BY DEF JobInv
    <3>2. begin'[b] = [begin[b] EXCEPT !.attached = FALSE]
      BY <1>1
    <3>3. QED
      BY <3>1, <3>2
  <2>2. QED
    BY <1>1, <2>1
<1>3. /\ job' \in [Worker -> Job] /\ \A w \in Worker : Fits(job'[w])
      /\ \A w \in Worker : job'[w] = job[w] \/ job'[w].pc \notin {"claiming", "delivered"}
      /\ \A w \in Worker : job'[w].wait # None => begin[job'[w].wait].pc # "unused"
  <2>1. CASE job' = job
    BY <2>1 DEF JobInv
  <2>2. ASSUME NEW x \in Removal, job' = [job EXCEPT ![x] = Settling(forwarder.active, FALSE)],
               forwarder.active # None \/ forwarder.stream # None \/ forwarder.promise # None
        PROVE  /\ job' \in [Worker -> Job] /\ \A w \in Worker : Fits(job'[w])
               /\ \A w \in Worker : job'[w] = job[w] \/ job'[w].pc \notin {"claiming", "delivered"}
               /\ \A w \in Worker : job'[w].wait # None => begin[job'[w].wait].pc # "unused"
    <3>1. forwarder.active \in Maybe(Send)
      BY DEF JobInv
    <3>2. forwarder.active \in Send \/ forwarder.stream # None \/ forwarder.promise # None
      BY <2>2, <3>1 DEF Maybe
    <3> DEFINE j == Settling(forwarder.active, FALSE)
    <3>3. /\ j \in Job /\ Fits(j) /\ j.pc \notin {"claiming", "delivered"}
          /\ j.wait # None => j.wait \in Begin /\ begin[j.wait].pc # "unused"
      BY <3>1, <3>2, SettlingFacts
    <3> HIDE DEF j
    <3>4. job' = [job EXCEPT ![x] = j] /\ x \in Worker
      BY <2>2 DEF j, Worker
    <3>5. QED
      BY <3>3, <3>4 DEF JobInv
  <2>3. QED
    BY <2>1, <2>2 DEF Removes
<1>4. /\ forwarder' \in [pending : SUBSET Send, active : Maybe(Send), stream : Maybe(Send),
                         promise : Maybe(Begin)]
      /\ forwarder'.promise = None
  BY DEF NoForwarder, Maybe
<1>5. \A w \in Worker : job'[w].wait # None => begin'[job'[w].wait].pc # "unused"
  <2>1. \A w \in Worker : job'[w].wait \in Maybe(Begin)
    BY <1>3 DEF Job
  <2>2. QED
    BY <1>2, <1>3, <2>1 DEF Maybe
<1>6. QED
  BY <1>2, <1>3, <1>4, <1>5 DEF JobInv

\* A promise is fulfilled: nobody waits for it any more.
LEMMA FulfilsFacts ==
  ASSUME JobInv, NEW b \in Begin, NEW d \in Maybe(Send), Fulfils(b, d), todo' = todo
  PROVE  /\ JobInv'
         /\ \A w \in Worker : job'[w] = job[w] \/ job'[w].pc \notin {"claiming", "delivered"}
         /\ begin' = [begin EXCEPT ![b] = Unused]
<1>1. begin' = [begin EXCEPT ![b] = Unused]
  BY DEF Fulfils
<1>2. /\ begin' \in [Begin -> [pc : {"unused", "create", "claiming"}, send : Maybe(Send),
                               attached : BOOLEAN]]
      /\ \A c \in Begin : begin'[c].pc # "unused" => begin'[c].send \in Send
      /\ \A c \in Begin \ {b} : begin'[c] = begin[c]
  BY <1>1 DEF JobInv, Unused, Maybe
<1>3. job' = [w \in Worker |-> IF job[w].wait = b THEN Resumed(job[w], d) ELSE job[w]]
  BY DEF Fulfils
<1>4. ASSUME NEW w \in Worker
      PROVE  /\ job'[w] \in Job /\ Fits(job'[w])
             /\ job'[w] = job[w] \/ job'[w].pc \notin {"claiming", "delivered"}
             /\ job'[w].wait # None => begin'[job'[w].wait].pc # "unused"
  <2>1. /\ job[w] \in Job /\ Fits(job[w])
        /\ job[w].wait # None => begin[job[w].wait].pc # "unused"
    BY DEF JobInv
  <2>2. CASE job[w].wait = b
    <3> DEFINE j == job[w]
    <3>1. job'[w] = Resumed(j, d) /\ j.pc \in {"await", "awaitUndo"}
      BY <1>3, <2>1, <2>2, NoneIsNot DEF Fits
    <3>2. j \in Job /\ Fits(j)
      BY <2>1
    <3> HIDE DEF j
    <3>3. ASSUME NEW pc \in {"finalize", "claim", "undo", "fail", "idle"},
                 Resumed(j, d) = [j EXCEPT !.wait = None, !.stream = d, !.pc = pc],
                 pc \in {"finalize", "claim", "fail"} => j.send \in Send,
                 pc \in {"finalize", "undo"} => d \in Send
          PROVE  /\ job'[w] \in Job /\ Fits(job'[w]) /\ job'[w].wait = None
                 /\ job'[w].pc \notin {"claiming", "delivered"}
      <4> DEFINE k == [j EXCEPT !.wait = None, !.stream = d, !.pc = pc]
      <4>1. k \in Job
        BY <3>2 DEF Job, Pc, Maybe
      <4>2. k.pc = pc /\ k.send = j.send /\ k.stream = d /\ k.wait = None
        BY <3>2 DEF Job
      <4>3. job'[w] = k
        BY <3>1, <3>3
      <4> HIDE DEF k
      <4>4. Fits(k)
        BY <3>3, <4>2 DEF Fits
      <4>5. QED
        BY <3>3, <4>1, <4>2, <4>3, <4>4
    <3>4. j.pc = "await" => j.send \in Send
      BY <3>2 DEF Fits
    <3>5. j.send \in Maybe(Send)
      BY <3>2 DEF Job
    <3>6. CASE j.pc = "await"
      <4>1. CASE d # None
        BY <3>3, <3>4, <3>6, <4>1 DEF Resumed, Maybe
      <4>2. CASE d = None
        BY <3>3, <3>4, <3>6, <4>2 DEF Resumed
      <4>3. QED
        BY <4>1, <4>2
    <3>7. CASE j.pc = "awaitUndo"
      <4>1. CASE d # None
        BY <3>3, <3>7, <4>1 DEF Resumed, Maybe
      <4>2. CASE d = None /\ j.send # None
        BY <3>3, <3>5, <3>7, <4>2 DEF Resumed, Maybe
      <4>3. CASE d = None /\ j.send = None
        BY <3>3, <3>7, <4>3 DEF Resumed
      <4>4. QED
        BY <4>1, <4>2, <4>3
    <3>8. QED
      BY <3>1, <3>6, <3>7
  <2>3. CASE job[w].wait # b
    BY <1>2, <1>3, <2>1, <2>3 DEF Job, Maybe
  <2>4. QED
    BY <2>2, <2>3
<1>5. /\ forwarder' \in [pending : SUBSET Send, active : Maybe(Send), stream : Maybe(Send),
                         promise : Maybe(Begin)]
      /\ forwarder'.promise # None =>
           begin'[forwarder'.promise].pc # "unused" /\ begin'[forwarder'.promise].attached
  <2>1. CASE begin[b].attached
    BY <2>1 DEF Fulfils, JobInv, Maybe
  <2>2. CASE ~begin[b].attached
    <3>1. forwarder' = forwarder
      BY <2>2 DEF Fulfils
    <3>2. forwarder.promise # b
      BY <2>2, NoneIsNot DEF JobInv
    <3>3. QED
      BY <1>2, <3>1, <3>2 DEF JobInv, Maybe
  <2>3. QED
    BY <2>1, <2>2
<1>6. job' \in [Worker -> Job]
  BY <1>3, <1>4
<1>7. QED
  BY <1>1, <1>2, <1>4, <1>5, <1>6 DEF JobInv

\* A worker that waits for no stream goes on.
LEMMA WorkerMoves ==
  ASSUME JobInv, NEW w \in Worker, NEW j \in Job, Fits(j), j.wait = None,
         job' = [job EXCEPT ![w] = j], UNCHANGED listening, todo' = todo
  PROVE  JobInv'
  BY DEF JobInv, listening

LEMMA JobStep == JobInv /\ RecordInv /\ [Next]_vars => JobInv'
<1> SUFFICES ASSUME JobInv, RecordInv, [Next]_vars PROVE JobInv'
  OBVIOUS
<1>0. ASSUME UNCHANGED <<job, begin, todo>>, forwarder' = forwarder PROVE JobInv'
  BY <1>0 DEF JobInv
<1>1. ASSUME NEW s \in Send, Arrive(s) PROVE JobInv'
  <2>1. CASE UNCHANGED <<listening, job>>
    BY <1>0, <1>1, <2>1 DEF Arrive, listening
  <2>2. CASE Removes /\ forwarder' = NoForwarder
    BY <1>1, <2>2, RemovesFacts DEF Arrive
  <2>3. QED
    BY <1>1, <2>1, <2>2 DEF Arrive
<1>2. ASSUME NEW s \in Send, Arm(s) \/ HandOverFails(s) PROVE JobInv'
  <2>1. UNCHANGED <<job, begin, todo>>
    BY <1>2 DEF Arm, HandOverFails, work
  <2>2. /\ forwarder' \in [pending : SUBSET Send, active : Maybe(Send), stream : Maybe(Send),
                           promise : Maybe(Begin)]
        /\ forwarder'.promise = forwarder.promise
    <3>1. /\ forwarder.pending \in SUBSET Send /\ forwarder.active \in Maybe(Send)
          /\ forwarder \in [pending : SUBSET Send, active : Maybe(Send), stream : Maybe(Send),
                            promise : Maybe(Begin)]
      BY DEF JobInv
    <3>2. CASE Arm(s)
      <4>1. forwarder.pending \cup {s} \in SUBSET Send
        BY <3>1
      <4>2. QED
        BY <3>1, <3>2, <4>1 DEF Arm
    <3>3. CASE HandOverFails(s)
      <4>1. /\ forwarder.pending \ {s} \in SUBSET Send
            /\ (IF forwarder.active = s THEN None ELSE forwarder.active) \in Maybe(Send)
        BY <3>1 DEF Maybe
      <4>2. forwarder' = [forwarder EXCEPT !.pending = @ \ {s},
                                           !.active = IF @ = s THEN None ELSE @]
        BY <3>3 DEF HandOverFails
      <4>3. QED
        BY <3>1, <4>1, <4>2
    <3>4. QED
      BY <1>2, <3>2, <3>3
  <2>3. QED
    BY <2>1, <2>2 DEF JobInv
<1>3. ASSUME NEW s \in Send, Withdrew(s) PROVE JobInv'
  <2>1. CASE UNCHANGED <<listening, job>>
    BY <1>0, <1>3, <2>1 DEF Withdrew, listening
  <2>2. CASE Removes /\ forwarder' = NoForwarder
    BY <1>3, <2>2, RemovesFacts DEF Withdrew
  <2>3. QED
    BY <1>3, <2>1, <2>2 DEF Withdrew
<1>4. ASSUME NEW s \in Send, TurnStarts(s) PROVE JobInv'
  <2>1. /\ forwarder' \in [pending : SUBSET Send, active : Maybe(Send), stream : Maybe(Send),
                           promise : Maybe(Begin)]
        /\ forwarder'.promise = forwarder.promise
    BY <1>4 DEF TurnStarts, JobInv, Maybe
  <2>2. QED
    BY <1>4, <2>1 DEF TurnStarts, JobInv, work
<1>5. ASSUME NEW s \in Send, Text(s) PROVE JobInv'
  <2>1. CASE UNCHANGED listening
    BY <1>0, <1>5, <2>1 DEF Text, listening, work
  <2>2. ASSUME NEW b \in Begin, begin[b].pc = "unused",
               begin' = [begin EXCEPT ![b] = [pc |-> "create", send |-> s, attached |-> TRUE]],
               forwarder' = [forwarder EXCEPT !.promise = b]
        PROVE  JobInv'
    <3>1. \A w \in Worker : job[w].wait \in Maybe(Begin) /\ job[w].wait # b
      BY <2>2, NoneIsNot DEF JobInv, Job
    <3>2. UNCHANGED <<job, todo>>
      BY <1>5 DEF Text, work
    <3>3. QED
      BY <2>2, <3>1, <3>2 DEF JobInv, Maybe
  <2>3. QED
    BY <1>5, <2>1, <2>2 DEF Text
<1>6. ASSUME NEW s \in Send, TurnEnds(s) PROVE JobInv'
  <2>1. UNCHANGED <<begin, todo>>
    BY <1>6 DEF TurnEnds
  <2>2. CASE UNCHANGED <<forwarder, job>>
    BY <1>0, <2>1, <2>2
  <2>3. ASSUME NEW ok \in BOOLEAN, job' = [job EXCEPT ![s] = Settling(s, ok)],
               forwarder' = [forwarder EXCEPT !.pending = @ \ {s}, !.active = None,
                                              !.stream = None, !.promise = None]
        PROVE  JobInv'
    <3> DEFINE j == Settling(s, ok)
    <3>1. s \in Maybe(Send) /\ s \in Worker
      BY DEF Maybe, Worker
    <3>2. /\ j \in Job /\ Fits(j)
          /\ j.wait # None => j.wait \in Begin /\ begin[j.wait].pc # "unused"
      BY <3>1, SettlingFacts
    <3>3. job' = [job EXCEPT ![s] = j]
      BY <2>3
    <3> HIDE DEF j
    <3>4. /\ job' \in [Worker -> Job] /\ \A w \in Worker : Fits(job'[w])
          /\ \A w \in Worker : job'[w].wait # None => begin[job'[w].wait].pc # "unused"
      BY <3>1, <3>2, <3>3 DEF JobInv
    <3>5. forwarder.pending \in SUBSET Send /\ forwarder.pending \ {s} \in SUBSET Send
      BY DEF JobInv
    <3>6. /\ forwarder' \in [pending : SUBSET Send, active : Maybe(Send), stream : Maybe(Send),
                             promise : Maybe(Begin)]
          /\ forwarder'.promise = None
      BY <2>3, <3>5 DEF JobInv, Maybe
    <3>7. QED
      BY <2>1, <3>4, <3>6 DEF JobInv
  <2>4. QED
    BY <1>6, <2>2, <2>3 DEF TurnEnds
<1>7. ASSUME NEW b \in Begin, BeginClaims(b) PROVE JobInv'
  BY <1>7 DEF BeginClaims, JobInv, work
<1>8. ASSUME NEW b \in Begin, BeginGivesUp(b) PROVE JobInv'
  BY <1>8, FulfilsFacts DEF BeginGivesUp, Maybe
<1>9. ASSUME NEW b \in Begin, Begun(b) PROVE JobInv'
  <2>1. begin[b].send \in Maybe(Send)
    BY DEF JobInv
  <2>2. QED
    BY <1>9, <2>1, FulfilsFacts DEF Begun
<1>10. ASSUME NEW w \in Worker, Work(w) PROVE JobInv'
  <2>1. UNCHANGED listening /\ todo' = todo
    BY <1>10 DEF Work, ClaimIntent, ClaimSaved, Dispatch, Finalize, Undo, Settle, SettleSaved,
                 FailIntent, FailSaved
  <2>2. /\ job[w] \in Job /\ Fits(job[w]) /\ job \in [Worker -> Job]
        /\ job[w].pc \notin {"await", "awaitUndo"} => job[w].wait = None
    BY DEF JobInv, Fits
  <2>3. ASSUME NEW pc \in Pc, job' = To(w, pc), job[w].wait = None, Fits([job[w] EXCEPT !.pc = pc])
        PROVE  JobInv'
    <3> DEFINE j == [job[w] EXCEPT !.pc = pc]
    <3>1. j \in Job /\ j.wait = None /\ job' = [job EXCEPT ![w] = j]
      BY <2>2, <2>3 DEF Job, To
    <3>2. QED
      BY <2>1, <2>3, <3>1, WorkerMoves
  <2>4. ASSUME job' = Ends(w) PROVE JobInv'
    <3> DEFINE j == [Idle EXCEPT !.pc = Home(w)]
    <3>1. j \in Job /\ Fits(j) /\ j.wait = None /\ job' = [job EXCEPT ![w] = j]
      BY <2>4 DEF Job, Ends, Idle, Home, Pc, Fits, Maybe
    <3>2. QED
      BY <2>1, <3>1, WorkerMoves
  <2>5. CASE ClaimIntent(w)
    BY <2>2, <2>3, <2>4, <2>5 DEF ClaimIntent, Fits, Pc, Job
  <2>6. CASE ClaimSaved(w)
    <3> DEFINE j == [job[w] EXCEPT !.pc = "dispatch", !.stream = job[w].send]
    <3>1. j \in Job /\ Fits(j) /\ j.wait = None
      BY <2>2, <2>6 DEF ClaimSaved, Job, Fits, Pc, Maybe
    <3>2. job' = [job EXCEPT ![w] = j]
      BY <2>2, <2>6 DEF ClaimSaved
    <3>3. QED
      BY <2>1, <3>1, <3>2, WorkerMoves
  <2>7. CASE Dispatch(w)
    BY <2>2, <2>3, <2>7 DEF Dispatch, Fits, Pc, Job
  <2>8. CASE Finalize(w)
    BY <2>2, <2>3, <2>8 DEF Finalize, Fits, Pc, Job
  <2>9. CASE Undo(w)
    BY <2>2, <2>3, <2>9 DEF Undo, Fits, Pc, Job
  <2>10. CASE Settle(w)
    BY <2>2, <2>3, <2>10 DEF Settle, Fits, Pc, Job
  <2>11. CASE SettleSaved(w)
    BY <2>2, <2>3, <2>4, <2>11 DEF SettleSaved, Fits, Pc, Job, Maybe
  <2>12. CASE FailIntent(w)
    BY <2>2, <2>3, <2>12 DEF FailIntent, Fits, Pc, Job
  <2>13. CASE FailSaved(w)
    BY <2>4, <2>13 DEF FailSaved
  <2>14. QED
    BY <1>10, <2>5, <2>6, <2>7, <2>8, <2>9, <2>10, <2>11, <2>12, <2>13 DEF Work
<1>11. ASSUME NEW r \in Reconciler, Run(r) PROVE JobInv'
  <2>1. r \in Worker /\ job[r] \in Job /\ Fits(job[r])
    BY DEF JobInv, Worker
  <2>2. UNCHANGED <<begin, forwarder>>
    BY <1>11 DEF Run, Reconcile, CheckClaimed, ReadTurns, Replay, EndReconcile, listening
  <2>3. todo' \in [Reconciler -> [claimed : SUBSET Send, open : SUBSET Send, slot : Maybe(Delivery),
                                 status : Status, read : BOOLEAN]]
    <3> DEFINE Todo == [claimed : SUBSET Send, open : SUBSET Send, slot : Maybe(Delivery),
                        status : Status, read : BOOLEAN]
    <3>1. todo \in [Reconciler -> Todo] /\ rec.slot \in Maybe(Delivery) /\ rec.status \in Status
      BY DEF JobInv, RecordInv, Record, Maybe
    <3>2. ASSUME NEW t \in Todo, todo' = [todo EXCEPT ![r] = t] PROVE todo' \in [Reconciler -> Todo]
      BY <3>1, <3>2
    <3>3. CASE Reconcile(r)
      <4> DEFINE t == [claimed |-> {s \in Send : Pending(s) /\ rec.ref[s] # None},
                       open    |-> {s \in Send : Pending(s) /\ rec.ref[s] = None},
                       slot    |-> rec.slot, status |-> rec.status, read |-> FALSE]
      <4>1. t \in Todo
        BY <3>1
      <4>2. todo' = [todo EXCEPT ![r] = t]
        BY <3>3 DEF Reconcile
      <4>3. QED
        BY <3>2, <4>1, <4>2
    <3>4. CASE CheckClaimed(r)
      <4>1. PICK s \in todo[r].claimed : todo' = [todo EXCEPT ![r].claimed = @ \ {s}]
        BY <3>4 DEF CheckClaimed
      <4>2. [todo[r] EXCEPT !.claimed = @ \ {s}] \in Todo
        BY <3>1
      <4>3. QED
        BY <3>1, <3>2, <4>1, <4>2
    <3>5. CASE ReadTurns(r)
      <4> DEFINE t == [todo[r] EXCEPT !.read = TRUE, !.slot = None, !.status = "none",
                                      !.open = {s \in @ : turn[s] \in {"ok", "failed"}}]
      <4>1. t \in Todo
        BY <3>1 DEF Maybe, Status
      <4>2. todo' = [todo EXCEPT ![r] = t]
        BY <3>1, <3>5 DEF ReadTurns
      <4>3. QED
        BY <3>2, <4>1, <4>2
    <3>6. CASE Replay(r)
      <4>1. PICK s \in todo[r].open : todo' = [todo EXCEPT ![r].open = @ \ {s}]
        BY <3>6 DEF Replay
      <4>2. [todo[r] EXCEPT !.open = @ \ {s}] \in Todo
        BY <3>1
      <4>3. QED
        BY <3>1, <3>2, <4>1, <4>2
    <3>7. CASE EndReconcile(r)
      BY <3>1, <3>7 DEF EndReconcile, NoTodo, Maybe, Status
    <3>8. QED
      BY <1>11, <3>3, <3>4, <3>5, <3>6, <3>7 DEF Run
  <2>4. /\ job' \in [Worker -> Job] /\ \A w \in Worker : Fits(job'[w])
        /\ \A w \in Worker : job'[w] = job[w] \/ job'[w].wait = None
    <3>1. ASSUME NEW j \in Job, Fits(j), j.wait = None, job' = [job EXCEPT ![r] = j]
          PROVE  /\ job' \in [Worker -> Job] /\ \A w \in Worker : Fits(job'[w])
                 /\ \A w \in Worker : job'[w] = job[w] \/ job'[w].wait = None
      BY <2>1, <3>1 DEF JobInv
    <3>2. job[r].pc \in {"idle", "next"} => job[r].wait = None
      BY <2>1 DEF Fits
    <3>3. CASE Reconcile(r)
      <4> DEFINE j == [job[r] EXCEPT !.pc = "next"]
      <4>1. j \in Job /\ Fits(j) /\ j.wait = None /\ job' = [job EXCEPT ![r] = j]
        BY <2>1, <3>2, <3>3 DEF Reconcile, To, Job, Fits, Pc
      <4>2. QED
        BY <3>1, <4>1
    <3>4. CASE CheckClaimed(r)
      <4>1. PICK s \in todo[r].claimed :
              job' = IF Owned(r, s) THEN job ELSE [job EXCEPT ![r].pc = "fail", ![r].send = s]
        BY <3>4 DEF CheckClaimed
      <4>2. CASE job' = job
        BY <4>2 DEF JobInv
      <4>3. CASE job' = [job EXCEPT ![r].pc = "fail", ![r].send = s]
        <5> DEFINE j == [job[r] EXCEPT !.pc = "fail", !.send = s]
        <5>0. s \in Send
          BY DEF JobInv
        <5>1. j \in Job /\ Fits(j) /\ j.wait = None /\ job' = [job EXCEPT ![r] = j]
          BY <2>1, <3>2, <3>4, <4>3, <5>0 DEF CheckClaimed, Job, Fits, Pc, Maybe, JobInv
        <5>2. QED
          BY <3>1, <5>1
      <4>4. QED
        BY <4>1, <4>2, <4>3
    <3>5. CASE ReadTurns(r)
      BY <3>5 DEF ReadTurns, JobInv
    <3>6. CASE Replay(r)
      <4>1. PICK s \in todo[r].open :
              job' = [job EXCEPT ![r].send = s, ![r].pc = IF turn[s] = "ok" THEN "claim" ELSE "fail"]
        BY <3>6 DEF Replay
      <4> DEFINE j == [job[r] EXCEPT !.send = s, !.pc = IF turn[s] = "ok" THEN "claim" ELSE "fail"]
      <4>2. s \in Send
        BY DEF JobInv
      <4>3. j \in Job /\ Fits(j) /\ j.wait = None /\ job' = [job EXCEPT ![r] = j]
        BY <2>1, <3>2, <3>6, <4>1, <4>2 DEF Replay, Job, Fits, Pc, Maybe, JobInv
      <4>4. QED
        BY <3>1, <4>3
    <3>7. CASE EndReconcile(r)
      <4>1. Idle \in Job /\ Fits(Idle) /\ Idle.wait = None /\ job' = [job EXCEPT ![r] = Idle]
        BY <3>7 DEF EndReconcile, Idle, Job, Fits, Pc, Maybe
      <4>2. QED
        BY <3>1, <4>1
    <3>8. QED
      BY <1>11, <3>3, <3>4, <3>5, <3>6, <3>7 DEF Run
  <2>5. QED
    BY <2>2, <2>3, <2>4 DEF JobInv
<1>12. CASE Stop
  BY <1>12, RemovesFacts DEF Stop
<1>13. CASE Crash
  <2>1. Idle \in Job /\ Fits(Idle) /\ Idle.wait = None
    BY DEF Idle, Job, Fits, Pc, Maybe
  <2>2. QED
    BY <1>13, <2>1 DEF Crash, JobInv, Unused, NoForwarder, NoTodo, Maybe, Status
<1>14. ASSUME NEW s \in Send, Rearm(s) \/ HandOver(s) \/ Withdraw(s) PROVE JobInv'
  BY <1>0, <1>14 DEF Rearm, HandOver, Withdraw, listening, work
<1>15. CASE Stopped \/ UNCHANGED vars
  BY <1>0, <1>15 DEF Stopped, vars, listening, work
<1>16. QED
  BY <1>1, <1>2, <1>3, <1>4, <1>5, <1>6, <1>7, <1>8, <1>9, <1>10, <1>11, <1>12, <1>13, <1>14, <1>15
  DEF Next, Deliver, Stream

--------------------------------------------------------------------------------
(***************************************************************************)
(* Types of the rest                                                       *)
(***************************************************************************)

LEMMA TimersType ==
  ASSUME NEW n \in Nat, due \in 0..MaxDue, TimersSet(n)
  PROVE  due' \in 0..MaxDue
  BY ChannelAssumption DEF ChannelAssumption, TimersSet

LEMMA LostType ==
  \A t \in {"none", "queued", "running", "ok", "failed", "cut"} :
    Lost(t) \in {"none", "ok", "failed", "cut"} /\ (Lost(t) # "none" => t # "none")
  BY DEF Lost

LEMMA PlainStep == JobInv /\ PlainInv /\ [Next]_vars => PlainInv'
<1> SUFFICES ASSUME JobInv, PlainInv, [Next]_vars PROVE PlainInv'
  OBVIOUS
<1>1. ASSUME NEW s \in Send, Arrive(s) \/ Deliver(s) PROVE PlainInv'
  <2>1. due' \in 0..MaxDue
    <3>1. due' = due \/ TimersSet(1) \/ TimersSet(3)
      BY <1>1 DEF Arrive, Deliver, Arm, Rearm, HandOver, HandOverFails, Withdraw, Withdrew, timers
    <3>2. QED
      BY <3>1, TimersType DEF PlainInv
  <2>2. UNCHANGED <<inFlight, retry, chat>>
    BY <1>1 DEF Arrive, Deliver, Arm, Rearm, HandOver, HandOverFails, Withdraw, Withdrew, timers
  <2>3. /\ session' \in {"none", "live", "stopping"}
        /\ turn' \in [Send -> {"none", "queued", "running", "ok", "failed", "cut"}]
    BY <1>1 DEF PlainInv, Arrive, Deliver, Arm, Rearm, HandOver, HandOverFails, Withdraw, Withdrew, life
  <2>4. ingest' \in [Send -> {"idle", "recording", "rerecording", "armed", "refused",
                             "withdrawing", "done"}]
    BY <1>1 DEF PlainInv, Arrive, Deliver, Arm, Rearm, HandOver, HandOverFails, Withdraw, Withdrew
  <2>5. QED
    BY <2>1, <2>2, <2>3, <2>4 DEF PlainInv, chat
<1>2. ASSUME NEW d \in Send, NEW t \in Send, Shows(d, t)
      PROVE  /\ shown' \in [Send -> Send \cup {None, "notice"}]
             /\ draft' \in [Send -> {"new", "open", "off"}]
  BY <1>2 DEF Shows, PlainInv
<1>3. ASSUME NEW s \in Send, TurnStarts(s) \/ TurnEnds(s) PROVE PlainInv'
  BY <1>3 DEF TurnStarts, TurnEnds, PlainInv, timers, chat
<1>4. ASSUME NEW s \in Send, Text(s) PROVE PlainInv'
  <2>1. forwarder.stream \in Maybe(Send)
    BY DEF JobInv
  <2>2. /\ shown' \in [Send -> Send \cup {None, "notice"}]
        /\ draft' \in [Send -> {"new", "open", "off"}]
    <3>1. CASE UNCHANGED <<shown, draft>>
      BY <3>1 DEF PlainInv
    <3>2. CASE forwarder.stream # None /\ Shows(forwarder.stream, s)
      BY <1>2, <2>1, <3>2 DEF Maybe
    <3>3. QED
      BY <1>4, <3>1, <3>2 DEF Text
  <2>3. QED
    BY <1>4, <2>2 DEF Text, PlainInv, timers, life
<1>5. ASSUME NEW b \in Begin, Stream(b) PROVE PlainInv'
  <2>1. CASE BeginClaims(b) \/ BeginGivesUp(b)
    BY <2>1 DEF BeginClaims, BeginGivesUp, PlainInv, timers, life, chat
  <2>2. CASE Begun(b)
    <3>1. begin[b].send \in Send
      BY <2>2 DEF Begun, JobInv
    <3>2. inFlight' \subseteq {Claim(s) : s \in Send}
      BY <2>2, <3>1 DEF Begun, PlainInv
    <3>3. /\ shown' \in [Send -> Send \cup {None, "notice"}]
          /\ draft' \in [Send -> {"new", "open", "off"}]
      BY <1>2, <2>2, <3>1 DEF Begun
    <3>4. QED
      BY <2>2, <3>2, <3>3 DEF Begun, PlainInv, timers, life
  <2>3. QED
    BY <1>5, <2>1, <2>2 DEF Stream
<1>6. ASSUME NEW w \in Worker, Work(w) PROVE PlainInv'
  <2>1. /\ UNCHANGED <<due, ingest, session, turn>> /\ retry' \in {retry, TRUE}
    BY <1>6 DEF Work, ClaimIntent, ClaimSaved, Dispatch, Finalize, Undo, Settle, SettleSaved,
                FailIntent, FailSaved, timers, life
  <2>2. inFlight' \subseteq {Claim(s) : s \in Send}
    <3>1. ClaimSaved(w) => job[w].send \in Send
      BY DEF ClaimSaved, JobInv, Fits
    <3>2. QED
      BY <1>6, <3>1 DEF Work, ClaimIntent, ClaimSaved, Dispatch, Finalize, Undo, Settle, SettleSaved,
                        FailIntent, FailSaved, PlainInv
  <2>3. /\ shown' \in [Send -> Send \cup {None, "notice"}]
        /\ draft' \in [Send -> {"new", "open", "off"}]
    <3>1. CASE UNCHANGED <<shown, draft>>
      BY <3>1 DEF PlainInv
    <3>2. CASE Dispatch(w)
      <4>1. job[w].send \in Send
        BY <3>2 DEF Dispatch, JobInv, Fits
      <4>2. QED
        BY <3>2, <4>1 DEF Dispatch, PlainInv
    <3>3. CASE Finalize(w)
      <4>1. job[w].send \in Send /\ job[w].stream \in Send
        BY <3>3 DEF Finalize, JobInv, Fits
      <4>2. QED
        BY <3>3, <4>1 DEF Finalize, PlainInv
    <3>4. CASE Undo(w)
      <4>1. job[w].stream \in Send
        BY <3>4 DEF Undo, JobInv, Fits
      <4>2. QED
        BY <3>4, <4>1 DEF Undo, PlainInv
    <3>5. QED
      BY <1>6, <3>1, <3>2, <3>3, <3>4 DEF Work, ClaimIntent, ClaimSaved, Settle, SettleSaved,
                                         FailIntent, FailSaved, chat
  <2>4. QED
    BY <2>1, <2>2, <2>3 DEF PlainInv
<1>7. ASSUME NEW r \in Reconciler, Run(r) PROVE PlainInv'
  <2>1. UNCHANGED <<inFlight, ingest, session, turn, shown, draft>>
    BY <1>7 DEF Run, Reconcile, CheckClaimed, ReadTurns, Replay, EndReconcile, life, chat
  <2>2. due' \in 0..MaxDue /\ retry' \in BOOLEAN
    <3>1. due \in 0..MaxDue /\ retry \in BOOLEAN /\ MaxDue \in Nat
      BY ChannelAssumption DEF PlainInv, ChannelAssumption
    <3>2. due' = due \/ (due > 0 /\ due' = due - 1)
      BY <1>7 DEF Run, Reconcile, CheckClaimed, ReadTurns, Replay, EndReconcile, timers
    <3>3. retry' \in {retry, FALSE, TRUE}
      <4>1. Again \in {retry, FALSE, TRUE}
        BY <3>1 DEF Again
      <4>2. QED
        BY <1>7, <4>1 DEF Run, Reconcile, CheckClaimed, ReadTurns, Replay, EndReconcile, timers
    <3>4. due' \in 0..MaxDue
      BY <3>1, <3>2
    <3>5. QED
      BY <3>1, <3>3, <3>4
  <2>3. QED
    BY <2>1, <2>2 DEF PlainInv
<1>8. CASE Stop
  BY <1>8 DEF Stop, PlainInv, timers, chat
<1>9. CASE Stopped
  <2>1. turn' \in [Send -> {"none", "queued", "running", "ok", "failed", "cut"}]
    BY <1>9, LostType DEF Stopped, PlainInv
  <2>2. QED
    BY <1>9, <2>1 DEF Stopped, PlainInv, timers, chat
<1>10. CASE Crash
  <2>1. turn' \in [Send -> {"none", "queued", "running", "ok", "failed", "cut"}]
    <3>1. \A s \in Send : turn'[s] \in {Lost(turn[s]), "queued"}
      BY <1>10 DEF Crash
    <3>2. DOMAIN turn' = Send /\ turn' = [s \in Send |-> turn'[s]]
      BY <1>10 DEF Crash
    <3>3. QED
      BY <3>1, <3>2, LostType DEF PlainInv
  <2>2. session' \in {"none", "live", "stopping"} /\ 0 \in 0..MaxDue
    BY <1>10, ChannelAssumption DEF Crash, ChannelAssumption
  <2>3. QED
    BY <1>10, <2>1, <2>2 DEF Crash, PlainInv
<1>11. CASE UNCHANGED vars
  BY <1>11 DEF vars, timers, life, chat, PlainInv
<1>12. QED
  BY <1>1, <1>3, <1>4, <1>5, <1>6, <1>7, <1>8, <1>9, <1>10, <1>11 DEF Next

--------------------------------------------------------------------------------
(***************************************************************************)
(* The record and its file                                                 *)
(***************************************************************************)

\* The memory stays as it is and is perhaps saved, or one intent changes.
Kept == rec' = rec /\ disk' \in {disk, rec}
Updated(s) ==
  /\ disk' = disk
  /\ \/ rec' = Recorded(s)
     \/ Claimable(s) /\ rec' = Claimed(s)
     \/ rec' = Failed(s)
     \/ ingest[s] = "refused" /\ rec' = Withdrawn(s)
     \/ rec' = Settled(Claim(s), "failed")
     \/ shown[s] # None /\ rec' = Settled(Claim(s), "delivered")

LEMMA RecordFlow ==
  JobInv /\ PostedInv /\ [Next]_vars => Kept \/ (\E s \in Send : Updated(s)) \/ Crash
<1> SUFFICES ASSUME JobInv, PostedInv, [Next]_vars
             PROVE  Kept \/ (\E s \in Send : Updated(s)) \/ Crash
  OBVIOUS
<1>1. ASSUME NEW s \in Send, Arrive(s) \/ Withdraw(s) PROVE Updated(s)
  BY <1>1 DEF Arrive, Withdraw, Updated
<1>2. ASSUME NEW s \in Send, Deliver(s), ~Withdraw(s) PROVE Kept
  BY <1>2 DEF Deliver, Arm, Rearm, HandOver, HandOverFails, Withdrew, Saves, Kept
<1>3. ASSUME NEW s \in Send, TurnStarts(s) \/ Text(s) \/ TurnEnds(s) PROVE Kept
  BY <1>3 DEF TurnStarts, Text, TurnEnds, Kept
<1>4. ASSUME NEW b \in Begin, Stream(b) PROVE Kept \/ \E s \in Send : Updated(s)
  <2>1. CASE BeginClaims(b)
    <3>1. begin[b].send \in Send
      BY <2>1 DEF BeginClaims, JobInv
    <3>2. QED
      BY <2>1, <3>1 DEF BeginClaims, Updated
  <2>2. CASE BeginGivesUp(b) \/ Begun(b)
    BY <2>2 DEF BeginGivesUp, Begun, Saves, Kept
  <2>3. QED
    BY <1>4, <2>1, <2>2 DEF Stream
<1>5. ASSUME NEW w \in Worker, Work(w) PROVE Kept \/ \E s \in Send : Updated(s)
  <2>1. CASE ClaimIntent(w)
    <3>1. job[w].send \in Send
      BY <2>1 DEF ClaimIntent, JobInv, Fits
    <3>2. QED
      BY <2>1, <3>1 DEF ClaimIntent, Updated, Kept
  <2>2. CASE Settle(w)
    <3>1. job[w].stream \in Send
      BY <2>2 DEF Settle, JobInv, Fits
    <3>2. job[w].pc = "delivered" => shown[job[w].stream] # None
      BY DEF PostedInv
    <3>3. Updated(job[w].stream)
      BY <2>2, <3>2 DEF Settle, Updated
    <3>4. QED
      BY <3>1, <3>3
  <2>3. CASE FailIntent(w)
    <3>1. job[w].send \in Send
      BY <2>3 DEF FailIntent, JobInv, Fits
    <3>2. QED
      BY <2>3, <3>1 DEF FailIntent, Updated
  <2>4. CASE ClaimSaved(w) \/ Dispatch(w) \/ Finalize(w) \/ Undo(w) \/ SettleSaved(w) \/ FailSaved(w)
    BY <2>4 DEF ClaimSaved, Dispatch, Finalize, Undo, SettleSaved, FailSaved, Saves, Kept
  <2>5. QED
    BY <1>5, <2>1, <2>2, <2>3, <2>4 DEF Work
<1>6. ASSUME NEW r \in Reconciler, Run(r) PROVE Kept
  BY <1>6 DEF Run, Reconcile, CheckClaimed, ReadTurns, Replay, EndReconcile, Kept
<1>7. CASE Stop \/ Stopped \/ UNCHANGED vars
  BY <1>7 DEF Stop, Stopped, vars, Kept
<1>8. QED
  BY <1>1, <1>2, <1>3, <1>4, <1>5, <1>6, <1>7 DEF Next

\* What an update does to the record.
LEMMA UpdateFacts ==
  ASSUME RecordInv, NEW s \in Send, Updated(s)
  PROVE  /\ rec' \in Record /\ disk' = disk
         /\ \A t \in Send :
              /\ rec'.ref[t] \in {None, Claim(t), Minted(t)}
              /\ rec.ref[t] # None => rec'.ref[t] # None
              /\ rec'.intent[t] = "delivered" => rec.intent[t] = "delivered" \/ shown[t] # None
              /\ rec.intent[t] # "none" => rec'.intent[t] # "none" \/ ingest[t] = "refused"
<1> DEFINE Goal(r) ==
      /\ r \in Record
      /\ \A t \in Send :
           /\ r.ref[t] \in {None, Claim(t), Minted(t)}
           /\ rec.ref[t] # None => r.ref[t] # None
           /\ r.intent[t] = "delivered" => rec.intent[t] = "delivered" \/ shown[t] # None
           /\ rec.intent[t] # "none" => r.intent[t] # "none" \/ ingest[t] = "refused"
<1>1. /\ rec \in Record /\ rec.intent \in [Send -> Status] /\ rec.ref \in [Send -> Maybe(Delivery)]
      /\ rec.slot \in Maybe(Delivery) /\ rec.status \in Status
      /\ \A t \in Send : rec.ref[t] \in {None, Claim(t), Minted(t)}
  BY DEF RecordInv, Record, Maybe
<1>2. ASSUME rec' = Recorded(s) PROVE Goal(rec')
  BY <1>1, <1>2 DEF Recorded, Record, Status
<1>3. ASSUME rec' = Claimed(s) PROVE Goal(rec')
  BY <1>1, <1>3, NoneIsNot DEF Claimed, Record, Status, Maybe
<1>4. ASSUME rec' = Failed(s) PROVE Goal(rec')
  <2>1. CASE ~Pending(s)
    BY <1>1, <1>4, <2>1 DEF Failed
  <2>2. CASE Pending(s)
    <3> DEFINE d == IF rec.ref[s] # None /\ rec.slot = rec.ref[s] THEN rec.slot ELSE Minted(s)
    <3>1. d \in {Claim(s), Minted(s)} /\ d \in Delivery /\ d # None
      BY <1>1, NoneIsNot
    <3>2. rec' = [rec EXCEPT !.intent[s] = "failed", !.ref[s] = d, !.slot = d, !.status = "failed"]
      BY <1>4, <2>2 DEF Failed
    <3> HIDE DEF d
    <3>3. QED
      BY <1>1, <3>1, <3>2 DEF Record, Status, Maybe
  <2>3. QED
    BY <2>1, <2>2
<1>5. ASSUME rec' = Withdrawn(s), ingest[s] = "refused" PROVE Goal(rec')
  BY <1>1, <1>5 DEF Withdrawn, Record, Status
<1>6. ASSUME NEW status \in {"delivered", "failed"}, rec' = Settled(Claim(s), status),
             status = "delivered" => shown[s] # None
      PROVE  Goal(rec')
  <2>1. CASE rec.slot # Claim(s)
    BY <1>1, <1>6, <2>1 DEF Settled
  <2>2. CASE rec.slot = Claim(s)
    <3> DEFINE i == [t \in Send |-> IF rec.ref[t] = Claim(s) THEN status ELSE rec.intent[t]]
    <3>1. rec' = [rec EXCEPT !.status = status, !.intent = i]
      <4>1. rec' = [rec EXCEPT !.status = status,
                               !.intent = [t \in Send |-> IF rec.ref[t] = Claim(s) THEN status ELSE @[t]]]
        BY <1>6, <2>2, Zenon DEF Settled
      <4>2. QED
        BY <4>1
    <3>2. \A t \in Send : rec.ref[t] = Claim(s) => t = s
      BY <1>1, NoneIsNot
    <3>3. i \in [Send -> Status] /\ status \in Status
      BY <1>1 DEF Status
    <3>4. \A t \in Send : i[t] = IF rec.ref[t] = Claim(s) THEN status ELSE rec.intent[t]
      OBVIOUS
    <3> HIDE DEF i
    <3>5. /\ rec' \in Record /\ rec'.intent = i /\ rec'.ref = rec.ref
      BY <1>1, <3>1, <3>3 DEF Record
    <3>6. QED
      BY <1>1, <1>6, <3>2, <3>4, <3>5
  <2>3. QED
    BY <2>1, <2>2
<1>7. QED
  BY <1>2, <1>3, <1>4, <1>5, <1>6 DEF Updated

LEMMA RecordStep == JobInv /\ PostedInv /\ RecordInv /\ [Next]_vars => RecordInv'
<1> SUFFICES ASSUME JobInv, PostedInv, RecordInv, [Next]_vars PROVE RecordInv'
  OBVIOUS
<1>1. CASE Kept
  BY <1>1 DEF Kept, RecordInv
<1>2. ASSUME NEW s \in Send, Updated(s) PROVE RecordInv'
  BY <1>2, UpdateFacts DEF RecordInv
<1>3. CASE Crash
  BY <1>3 DEF Crash, RecordInv
<1>4. QED
  BY <1>1, <1>2, <1>3, RecordFlow

--------------------------------------------------------------------------------
(***************************************************************************)
(* Hand-over                                                               *)
(***************************************************************************)

\* How the delivery of a message to the session and its turn go on.
HandFlow(t) ==
  /\ turn'[t] # "none" => turn[t] # "none" \/ (ingest[t] = "armed" /\ ingest'[t] = "done")
  /\ ingest'[t] = "recording" =>
       ingest[t] = "recording" \/ (turn[t] = "none" /\ rec' = Recorded(t))
  /\ ingest'[t] = "armed" =>
       ingest[t] = "armed" \/ (ingest[t] = "recording" /\ rec' = rec /\ disk' = rec)
  /\ ingest'[t] \in {"refused", "withdrawing"} =>
       ingest[t] \in {"armed", "refused", "withdrawing"}

LEMMA HandFlows ==
  ASSUME PlainInv, [Next]_vars, NEW t \in Send PROVE HandFlow(t)
<1>1. /\ ingest \in [Send -> {"idle", "recording", "rerecording", "armed", "refused",
                              "withdrawing", "done"}]
      /\ turn \in [Send -> {"none", "queued", "running", "ok", "failed", "cut"}]
  BY DEF PlainInv
<1>2. ASSUME ingest' = ingest, turn' = turn PROVE HandFlow(t)
  BY <1>2 DEF HandFlow
<1>3. ASSUME NEW s \in Send, Arrive(s) PROVE HandFlow(t)
  <2>1. turn' = turn /\ rec' = Recorded(s)
    BY <1>3 DEF Arrive
  <2>2. \/ ingest' = [ingest EXCEPT ![s] = "rerecording"]
        \/ ingest' = [ingest EXCEPT ![s] = "recording"] /\ turn[s] = "none"
    BY <1>3 DEF Arrive, Known
  <2>3. QED
    BY <1>1, <2>1, <2>2 DEF HandFlow
<1>4. ASSUME NEW s \in Send, Deliver(s) PROVE HandFlow(t)
  <2>1. CASE Arm(s)
    BY <1>1, <2>1 DEF Arm, Saves, life, HandFlow
  <2>2. CASE Rearm(s)
    BY <1>1, <2>2 DEF Rearm, life, HandFlow
  <2>3. CASE HandOver(s)
    BY <1>1, <2>3 DEF HandOver, HandFlow
  <2>4. CASE HandOverFails(s)
    BY <1>1, <2>4 DEF HandOverFails, HandFlow
  <2>5. CASE Withdraw(s)
    BY <1>1, <2>5 DEF Withdraw, life, HandFlow
  <2>6. CASE Withdrew(s)
    BY <1>1, <2>6 DEF Withdrew, HandFlow
  <2>7. QED
    BY <1>4, <2>1, <2>2, <2>3, <2>4, <2>5, <2>6 DEF Deliver
<1>5. ASSUME NEW s \in Send, TurnStarts(s) \/ TurnEnds(s) PROVE HandFlow(t)
  BY <1>1, <1>5 DEF TurnStarts, TurnEnds, HandFlow
<1>6. ASSUME NEW s \in Send, Text(s) PROVE HandFlow(t)
  BY <1>2, <1>6 DEF Text, life
<1>7. ASSUME NEW b \in Begin, Stream(b) PROVE HandFlow(t)
  BY <1>2, <1>7 DEF Stream, BeginClaims, BeginGivesUp, Begun, life
<1>8. ASSUME NEW w \in Worker, Work(w) PROVE HandFlow(t)
  BY <1>2, <1>8 DEF Work, ClaimIntent, ClaimSaved, Dispatch, Finalize, Undo, Settle, SettleSaved,
                    FailIntent, FailSaved, life
<1>9. ASSUME NEW r \in Reconciler, Run(r) PROVE HandFlow(t)
  BY <1>2, <1>9 DEF Run, Reconcile, CheckClaimed, ReadTurns, Replay, EndReconcile, life
<1>10. CASE Stop
  BY <1>2, <1>10 DEF Stop
<1>11. CASE Stopped
  BY <1>1, <1>11, LostType DEF Stopped, HandFlow
<1>12. CASE Crash
  BY <1>1, <1>12, LostType DEF Crash, HandFlow
<1>13. CASE UNCHANGED vars
  BY <1>2, <1>13 DEF vars, life
<1>14. QED
  BY <1>3, <1>4, <1>5, <1>6, <1>7, <1>8, <1>9, <1>10, <1>11, <1>12, <1>13 DEF Next

LEMMA HandStep ==
  JobInv /\ PlainInv /\ RecordInv /\ PostedInv /\ HandInv /\ [Next]_vars => HandInv'
<1> SUFFICES ASSUME JobInv, PlainInv, RecordInv, PostedInv, HandInv, [Next]_vars, NEW t \in Send
             PROVE  /\ turn'[t] # "none" => rec'.intent[t] # "none" /\ disk'.intent[t] # "none"
                    /\ ingest'[t] \in {"recording", "armed"} => rec'.intent[t] # "none"
                    /\ ingest'[t] = "armed" => disk'.intent[t] # "none"
                    /\ ingest'[t] \in {"recording", "armed", "refused", "withdrawing"}
                         => turn'[t] = "none"
  BY DEF HandInv
<1>1. HandFlow(t)
  BY HandFlows
<1>2. /\ turn[t] # "none" => rec.intent[t] # "none" /\ disk.intent[t] # "none"
      /\ ingest[t] \in {"recording", "armed"} => rec.intent[t] # "none"
      /\ ingest[t] = "armed" => disk.intent[t] # "none"
      /\ ingest[t] \in {"recording", "armed", "refused", "withdrawing"} => turn[t] = "none"
  BY DEF HandInv
<1>3. CASE Crash
  <2>1. rec' = disk /\ disk' = disk /\ ingest'[t] = "idle"
    BY <1>3 DEF Crash
  <2>2. QED
    BY <1>1, <1>2, <2>1 DEF HandFlow
<1>4. ASSUME ~Crash PROVE /\ rec.intent[t] # "none" => rec'.intent[t] # "none" \/ ingest[t] = "refused"
                          /\ disk' \in {disk, rec}
  <2>1. CASE Kept
    BY <2>1 DEF Kept
  <2>2. ASSUME NEW s \in Send, Updated(s)
        PROVE  /\ rec.intent[t] # "none" => rec'.intent[t] # "none" \/ ingest[t] = "refused"
               /\ disk' = disk
    BY <2>2, UpdateFacts
  <2>3. QED
    BY <1>4, <2>1, <2>2, RecordFlow
<1>5. Recorded(t).intent[t] # "none"
  BY DEF Recorded, RecordInv, Record
<1>6. QED
  BY <1>1, <1>2, <1>3, <1>4, <1>5 DEF HandFlow

--------------------------------------------------------------------------------
(***************************************************************************)
(* Posted replies                                                          *)
(***************************************************************************)

LEMMA ShownGrows ==
  ASSUME JobInv, PlainInv, [Next]_vars, NEW t \in Send, shown[t] # None PROVE shown'[t] # None
<1>1. shown \in [Send -> Send \cup {None, "notice"}]
  BY DEF PlainInv
<1>2. ASSUME NEW d \in Send, NEW s \in Send, Shows(d, s) PROVE shown'[t] # None
  BY <1>1, <1>2, NoneIsNot DEF Shows
<1>3. ASSUME NEW s \in Send, Text(s) PROVE shown'[t] # None
  <2>1. forwarder.stream \in Maybe(Send)
    BY DEF JobInv
  <2>2. QED
    BY <1>2, <1>3, <2>1 DEF Text, Maybe
<1>4. ASSUME NEW b \in Begin, Begun(b) PROVE shown'[t] # None
  <2>1. begin[b].send \in Send
    BY <1>4 DEF Begun, JobInv
  <2>2. QED
    BY <1>2, <1>4, <2>1 DEF Begun
<1>5. ASSUME NEW w \in Worker, Dispatch(w) \/ Finalize(w) PROVE shown'[t] # None
  <2>1. job[w].send \in Send
    BY <1>5 DEF Dispatch, Finalize, JobInv, Fits
  <2>2. QED
    BY <1>1, <1>5, <2>1, NoneIsNot DEF Dispatch, Finalize
<1>6. ASSUME NEW w \in Worker, Undo(w) PROVE shown'[t] # None
  BY <1>1, <1>6, NoneIsNot DEF Undo
<1>7. ASSUME NEW w \in Worker, ClaimIntent(w) \/ ClaimSaved(w) \/ Settle(w) \/ SettleSaved(w)
                               \/ FailIntent(w) \/ FailSaved(w)
      PROVE  shown' = shown
  BY <1>7 DEF ClaimIntent, ClaimSaved, Settle, SettleSaved, FailIntent, FailSaved, chat
<1>8. ASSUME NEW s \in Send, Arrive(s) \/ Deliver(s) \/ TurnStarts(s) \/ TurnEnds(s) PROVE shown' = shown
  BY <1>8 DEF Arrive, Deliver, Arm, Rearm, HandOver, HandOverFails, Withdraw, Withdrew, TurnStarts,
              TurnEnds, chat
<1>9. ASSUME NEW b \in Begin, BeginClaims(b) \/ BeginGivesUp(b) PROVE shown' = shown
  BY <1>9 DEF BeginClaims, BeginGivesUp, chat
<1>10. ASSUME NEW r \in Reconciler, Run(r) PROVE shown' = shown
  BY <1>10 DEF Run, Reconcile, CheckClaimed, ReadTurns, Replay, EndReconcile, chat
<1>11. CASE Stop \/ Stopped \/ Crash \/ UNCHANGED vars
  BY <1>11 DEF Stop, Stopped, Crash, vars, chat
<1>12. QED
  BY <1>3, <1>4, <1>5, <1>6, <1>7, <1>8, <1>9, <1>10, <1>11 DEF Next, Work, Stream

\* A worker comes to have delivered by posting or editing, and to claim by claiming.
WorkFlow(w) ==
  /\ job'[w].pc = "delivered" => job'[w] = job[w] \/ shown'[job'[w].stream] # None
  /\ job'[w].pc = "claiming" => job'[w] = job[w] \/ ClaimIntent(w)

LEMMA WorkFlows ==
  ASSUME JobInv, PlainInv, [Next]_vars, NEW w \in Worker PROVE WorkFlow(w)
<1>1. job \in [Worker -> Job]
  BY DEF JobInv
<1>2. ASSUME job' = job PROVE WorkFlow(w)
  BY <1>2 DEF WorkFlow
<1>3. ASSUME job'[w] = job[w] \/ job'[w].pc \notin {"claiming", "delivered"} PROVE WorkFlow(w)
  BY <1>3 DEF WorkFlow
<1>4. CASE Removes /\ forwarder' = NoForwarder /\ todo' = todo
  BY <1>3, <1>4, RemovesFacts
<1>5. ASSUME NEW s \in Send, Arrive(s) \/ Withdrew(s) PROVE WorkFlow(w)
  BY <1>2, <1>4, <1>5 DEF Arrive, Withdrew
<1>6. ASSUME NEW s \in Send,
             Arm(s) \/ Rearm(s) \/ HandOver(s) \/ HandOverFails(s) \/ Withdraw(s) \/ TurnStarts(s) \/ Text(s)
      PROVE  WorkFlow(w)
  BY <1>2, <1>6 DEF Arm, Rearm, HandOver, HandOverFails, Withdraw, TurnStarts, Text, work
<1>7. ASSUME NEW s \in Send, TurnEnds(s) PROVE WorkFlow(w)
  <2>1. \A ok \in BOOLEAN : Settling(s, ok).pc \notin {"claiming", "delivered"}
    BY SettlingFacts DEF Maybe
  <2>2. CASE job' = job
    BY <1>2, <2>2
  <2>3. ASSUME NEW ok \in BOOLEAN, job' = [job EXCEPT ![s] = Settling(s, ok)] PROVE WorkFlow(w)
    <3>1. job'[w] = job[w] \/ job'[w] = Settling(s, ok)
      BY <1>1, <2>3
    <3>2. QED
      BY <1>3, <2>1, <3>1
  <2>4. QED
    BY <1>7, <2>2, <2>3 DEF TurnEnds
<1>8. ASSUME NEW b \in Begin, Stream(b) PROVE WorkFlow(w)
  <2>1. CASE BeginClaims(b)
    BY <1>2, <2>1 DEF BeginClaims, work
  <2>2. CASE BeginGivesUp(b)
    BY <1>3, <2>2, FulfilsFacts DEF BeginGivesUp, Maybe
  <2>3. CASE Begun(b)
    <3>1. begin[b].send \in Maybe(Send)
      BY DEF JobInv
    <3>2. QED
      BY <1>3, <2>3, <3>1, FulfilsFacts DEF Begun
  <2>4. QED
    BY <1>8, <2>1, <2>2, <2>3 DEF Stream
<1>9. ASSUME NEW v \in Worker, Work(v) PROVE WorkFlow(w)
  <2>1. CASE v # w
    <3>1. job'[w] = job[w]
      BY <1>1, <1>9, <2>1 DEF Work, ClaimIntent, ClaimSaved, Dispatch, Finalize, Undo, Settle,
                              SettleSaved, FailIntent, FailSaved, To, Ends
    <3>2. QED
      BY <1>3, <3>1
  <2>2. CASE v = w
    <3>0. job[w] \in Job /\ Fits(job[w])
      BY DEF JobInv
    <3>1. CASE ClaimIntent(w)
      BY <1>1, <3>0, <3>1 DEF ClaimIntent, To, Ends, Idle, Home, Job, WorkFlow
    <3>2. CASE Dispatch(w)
      <4>1. job[w].send \in Send /\ job[w].stream = job[w].send
        BY <3>0, <3>2 DEF Dispatch, Fits
      <4>2. shown' = [shown EXCEPT ![job[w].send] = job[w].send] => shown'[job[w].send] # None
        BY <4>1, NoneIsNot DEF PlainInv
      <4>3. QED
        BY <1>1, <3>0, <3>2, <4>1, <4>2 DEF Dispatch, To, Job, WorkFlow
    <3>3. CASE Finalize(w)
      <4>1. job[w].send \in Send /\ job[w].stream \in Send
        BY <3>0, <3>3 DEF Finalize, Fits
      <4>2. shown' = [shown EXCEPT ![job[w].stream] = job[w].send] => shown'[job[w].stream] # None
        BY <4>1, NoneIsNot DEF PlainInv
      <4>3. QED
        BY <1>1, <3>0, <3>3, <4>1, <4>2 DEF Finalize, To, Job, WorkFlow
    <3>4. CASE ClaimSaved(w) \/ Undo(w) \/ Settle(w) \/ SettleSaved(w) \/ FailIntent(w) \/ FailSaved(w)
      <4>1. job'[w].pc \notin {"claiming", "delivered"}
        BY <1>1, <3>0, <3>4 DEF ClaimSaved, Undo, Settle, SettleSaved, FailIntent, FailSaved, To, Ends,
                                Idle, Home, Job
      <4>2. QED
        BY <1>3, <4>1
    <3>5. QED
      BY <1>9, <2>2, <3>1, <3>2, <3>3, <3>4 DEF Work
  <2>3. QED
    BY <2>1, <2>2
<1>10. ASSUME NEW r \in Reconciler, Run(r) PROVE WorkFlow(w)
  <2>1. job'[w] = job[w] \/ job'[w].pc \notin {"claiming", "delivered"}
    <3>1. CASE Reconcile(r)
      BY <1>1, <3>1 DEF Reconcile, To, Job
    <3>2. CASE CheckClaimed(r)
      <4>1. PICK s \in Send : job' = job \/ job' = [job EXCEPT ![r].pc = "fail", ![r].send = s]
        BY <3>2 DEF CheckClaimed, JobInv
      <4>2. QED
        BY <1>1, <4>1 DEF Job
    <3>3. CASE ReadTurns(r)
      BY <3>3 DEF ReadTurns
    <3>4. CASE Replay(r)
      <4>1. PICK s \in Send, pc \in {"claim", "fail"} :
              job' = [job EXCEPT ![r].send = s, ![r].pc = pc]
        BY <3>4 DEF Replay, JobInv
      <4>2. QED
        BY <1>1, <4>1 DEF Job
    <3>5. CASE EndReconcile(r)
      BY <1>1, <3>5 DEF EndReconcile, Idle
    <3>6. QED
      BY <1>10, <3>1, <3>2, <3>3, <3>4, <3>5 DEF Run
  <2>2. QED
    BY <1>3, <2>1
<1>11. CASE Stop
  BY <1>4, <1>11 DEF Stop
<1>12. CASE Crash
  BY <1>3, <1>12 DEF Crash, Idle
<1>13. CASE Stopped \/ UNCHANGED vars
  BY <1>2, <1>13 DEF Stopped, vars, work
<1>14. QED
  BY <1>5, <1>6, <1>7, <1>8, <1>9, <1>10, <1>11, <1>12, <1>13 DEF Next, Deliver

LEMMA PostedStep ==
  JobInv /\ PlainInv /\ RecordInv /\ PostedInv /\ [Next]_vars => PostedInv'
<1> SUFFICES ASSUME JobInv, PlainInv, RecordInv, PostedInv, [Next]_vars PROVE PostedInv'
  OBVIOUS
<1>1. ASSUME NEW s \in Send, "delivered" \in {rec'.intent[s], disk'.intent[s]} PROVE shown'[s] # None
  <2>1. "delivered" \in {rec.intent[s], disk.intent[s]} \/ shown[s] # None
    <3>1. CASE Kept \/ Crash
      BY <1>1, <3>1 DEF Kept, Crash
    <3>2. ASSUME NEW u \in Send, Updated(u)
          PROVE  "delivered" \in {rec.intent[s], disk.intent[s]} \/ shown[s] # None
      BY <1>1, <3>2, UpdateFacts
    <3>3. QED
      BY <3>1, <3>2, RecordFlow
  <2>2. shown[s] # None
    BY <2>1 DEF PostedInv
  <2>3. QED
    BY <2>2, ShownGrows
<1>2. ASSUME NEW w \in Worker, job'[w].pc = "delivered" PROVE shown'[job'[w].stream] # None
  <2>1. CASE job'[w] = job[w]
    <3>1. job[w].stream \in Send
      BY <1>2, <2>1 DEF JobInv, Fits
    <3>2. QED
      BY <1>2, <2>1, <3>1, ShownGrows DEF PostedInv
  <2>2. QED
    BY <1>2, <2>1, WorkFlows DEF WorkFlow
<1>3. QED
  BY <1>1, <1>2 DEF PostedInv

--------------------------------------------------------------------------------
(***************************************************************************)
(* Claims                                                                  *)
(***************************************************************************)

\* A stream comes to claim an intent by BeginClaims.
BeginFlow(b) ==
  begin'[b].pc = "claiming" =>
    (begin[b].pc = "claiming" /\ begin'[b].send = begin[b].send) \/ BeginClaims(b)

LEMMA BeginFlows ==
  ASSUME JobInv, [Next]_vars, NEW b \in Begin PROVE BeginFlow(b)
<1>1. begin \in [Begin -> [pc : {"unused", "create", "claiming"}, send : Maybe(Send),
                           attached : BOOLEAN]]
  BY DEF JobInv
<1>2. ASSUME begin' = begin PROVE BeginFlow(b)
  BY <1>2 DEF BeginFlow
<1>3. ASSUME Removes, forwarder' = NoForwarder, todo' = todo PROVE BeginFlow(b)
  BY <1>3, RemovesFacts DEF BeginFlow
<1>4. ASSUME NEW s \in Send, Arrive(s) \/ Withdrew(s) PROVE BeginFlow(b)
  BY <1>2, <1>3, <1>4 DEF Arrive, Withdrew, listening
<1>5. ASSUME NEW s \in Send, Arm(s) \/ Rearm(s) \/ HandOver(s) \/ HandOverFails(s) \/ Withdraw(s)
                             \/ TurnStarts(s) \/ TurnEnds(s)
      PROVE  BeginFlow(b)
  BY <1>2, <1>5 DEF Arm, Rearm, HandOver, HandOverFails, Withdraw, TurnStarts, TurnEnds, listening
<1>6. ASSUME NEW s \in Send, Text(s) PROVE BeginFlow(b)
  <2>1. CASE UNCHANGED listening
    BY <1>2, <2>1 DEF listening
  <2>2. ASSUME NEW c \in Begin,
               begin' = [begin EXCEPT ![c] = [pc |-> "create", send |-> s, attached |-> TRUE]]
        PROVE  BeginFlow(b)
    BY <1>1, <2>2 DEF BeginFlow
  <2>3. QED
    BY <1>6, <2>1, <2>2 DEF Text
<1>7. ASSUME NEW c \in Begin, BeginClaims(c) PROVE BeginFlow(b)
  BY <1>1, <1>7 DEF BeginClaims, BeginFlow
<1>8. ASSUME NEW c \in Begin, BeginGivesUp(c) \/ Begun(c) PROVE BeginFlow(b)
  <2>1. begin' = [begin EXCEPT ![c] = Unused]
    BY <1>8 DEF BeginGivesUp, Begun, Fulfils
  <2>2. QED
    BY <1>1, <2>1 DEF Unused, BeginFlow
<1>9. ASSUME NEW w \in Worker, Work(w) PROVE BeginFlow(b)
  BY <1>2, <1>9 DEF Work, ClaimIntent, ClaimSaved, Dispatch, Finalize, Undo, Settle, SettleSaved,
                    FailIntent, FailSaved, listening
<1>10. ASSUME NEW r \in Reconciler, Run(r) PROVE BeginFlow(b)
  BY <1>2, <1>10 DEF Run, Reconcile, CheckClaimed, ReadTurns, Replay, EndReconcile, listening
<1>11. CASE Stop
  BY <1>3, <1>11 DEF Stop
<1>12. CASE Stopped \/ UNCHANGED vars
  BY <1>2, <1>12 DEF Stopped, vars, listening
<1>13. CASE Crash
  BY <1>13 DEF Crash, Unused, BeginFlow
<1>14. QED
  BY <1>4, <1>5, <1>6, <1>7, <1>8, <1>9, <1>10, <1>11, <1>12, <1>13 DEF Next, Deliver, Stream

\* A reply is begun when its claim has been saved.
LEMMA StartedFlow ==
  ASSUME [Next]_vars
  PROVE  \/ started' = started
         \/ \E b \in Begin : Begun(b)
         \/ \E w \in Worker : ClaimSaved(w)
<1>1. ASSUME NEW s \in Send, Arrive(s) \/ Deliver(s) \/ TurnStarts(s) \/ Text(s) \/ TurnEnds(s)
      PROVE  started' = started
  BY <1>1 DEF Arrive, Deliver, Arm, Rearm, HandOver, HandOverFails, Withdraw, Withdrew, TurnStarts,
              Text, TurnEnds, chat
<1>2. ASSUME NEW b \in Begin, BeginClaims(b) \/ BeginGivesUp(b) PROVE started' = started
  BY <1>2 DEF BeginClaims, BeginGivesUp, chat
<1>3. ASSUME NEW w \in Worker, Work(w), ~ClaimSaved(w) PROVE started' = started
  BY <1>3 DEF Work, ClaimIntent, Dispatch, Finalize, Undo, Settle, SettleSaved, FailIntent, FailSaved,
              chat
<1>4. ASSUME NEW r \in Reconciler, Run(r) PROVE started' = started
  BY <1>4 DEF Run, Reconcile, CheckClaimed, ReadTurns, Replay, EndReconcile, chat
<1>5. CASE Stop \/ Stopped \/ Crash \/ UNCHANGED vars
  BY <1>5 DEF Stop, Stopped, Crash, vars, chat
<1>6. QED
  BY <1>1, <1>2, <1>3, <1>4, <1>5 DEF Next, Stream

\* A claim in the file stays there, and one in memory is lost only by a crash.
LEMMA RefsStay ==
  ASSUME JobInv, RecordInv, PostedInv, [Next]_vars, NEW s \in Send
  PROVE  /\ disk.ref[s] # None => disk'.ref[s] # None
         /\ rec.ref[s] # None => rec'.ref[s] # None \/ Crash
<1>1. disk.ref[s] # None => rec.ref[s] # None
  BY DEF RecordInv
<1>2. CASE Kept
  BY <1>1, <1>2 DEF Kept
<1>3. ASSUME NEW t \in Send, Updated(t)
      PROVE  disk' = disk /\ (rec.ref[s] # None => rec'.ref[s] # None)
  BY <1>3, UpdateFacts
<1>4. CASE Crash
  BY <1>4 DEF Crash
<1>5. QED
  BY <1>2, <1>3, <1>4, RecordFlow

LEMMA ClaimStep ==
  JobInv /\ PlainInv /\ RecordInv /\ PostedInv /\ ClaimInv /\ [Next]_vars => ClaimInv'
<1> SUFFICES ASSUME JobInv, PlainInv, RecordInv, PostedInv, ClaimInv, [Next]_vars PROVE ClaimInv'
  OBVIOUS
<1> DEFINE Same(b) == BeginClaiming(b) /\ begin'[b].send = begin[b].send
<1> USE DEF BeginClaiming, JobClaiming
<1>1. /\ \A b \in Begin : begin[b].pc = "claiming" => begin[b].send \in Send
      /\ \A w \in Worker : job[w].pc = "claiming" => job[w].send \in Send
      /\ begin \in [Begin -> [pc : {"unused", "create", "claiming"}, send : Maybe(Send),
                             attached : BOOLEAN]]
      /\ job \in [Worker -> Job]
  BY DEF JobInv, Fits
<1>2. \A s \in Send : /\ disk.ref[s] # None => rec.ref[s] # None /\ disk'.ref[s] # None
                      /\ rec.ref[s] # None => rec'.ref[s] # None \/ Crash
  BY RefsStay DEF RecordInv
<1>3. ASSUME started' = started, ~Crash,
             \A b \in Begin : begin'[b].pc = "claiming" => Same(b),
             \A w \in Worker : job'[w].pc = "claiming" => job'[w] = job[w]
      PROVE  ClaimInv'
  BY <1>1, <1>2, <1>3 DEF ClaimInv
<1>4. ASSUME NEW s \in Send, Claimable(s), rec' = Claimed(s)
      PROVE  /\ started[s] = 0 /\ rec'.ref[s] # None
             /\ \A b \in Begin : BeginClaiming(b) => begin[b].send # s
             /\ \A w \in Worker : JobClaiming(w) => job[w].send # s
  <2>1. rec.ref[s] = None /\ rec'.ref[s] = Claim(s)
    BY <1>4 DEF Claimable, Claimed, RecordInv, Record
  <2>2. started[s] = 0
    BY <1>2, <2>1 DEF ClaimInv
  <2>3. QED
    BY <2>1, <2>2, NoneIsNot DEF ClaimInv
<1>5. ASSUME NEW b \in Begin, BeginClaims(b) PROVE ClaimInv'
  <2> DEFINE s == begin[b].send
  <2>1. s \in Send /\ Claimable(s) /\ rec' = Claimed(s)
    BY <1>5 DEF BeginClaims, JobInv
  <2>2. job' = job /\ disk' = disk /\ started' = started /\ ~BeginClaiming(b)
    BY <1>5 DEF BeginClaims, work, chat
  <2>3. /\ begin'[b].send = s
        /\ \A c \in Begin \ {b} : begin'[c] = begin[c]
    BY <1>1, <1>5 DEF BeginClaims
  <2>4. \A t \in Send : rec.ref[t] # None => rec'.ref[t] # None
    BY <2>1, NoneIsNot DEF Claimed, RecordInv, Record
  <2>5. /\ started[s] = 0 /\ rec'.ref[s] # None
        /\ \A c \in Begin : BeginClaiming(c) => begin[c].send # s
        /\ \A w \in Worker : JobClaiming(w) => job[w].send # s
    BY <1>4, <2>1
  <2> HIDE DEF s
  <2>6. \A c \in Begin : begin'[c].pc = "claiming" =>
          rec'.ref[begin'[c].send] # None /\ started[begin'[c].send] = 0
    BY <1>1, <2>3, <2>4, <2>5 DEF ClaimInv
  <2>7. \A c, d \in Begin : begin'[c].pc = "claiming" /\ begin'[d].pc = "claiming"
                             /\ begin'[c].send = begin'[d].send => c = d
    BY <2>3, <2>5 DEF ClaimInv
  <2>8. \A c \in Begin, w \in Worker :
          begin'[c].pc = "claiming" /\ JobClaiming(w) => begin'[c].send # job[w].send
    BY <2>3, <2>5 DEF ClaimInv
  <2>9. \A w \in Worker : JobClaiming(w) => rec'.ref[job[w].send] # None /\ started[job[w].send] = 0
    BY <1>1, <2>4 DEF ClaimInv
  <2>10. QED
    BY <2>2, <2>6, <2>7, <2>8, <2>9 DEF ClaimInv
<1>6. ASSUME NEW v \in Worker, ClaimIntent(v) PROVE ClaimInv'
  <2> DEFINE s == job[v].send
  <2>1. UNCHANGED <<begin, disk, started>> /\ job[v].pc = "claim"
    BY <1>6 DEF ClaimIntent, listening, chat
  <2>2. CASE Claimable(s) /\ rec' = Claimed(s) /\ job' = To(v, "claiming")
    <3>1. s \in Send
      BY <2>1 DEF JobInv, Fits
    <3>2. /\ job'[v].send = s
          /\ \A w \in Worker \ {v} : job'[w] = job[w]
      BY <1>1, <2>2 DEF To, Job
    <3>3. \A t \in Send : rec.ref[t] # None => rec'.ref[t] # None
      BY <2>2, <3>1, NoneIsNot DEF Claimed, RecordInv, Record
    <3>4. /\ started[s] = 0 /\ rec'.ref[s] # None
          /\ \A c \in Begin : BeginClaiming(c) => begin[c].send # s
          /\ \A w \in Worker : JobClaiming(w) => job[w].send # s
      BY <1>4, <2>2, <3>1
    <3> HIDE DEF s
    <3>5. \A w \in Worker : job'[w].pc = "claiming" =>
            rec'.ref[job'[w].send] # None /\ started[job'[w].send] = 0
      BY <1>1, <3>2, <3>3, <3>4 DEF ClaimInv
    <3>6. \A u, w \in Worker : job'[u].pc = "claiming" /\ job'[w].pc = "claiming"
                                /\ job'[u].send = job'[w].send => u = w
      BY <3>2, <3>4 DEF ClaimInv
    <3>7. \A c \in Begin, w \in Worker :
            BeginClaiming(c) /\ job'[w].pc = "claiming" => begin[c].send # job'[w].send
      BY <3>2, <3>4 DEF ClaimInv
    <3>8. \A c \in Begin : BeginClaiming(c) =>
            rec'.ref[begin[c].send] # None /\ started[begin[c].send] = 0
      BY <1>1, <3>3 DEF ClaimInv
    <3>9. QED
      BY <2>1, <3>5, <3>6, <3>7, <3>8 DEF ClaimInv
  <2>3. CASE rec' = rec /\ job' = Ends(v)
    <3>1. \A w \in Worker : job'[w].pc = "claiming" => job'[w] = job[w]
      BY <1>1, <2>3 DEF Ends, Idle, Home
    <3>2. QED
      BY <2>1, <2>3, <3>1 DEF ClaimInv
  <2>4. QED
    BY <1>6, <2>2, <2>3 DEF ClaimIntent
<1>7. ASSUME NEW b \in Begin, Begun(b) PROVE ClaimInv'
  <2> DEFINE s == begin[b].send
  <2>1. /\ s \in Send /\ begin[b].pc = "claiming" /\ rec' = rec /\ disk' = rec
        /\ started' = [started EXCEPT ![s] = @ + 1]
    BY <1>7 DEF Begun, Saves, JobInv
  <2>2. /\ \A w \in Worker : job'[w].pc = "claiming" => job'[w] = job[w]
        /\ begin' = [begin EXCEPT ![b] = Unused]
    <3>1. Fulfils(b, s) /\ todo' = todo
      BY <1>7 DEF Begun
    <3>2. QED
      BY <2>1, <3>1, FulfilsFacts DEF Maybe
  <2>3. \A c \in Begin : begin'[c].pc = "claiming" => c # b /\ begin'[c] = begin[c]
    BY <1>1, <2>2 DEF Unused
  <2>4. /\ started[s] = 0 /\ rec.ref[s] # None
        /\ \A c \in Begin : BeginClaiming(c) /\ c # b => begin[c].send # s
        /\ \A w \in Worker : JobClaiming(w) => job[w].send # s
    BY <2>1 DEF ClaimInv
  <2> HIDE DEF s
  <2>5. /\ started' \in [Send -> {0, 1}] /\ \A t \in Send \ {s} : started'[t] = started[t]
    BY <2>1, <2>4 DEF ClaimInv
  <2>6. \A t \in Send : started'[t] = 1 => disk'.ref[t] # None
    BY <1>2, <2>1, <2>4, <2>5 DEF ClaimInv
  <2>7. \A c \in Begin : begin'[c].pc = "claiming" =>
          rec'.ref[begin'[c].send] # None /\ started'[begin'[c].send] = 0
    BY <1>1, <2>1, <2>3, <2>4, <2>5 DEF ClaimInv
  <2>8. \A w \in Worker : job'[w].pc = "claiming" =>
          rec'.ref[job'[w].send] # None /\ started'[job'[w].send] = 0
    BY <1>1, <2>1, <2>2, <2>4, <2>5 DEF ClaimInv
  <2>9. QED
    BY <2>2, <2>3, <2>5, <2>6, <2>7, <2>8 DEF ClaimInv
<1>8. ASSUME NEW v \in Worker, ClaimSaved(v) PROVE ClaimInv'
  <2> DEFINE s == job[v].send
  <2>1. /\ s \in Send /\ job[v].pc = "claiming" /\ rec' = rec /\ disk' = rec /\ begin' = begin
        /\ started' = [started EXCEPT ![s] = @ + 1]
    BY <1>8 DEF ClaimSaved, Saves, JobInv, Fits, listening
  <2>2. \A w \in Worker : job'[w].pc = "claiming" => w # v /\ job'[w] = job[w]
    BY <1>1, <1>8 DEF ClaimSaved, Job
  <2>3. /\ started[s] = 0 /\ rec.ref[s] # None
        /\ \A c \in Begin : BeginClaiming(c) => begin[c].send # s
        /\ \A w \in Worker : JobClaiming(w) /\ w # v => job[w].send # s
    BY <2>1 DEF ClaimInv
  <2> HIDE DEF s
  <2>4. /\ started' \in [Send -> {0, 1}] /\ \A t \in Send \ {s} : started'[t] = started[t]
    BY <2>1, <2>3 DEF ClaimInv
  <2>5. \A t \in Send : started'[t] = 1 => disk'.ref[t] # None
    BY <1>2, <2>1, <2>3, <2>4 DEF ClaimInv
  <2>6. \A c \in Begin : BeginClaiming(c) =>
          rec'.ref[begin[c].send] # None /\ started'[begin[c].send] = 0
    BY <1>1, <2>1, <2>3, <2>4 DEF ClaimInv
  <2>7. \A w \in Worker : job'[w].pc = "claiming" =>
          rec'.ref[job'[w].send] # None /\ started'[job'[w].send] = 0
    BY <1>1, <2>1, <2>2, <2>3, <2>4 DEF ClaimInv
  <2>8. QED
    BY <2>1, <2>2, <2>4, <2>5, <2>6, <2>7 DEF ClaimInv
<1>9. CASE Crash
  <2>1. /\ started' = started /\ disk' = disk
        /\ \A b \in Begin : begin'[b].pc # "claiming"
        /\ \A w \in Worker : job'[w].pc # "claiming"
    BY <1>9 DEF Crash, Unused, Idle
  <2>2. QED
    BY <2>1 DEF ClaimInv
<1>10. ASSUME ~Crash, \A b \in Begin : ~BeginClaims(b) /\ ~Begun(b),
              \A w \in Worker : ~ClaimIntent(w) /\ ~ClaimSaved(w)
       PROVE  ClaimInv'
  <2>1. started' = started
    BY <1>10, StartedFlow
  <2>2. \A b \in Begin : begin'[b].pc = "claiming" => Same(b)
    BY <1>10, BeginFlows DEF BeginFlow
  <2>3. \A w \in Worker : job'[w].pc = "claiming" => job'[w] = job[w]
    BY <1>10, WorkFlows DEF WorkFlow
  <2>4. QED
    BY <1>3, <1>10, <2>1, <2>2, <2>3
<1>11. QED
  BY <1>5, <1>6, <1>7, <1>8, <1>9, <1>10

--------------------------------------------------------------------------------
(***************************************************************************)
(* Theorems                                                                *)
(***************************************************************************)

LEMMA InvInit == Init => Inv
<1> SUFFICES ASSUME Init PROVE Inv
  OBVIOUS
<1>1. JobInv
  <2>1. Idle \in Job /\ Fits(Idle) /\ Idle.wait = None
    BY DEF Idle, Job, Fits, Pc, Maybe
  <2>2. NoTodo \in [claimed : SUBSET Send, open : SUBSET Send, slot : Maybe(Delivery),
                    status : Status, read : BOOLEAN]
    BY DEF NoTodo, Maybe, Status
  <2>3. /\ job \in [Worker -> Job] /\ \A w \in Worker : Fits(job[w])
        /\ \A w \in Worker : job[w].wait = None
    BY <2>1 DEF Init
  <2>4. /\ begin \in [Begin -> [pc : {"unused", "create", "claiming"}, send : Maybe(Send),
                                attached : BOOLEAN]]
        /\ \A b \in Begin : begin[b].pc = "unused"
    BY DEF Init, Unused, Maybe
  <2>5. /\ forwarder \in [pending : SUBSET Send, active : Maybe(Send), stream : Maybe(Send),
                           promise : Maybe(Begin)]
        /\ forwarder.promise = None
    BY DEF Init, NoForwarder, Maybe
  <2>6. todo \in [Reconciler -> [claimed : SUBSET Send, open : SUBSET Send, slot : Maybe(Delivery),
                                 status : Status, read : BOOLEAN]]
    BY <2>2 DEF Init
  <2>7. QED
    BY <2>3, <2>4, <2>5, <2>6 DEF JobInv
<1>2. PlainInv
  <2>1. inFlight = {} /\ due \in 0..MaxDue /\ retry \in BOOLEAN /\ session = "none"
    <3>1. inFlight = {} /\ due = 0 /\ retry = FALSE /\ session = "none"
      BY DEF Init
    <3>2. MaxDue \in Nat
      BY ChannelAssumption DEF ChannelAssumption
    <3>3. due \in 0..MaxDue
      BY <3>1, <3>2
    <3>4. retry \in BOOLEAN
      BY <3>1, Zenon
    <3>5. QED
      BY <3>1, <3>3, <3>4, Zenon
  <2>2. /\ ingest = [s \in Send |-> "idle"] /\ turn = [s \in Send |-> "none"]
        /\ shown = [s \in Send |-> None] /\ draft = [s \in Send |-> "new"]
    BY DEF Init
  <2>3. QED
    BY <2>1, <2>2 DEF PlainInv
<1>3. RecordInv
  <2>1. /\ [s \in Send |-> "none"] \in [Send -> Status]
        /\ [s \in Send |-> None] \in [Send -> Delivery \cup {None}]
    BY DEF Status
  <2>2. rec \in Record /\ disk = rec
    BY <2>1 DEF Init, Record, Status
  <2>3. \A s \in Send : rec.ref[s] = None
    BY DEF Init
  <2>4. QED
    BY <2>2, <2>3 DEF RecordInv
<1>4. HandInv
  BY DEF Init, HandInv
<1>5. PostedInv
  BY DEF Init, PostedInv, Idle
<1>6. ClaimInv
  BY DEF Init, ClaimInv, BeginClaiming, JobClaiming, Idle, Unused
<1>7. QED
  BY <1>1, <1>2, <1>3, <1>4, <1>5, <1>6 DEF Inv

LEMMA InvStep == Inv /\ [Next]_vars => Inv'
  BY JobStep, PlainStep, RecordStep, HandStep, PostedStep, ClaimStep DEF Inv

\* Messages, forwarders, streams, reconciliation runs and crashes keep the record, the
\* jobs and the chat in step.
THEOREM InvCorrect == Spec => []Inv
  BY InvInit, InvStep, PTL DEF Spec

\* The record, its file, the jobs and the chat have their types, and who waits for a
\* stream waits for one that is being begun.
THEOREM TypeCorrect == Spec => []TypeOK
<1>1. Inv => TypeOK
  BY DEF Inv, JobInv, PlainInv, RecordInv, TypeOK, Fits, Maybe
<1>2. QED
  BY InvCorrect, <1>1, PTL

\* No reply is begun twice, whoever claims its intent: a forwarder, a stream, a
\* reconciliation run, or a run after a restart.
THEOREM StartedCorrect == Spec => []StartedOnce
<1>1. Inv => StartedOnce
  BY DEF Inv, ClaimInv, StartedOnce
<1>2. QED
  BY InvCorrect, <1>1, PTL

\* An intent settled as delivered has a message in the chat, also after a crash between
\* the post and the write of the record, and after another delivery has taken the slot.
THEOREM DeliveredCorrect == Spec => []DeliveredIsPosted
<1>1. Inv => DeliveredIsPosted
  BY DEF Inv, PostedInv, DeliveredIsPosted
<1>2. QED
  BY InvCorrect, <1>1, PTL

\* What the session was given is an intent in the file, over refused hand-overs,
\* redeliveries, withdrawals and crashes.
THEOREM HandOverCorrect == Spec => []HandOverIsRecorded
<1>1. Inv => HandOverIsRecorded
  BY DEF Inv, HandInv, HandOverIsRecorded
<1>2. QED
  BY InvCorrect, <1>1, PTL
================================================================================
