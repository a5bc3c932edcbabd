----------------------- MODULE CommanderLifecycleProofs -----------------------
(***************************************************************************)
(* TLAPS proofs of the safety properties of CommanderLifecycle: types,     *)
(* locks and leases, then what a deletion has observed and what it leaves. *)
(***************************************************************************)
EXTENDS CommanderLifecycleInv, FiniteSetTheorems, TLAPS

\* The locks of a write are commanders, each once, and the observed and the
\* wanted parent are among them.
LEMMA LockOrderFacts ==
  ASSUME NEW a \in Parent, NEW b \in Parent
  PROVE  /\ LockOrder(a, b) \in Seq(Commander)
         /\ \A i, j \in 1..Len(LockOrder(a, b)) :
              LockOrder(a, b)[i] = LockOrder(a, b)[j] => i = j
         /\ a \in Commander => \E i \in 1..Len(LockOrder(a, b)) : LockOrder(a, b)[i] = a
         /\ b \in Commander => \E i \in 1..Len(LockOrder(a, b)) : LockOrder(a, b)[i] = b
<1>1. CASE a \in Commander /\ b \in Commander /\ a < b
  <2>1. LockOrder(a, b) = <<a, b>>
    BY <1>1, LifecycleAssumption DEF LockOrder
  <2>2. QED
    BY <1>1, <2>1, LifecycleAssumption
<1>2. CASE a \in Commander /\ b \in Commander /\ b < a
  <2>1. LockOrder(a, b) = <<b, a>>
    BY <1>2, LifecycleAssumption DEF LockOrder
  <2>2. QED
    BY <1>2, <2>1, LifecycleAssumption
<1>3. CASE a \in Commander /\ (b \notin Commander \/ a = b)
  <2>1. LockOrder(a, b) = <<a>>
    BY <1>3, LifecycleAssumption DEF LockOrder
  <2>2. QED
    BY <1>3, <2>1
<1>4. CASE a \notin Commander /\ b \in Commander
  <2>1. LockOrder(a, b) = <<b>>
    BY <1>4 DEF LockOrder
  <2>2. QED
    BY <1>4, <2>1
<1>5. CASE a \notin Commander /\ b \notin Commander
  <2>1. LockOrder(a, b) = <<>>
    BY <1>5 DEF LockOrder
  <2>2. QED
    BY <1>5, <2>1
<1>6. \/ a \in Commander /\ b \in Commander /\ a < b
      \/ a \in Commander /\ b \in Commander /\ b < a
      \/ a \in Commander /\ (b \notin Commander \/ a = b)
      \/ a \notin Commander /\ b \in Commander
      \/ a \notin Commander /\ b \notin Commander
  BY LifecycleAssumption, SMT DEF Parent
<1>7. QED
  BY <1>1, <1>2, <1>3, <1>4, <1>5, <1>6

-----------------------------------------------------------------------------
(***************************************************************************)
(* Types                                                                   *)
(***************************************************************************)

\* The updates of the promise chains and of the generations keep their types.
LEMMA EnqueuedType ==
  ASSUME CoordTypes, NEW p \in Proc, NEW c \in Commander
  PROVE  Enqueued(p, c) \in [Commander -> Seq(Proc)]
  BY DEF Enqueued, CoordTypes

\* Releasing a lock keeps the types of the promise chains.
LEMMA ReleasedType ==
  ASSUME CoordTypes, NEW c \in Commander, tail[c] # <<>>
  PROVE  Released(c) \in [Commander -> Seq(Proc)]
  BY DEF Released, CoordTypes

\* Advancing a generation keeps the type of the generations.
LEMMA BumpedType ==
  ASSUME CoordTypes, NEW c \in Commander
  PROVE  Bumped(c) \in [Commander -> Nat]
  BY DEF Bumped, CoordTypes

\* So do the ways a request ends, loops or starts to wait.
LEMMA FinishType ==
  ASSUME RequestTypes, NEW p \in Proc, Finish(p), UNCHANGED ops
  PROVE  RequestTypes'
  BY DEF Finish, Goto, RequestTypes, Pcs, Kinds, Outcomes, Parent

\* The next sweep of a DELETE, or its final 409, keeps the types.
LEMMA NextAttemptType ==
  ASSUME RequestTypes, NEW p \in Proc, NextAttempt(p), UNCHANGED ops
  PROVE  RequestTypes'
<1>1. CASE SurveyAgain(p)
  BY <1>1 DEF SurveyAgain, Goto, RequestTypes, Pcs, Outcomes, write
<1>2. QED
  BY <1>1, FinishType DEF NextAttempt

\* Queueing for the locks of a write keeps the types.
LEMMA AcquireType ==
  ASSUME CoordTypes, RequestTypes, NEW p \in Proc, NEW locks \in Seq(Commander),
         AcquireAll(p, locks)
  PROVE  /\ tail' \in [Commander -> Seq(Proc)]
         /\ pc' \in [Proc -> Pcs]
         /\ order' \in [Proc -> Seq(Commander)]
         /\ got' \in [Proc -> Nat]
<1>1. locks # <<>> => Head(locks) \in Commander
  OBVIOUS
<1>2. locks # <<>> => tail' \in [Commander -> Seq(Proc)]
  BY <1>1, EnqueuedType DEF AcquireAll
<1>3. locks = <<>> => tail' \in [Commander -> Seq(Proc)]
  BY DEF AcquireAll, CoordTypes
<1>4. pc' \in [Proc -> Pcs]
  BY DEF AcquireAll, RequestTypes, Goto, Pcs, WaitPcs
<1>5. QED
  BY <1>2, <1>3, <1>4 DEF AcquireAll, RequestTypes

\* Queueing for one lock keeps the types.
LEMMA AwaitType ==
  ASSUME CoordTypes, RequestTypes, NEW p \in Proc, NEW c \in Commander,
         NEW label \in Pcs, AwaitLock(p, c, label)
  PROVE  /\ tail' \in [Commander -> Seq(Proc)]
         /\ pc' \in [Proc -> Pcs]
         /\ order' \in [Proc -> Seq(Commander)]
         /\ got' \in [Proc -> Nat]
  BY EnqueuedType DEF AwaitLock, RequestTypes, Goto

\* Every step keeps the types, given which commanders and locks are named where.
LEMMA TypeStep ==
  TypeOK /\ KindInv /\ OrderInv /\ HeadInv /\ [Next]_vars => TypeOK'
<1> SUFFICES ASSUME TypeOK, KindInv, OrderInv, HeadInv, [Next]_vars PROVE TypeOK'
  OBVIOUS
<1> USE DEF TypeOK
<1>1. ASSUME NEW p \in Proc, NEW k \in Automation, NEW d \in Parent, StartWrite(p, k, d)
      PROVE  TypeOK'
  <2>1. LockOrder(owner[k], d) \in Seq(Commander)
    BY LockOrderFacts DEF TreeTypes
  <2>2. AcquireAll(p, LockOrder(owner[k], d))
    BY <1>1 DEF StartWrite
  <2>3. CoordTypes'
    BY <1>1, <2>1, <2>2, AcquireType DEF StartWrite, CoordTypes
  <2>4. RequestTypes'
    <3>1. UNCHANGED <<com, outcome, seen, swept, attempt>>
      BY <1>1 DEF StartWrite, sweep
    <3>2. kind' \in [Proc -> Kinds] /\ ops' \in Nat
      <4>1. Start(p, "create") \/ Start(p, "move") \/ Start(p, "touch")
        BY <1>1 DEF StartWrite
      <4>2. \E w \in Writes : kind' = [kind EXCEPT ![p] = w] /\ ops' = ops + 1
        BY <4>1 DEF Start, Writes
      <4>3. QED
        BY <4>2 DEF Kinds, RequestTypes
    <3>3. item' \in [Proc -> Automation \cup {Absent}]
      BY <1>1 DEF StartWrite, RequestTypes
    <3>4. from' \in [Proc -> Parent] /\ dest' \in [Proc -> Parent]
      BY <1>1 DEF StartWrite, RequestTypes, TreeTypes
    <3>5. QED
      BY <2>1, <2>2, <3>1, <3>2, <3>3, <3>4, AcquireType DEF RequestTypes
  <2>5. QED
    BY <1>1, <2>3, <2>4 DEF StartWrite, tree, TreeTypes
<1>2. ASSUME NEW p \in Proc, NEW c \in Commander, StartLaunch(p, c)
      PROVE  TypeOK'
  <2>1. AwaitLock(p, c, "admit") /\ "admit" \in Pcs
    BY <1>2 DEF StartLaunch, Pcs, WaitPcs
  <2>2. kind' \in [Proc -> Kinds] /\ com' \in [Proc -> Commander \cup {NoParent}] /\ ops' \in Nat
    BY <1>2 DEF StartLaunch, Start, Kinds, RequestTypes
  <2>3. QED
    BY <1>2, <2>1, <2>2, AwaitType DEF StartLaunch, CoordTypes, TreeTypes, RequestTypes,
       tree, write, sweep
<1>3. ASSUME NEW p \in Proc, NEW c \in Commander, StartDelete(p, c)
      PROVE  TypeOK'
  BY <1>3 DEF StartDelete, Start, Kinds, CoordTypes, TreeTypes, RequestTypes, Goto, Pcs,
           coord, tree, write
<1>4. ASSUME NEW p \in Proc, NEW c \in Commander, StartProvision(p, c)
      PROVE  TypeOK'
  <2>1. AwaitLock(p, c, "publish") /\ "publish" \in Pcs
    BY <1>4 DEF StartProvision, Pcs, WaitPcs
  <2>2. kind' \in [Proc -> Kinds] /\ com' \in [Proc -> Commander \cup {NoParent}] /\ ops' \in Nat
    BY <1>4 DEF StartProvision, Start, Kinds, RequestTypes
  <2>3. QED
    BY <1>4, <2>1, <2>2, AwaitType DEF StartProvision, CoordTypes, TreeTypes, RequestTypes,
       tree, write, sweep
<1>5. ASSUME NEW p \in Proc, GrantLock(p)
      PROVE  TypeOK'
  <2>1. CoordTypes'
    <3>1. got[p] + 1 # Len(order[p]) => order[p][got[p] + 2] \in Commander
      BY <1>5 DEF GrantLock, OrderInv, OrderAt, RequestTypes
    <3>2. CASE got[p] + 1 = Len(order[p])
      BY <1>5, <3>2 DEF GrantLock, CoordTypes
    <3>3. CASE got[p] + 1 # Len(order[p])
      <4>1. tail' = Enqueued(p, order[p][got[p] + 2])
        BY <1>5, <3>3 DEF GrantLock
      <4>2. QED
        BY <1>5, <3>1, <3>3, <4>1, EnqueuedType DEF GrantLock, CoordTypes
    <3>4. QED
      BY <3>2, <3>3
  <2>2. got' \in [Proc -> Nat] /\ pc' \in [Proc -> Pcs]
    <3>1. got' = [got EXCEPT ![p] = @ + 1] /\ (Goto(p, "write") \/ UNCHANGED pc)
      BY <1>5 DEF GrantLock
    <3>2. got' \in [Proc -> Nat]
      BY <3>1 DEF RequestTypes
    <3>3. pc' \in [Proc -> Pcs]
      BY <3>1 DEF RequestTypes, Goto, Pcs
    <3>4. QED
      BY <3>2, <3>3
  <2>3. QED
    BY <1>5, <2>1, <2>2 DEF GrantLock, TreeTypes, RequestTypes, tree, write, sweep
<1>6. ASSUME NEW p \in Proc, RefuseLock(p)
      PROVE  TypeOK'
  <2>1. /\ got' = [got EXCEPT ![p] = @ + 1]
        /\ outcome' = [outcome EXCEPT ![p] = "fail"]
        /\ Goto(p, "unwind")
        /\ UNCHANGED <<coord, tree, kind, com, write, order, sweep, ops>>
    BY <1>6 DEF RefuseLock
  <2>2. got' \in [Proc -> Nat]
    BY <2>1 DEF RequestTypes
  <2>3. outcome' \in [Proc -> Outcomes] /\ pc' \in [Proc -> Pcs]
    BY <2>1 DEF RequestTypes, Goto, Pcs, Outcomes
  <2>4. CoordTypes' /\ TreeTypes'
    BY <2>1 DEF CoordTypes, TreeTypes, coord, tree
  <2>5. QED
    BY <2>1, <2>2, <2>3, <2>4 DEF RequestTypes, write, sweep
<1>7. ASSUME NEW p \in Proc, Unwind(p)
      PROVE  TypeOK'
  <2> DEFINE c == order[p][got[p]]
  <2>1. c \in Commander
    BY <1>7 DEF Unwind, OrderInv, OrderAt, RequestTypes
  <2>2. tail[c] # <<>>
    BY <1>7, <2>1 DEF Unwind, HeadInv, Holds, IsHead, RequestTypes
  <2>3. tail' \in [Commander -> Seq(Proc)]
    BY <1>7, <2>1, <2>2, ReleasedType DEF Unwind
  <2>4. version' \in [Commander -> Nat]
    BY <1>7, <2>1, BumpedType DEF Unwind, CoordTypes
  <2>5. got' \in [Proc -> Nat]
    BY <1>7 DEF Unwind, RequestTypes
  <2>6. QED
    BY <1>7, <2>3, <2>4, <2>5 DEF Unwind, CoordTypes, TreeTypes, RequestTypes, tree, write,
       sweep
<1>8. ASSUME NEW p \in Proc, WriteAutomation(p)
      PROVE  TypeOK'
  <2>1. owner' \in [Automation -> Parent]
    BY <1>8 DEF WriteAutomation, TreeTypes, RequestTypes
  <2>2. outcome' \in [Proc -> Outcomes] /\ pc' \in [Proc -> Pcs]
    BY <1>8 DEF WriteAutomation, RequestTypes, Goto, Pcs, WaitPcs, LeasePcs, Outcomes
  <2>3. QED
    BY <1>8, <2>1, <2>2 DEF WriteAutomation, CoordTypes, TreeTypes, RequestTypes, coord,
       write, sweep
<1>9. ASSUME NEW p \in Proc, ReturnWrite(p)
      PROVE  TypeOK'
  <2>1. RequestTypes'
    <3>1. CASE outcome[p] = "retry"
      BY <1>9, <3>1 DEF ReturnWrite, RequestTypes, Goto, Pcs, WaitPcs, LeasePcs, Outcomes,
         write, sweep
    <3>2. CASE outcome[p] # "retry"
      BY <1>9, <3>2, FinishType DEF ReturnWrite
    <3>3. QED
      BY <3>1, <3>2
  <2>2. QED
    BY <1>9, <2>1 DEF ReturnWrite, CoordTypes, TreeTypes, coord, tree
<1>10. ASSUME NEW p \in Proc, ObserveAgain(p)
      PROVE  TypeOK'
  <2>0. CASE item[p] \notin Automation
    BY <1>10, <2>0 DEF ObserveAgain, KindInv, KindAt
  <2>1. CASE item[p] \in Automation /\ owner[item[p]] = Absent
    BY <1>10, <2>1, FinishType DEF ObserveAgain, CoordTypes, TreeTypes, tree
  <2>2. CASE item[p] \in Automation /\ owner[item[p]] # Absent
    <3> DEFINE k == item[p]
               d == IF kind[p] = "touch" THEN owner[k] ELSE dest[p]
    <3>1. owner[k] \in Parent /\ d \in Parent
      BY <2>2 DEF TreeTypes, RequestTypes
    <3>2. LockOrder(owner[k], d) \in Seq(Commander)
      BY <3>1, LockOrderFacts
    <3>3. AcquireAll(p, LockOrder(owner[k], d))
      BY <1>10, <2>2 DEF ObserveAgain
    <3>4. from' \in [Proc -> Parent] /\ dest' \in [Proc -> Parent]
      BY <1>10, <2>2, <3>1 DEF ObserveAgain, RequestTypes
    <3>5. outcome' \in [Proc -> Outcomes]
      BY <1>10, <2>2 DEF ObserveAgain, RequestTypes, Outcomes
    <3>6. UNCHANGED <<version, cleanupState, activities, tree, ops, kind, com, item, sweep>>
      BY <1>10, <2>2 DEF ObserveAgain
    <3>7. QED
      BY <3>2, <3>3, <3>4, <3>5, <3>6, AcquireType
         DEF CoordTypes, TreeTypes, RequestTypes, tree, sweep
  <2>3. QED
    BY <2>0, <2>1, <2>2
<1>11. ASSUME NEW p \in Proc, Admit(p)
      PROVE  TypeOK'
  <2>1. com[p] \in Commander
    BY <1>11 DEF Admit, KindInv, KindAt
  <2>2. CoordTypes'
    <3>1. tail' \in [Commander -> Seq(Proc)] /\ UNCHANGED cleanupState
      BY <1>11, <2>1, ReleasedType DEF Admit, IsHead
    <3>2. version' \in [Commander -> Nat]
      BY <1>11, <2>1, BumpedType DEF Admit, CoordTypes
    <3>3. activities' \in [Commander -> Nat]
      <4>1. \/ activities' = [activities EXCEPT ![com[p]] = @ + 1]
            \/ UNCHANGED activities
        BY <1>11 DEF Admit
      <4>2. CASE activities' = [activities EXCEPT ![com[p]] = @ + 1]
        BY <2>1, <4>2 DEF CoordTypes
      <4>3. CASE UNCHANGED activities
        BY <4>3 DEF CoordTypes
      <4>4. QED
        BY <4>1, <4>2, <4>3
    <3>4. QED
      BY <3>1, <3>2, <3>3 DEF CoordTypes
  <2>3. RequestTypes'
    <3>1. CASE Accepts(com[p])
      BY <1>11, <3>1 DEF Admit, RequestTypes, Goto, Pcs, WaitPcs, LeasePcs, Outcomes, write,
         sweep
    <3>2. CASE ~Accepts(com[p])
      BY <1>11, <3>2, FinishType DEF Admit
    <3>3. QED
      BY <3>1, <3>2
  <2>4. QED
    BY <1>11, <2>2, <2>3 DEF Admit, TreeTypes, tree
<1>12. ASSUME NEW p \in Proc, RunLaunch(p)
      PROVE  TypeOK'
  <2>1. com[p] \in Commander /\ "complete" \in Pcs
    BY <1>12 DEF RunLaunch, KindInv, KindAt, Pcs, WaitPcs
  <2>2. <<com[p]>> \in Seq(Commander)
    BY <2>1
  <2>3. /\ tail' \in [Commander -> Seq(Proc)]
        /\ pc' \in [Proc -> Pcs]
        /\ order' \in [Proc -> Seq(Commander)]
        /\ got' \in [Proc -> Nat]
    <3>1. AwaitLock(p, com[p], "complete") \/ AcquireAll(p, <<com[p]>>)
      BY <1>12 DEF RunLaunch
    <3>2. QED
      BY <2>1, <2>2, <3>1, AwaitType, AcquireType
  <2>4. live' \in [Commander -> BOOLEAN]
    BY <1>12 DEF RunLaunch, TreeTypes
  <2>5. QED
    BY <1>12, <2>3, <2>4 DEF RunLaunch, CoordTypes, TreeTypes, RequestTypes, write, sweep
<1>13. ASSUME NEW p \in Proc, ActivateConversation(p)
      PROVE  TypeOK'
  BY <1>13 DEF ActivateConversation, CoordTypes, TreeTypes, RequestTypes, Goto, Pcs,
     WaitPcs, LeasePcs, Outcomes, coord, write, sweep
<1>14. ASSUME NEW p \in Proc, ReturnLaunch(p)
      PROVE  TypeOK'
  <2>1. com[p] \in Commander /\ "complete" \in Pcs
    BY <1>14 DEF ReturnLaunch, KindInv, KindAt, Pcs, WaitPcs
  <2>2. AwaitLock(p, com[p], "complete")
    BY <1>14 DEF ReturnLaunch
  <2>3. QED
    BY <1>14, <2>1, <2>2, AwaitType DEF ReturnLaunch, CoordTypes, TreeTypes, RequestTypes,
       tree, write, sweep
<1>15. ASSUME NEW p \in Proc, CompleteActivity(p)
      PROVE  TypeOK'
  <2>1. com[p] \in Commander
    BY <1>15 DEF CompleteActivity, KindInv, KindAt
  <2>2. CoordTypes'
    BY <1>15, <2>1, ReleasedType DEF CompleteActivity, CoordTypes, IsHead
  <2>3. QED
    BY <1>15, <2>2, FinishType DEF CompleteActivity, TreeTypes, tree
<1>16. ASSUME NEW p \in Proc, Survey(p)
      PROVE  TypeOK'
  <2> DEFINE c == com[p]
  <2>1. c \in Commander /\ <<c>> \in Seq(Commander)
    BY <1>16 DEF Survey, KindInv, KindAt
  <2>2. UNCHANGED <<version, cleanupState, activities, tree, ops>>
    BY <1>16 DEF Survey
  <2>3. CASE Finish(p) /\ UNCHANGED tail
    BY <2>2, <2>3, FinishType DEF CoordTypes, TreeTypes, tree
  <2>4. CASE AcquireAll(p, <<c>>) /\ UNCHANGED <<kind, com, write, outcome, sweep>>
    BY <2>1, <2>2, <2>4, AcquireType DEF CoordTypes, TreeTypes, RequestTypes, tree, write,
       sweep
  <2>5. CASE /\ Capture(p)
             /\ UNCHANGED <<tail, kind, com, write, order, got, outcome, swept, attempt>>
    <3>1. seen' \in [Proc -> Nat] /\ pc' \in [Proc -> Pcs]
      BY <2>1, <2>5 DEF Capture, CoordTypes, RequestTypes, Goto, Pcs
    <3>2. QED
      BY <2>2, <2>5, <3>1 DEF CoordTypes, TreeTypes, RequestTypes, tree, write
  <2>6. QED
    BY <1>16, <2>3, <2>4, <2>5 DEF Survey
<1>17. ASSUME NEW p \in Proc, ArchiveConversation(p)
      PROVE  TypeOK'
  BY <1>17 DEF ArchiveConversation, CoordTypes, TreeTypes, RequestTypes, Goto, Pcs, WaitPcs,
     LeasePcs, Outcomes, coord, write, sweep
<1>18. ASSUME NEW p \in Proc, ReturnArchive(p)
      PROVE  TypeOK'
  <2>1. com[p] \in Commander
    BY <1>18 DEF ReturnArchive, KindInv, KindAt
  <2>2. RequestTypes'
    <3>1. CASE outcome[p] = "fail"
      BY <1>18, <3>1, FinishType DEF ReturnArchive
    <3>2. CASE outcome[p] # "fail"
      <4>1. seen' \in [Proc -> Nat] /\ pc' \in [Proc -> Pcs]
        <5>1. version[com[p]] \in Nat
          BY <2>1 DEF CoordTypes
        <5>2. /\ seen' = [seen EXCEPT ![p] = version[com[p]]]
              /\ pc' = [pc EXCEPT ![p] = "sweep"]
          BY <1>18, <3>2 DEF ReturnArchive, Capture, Goto
        <5>3. QED
          BY <5>1, <5>2 DEF RequestTypes, Pcs, WaitPcs, LeasePcs
      <4>2. QED
        BY <1>18, <3>2, <4>1 DEF ReturnArchive, RequestTypes, write
    <3>3. QED
      BY <3>1, <3>2
  <2>3. QED
    BY <1>18, <2>2 DEF ReturnArchive, CoordTypes, TreeTypes, coord, tree
<1>19. ASSUME NEW p \in Proc, Sweep(p)
      PROVE  TypeOK'
  <2> DEFINE c == com[p]
  <2>1. c \in Commander /\ "reserve" \in Pcs
    BY <1>19 DEF Sweep, KindInv, KindAt, Pcs, WaitPcs
  <2>2. UNCHANGED <<version, cleanupState, activities, tree, ops>>
    BY <1>19 DEF Sweep
  <2>3. CASE (Finish(p) \/ NextAttempt(p)) /\ UNCHANGED tail
    BY <2>2, <2>3, FinishType, NextAttemptType DEF CoordTypes, TreeTypes, tree
  <2>4. CASE /\ swept' = [swept EXCEPT ![p] = Children(c)]
             /\ AwaitLock(p, c, "reserve")
             /\ UNCHANGED <<kind, com, write, outcome, seen, attempt>>
    <3>1. swept' \in [Proc -> SUBSET Automation]
      BY <2>4 DEF Children, RequestTypes
    <3>2. QED
      BY <2>1, <2>2, <2>4, <3>1, AwaitType DEF CoordTypes, TreeTypes, RequestTypes, tree, write
  <2>5. QED
    BY <1>19, <2>3, <2>4 DEF Sweep
<1>20. ASSUME NEW p \in Proc, Reserve(p)
      PROVE  TypeOK'
  <2>1. com[p] \in Commander
    BY <1>20 DEF Reserve, KindInv, KindAt
  <2>2. CoordTypes'
    BY <1>20, <2>1, ReleasedType DEF Reserve, CoordTypes, IsHead
  <2>3. RequestTypes'
    <3>1. CASE StillAsSeen(p, com[p])
      <4>1. /\ got' = [got EXCEPT ![p] = 1]
            /\ Goto(p, "leased")
            /\ UNCHANGED <<kind, com, write, order, outcome, sweep, ops>>
        BY <1>20, <3>1 DEF Reserve
      <4>2. QED
        BY <4>1 DEF RequestTypes, Goto, Pcs, LeasePcs, write, sweep
    <3>2. CASE ~StillAsSeen(p, com[p])
      BY <1>20, <3>2, NextAttemptType DEF Reserve
    <3>3. QED
      BY <3>1, <3>2
  <2>4. QED
    BY <1>20, <2>2, <2>3 DEF Reserve, TreeTypes, tree
<1>21. ASSUME NEW p \in Proc, DeleteSession(p)
      PROVE  TypeOK'
  <2>1. outcome' \in [Proc -> Outcomes] /\ pc' \in [Proc -> Pcs]
    BY <1>21 DEF DeleteSession, RequestTypes, Goto, Pcs, WaitPcs, LeasePcs, Outcomes
  <2>2. QED
    BY <1>21, <2>1 DEF DeleteSession, CoordTypes, TreeTypes, RequestTypes, coord, write, sweep
<1>22. ASSUME NEW p \in Proc, DeletionFails(p)
      PROVE  TypeOK'
  BY <1>22 DEF DeletionFails, CoordTypes, TreeTypes, RequestTypes, Goto, Pcs, WaitPcs,
     LeasePcs, Outcomes, coord, tree, write, sweep
<1>23. ASSUME NEW p \in Proc, CloseLease(p)
      PROVE  TypeOK'
  <2>1. com[p] \in Commander /\ tail[com[p]] # <<>>
    <3>1. com[p] \in Commander /\ order[p] = <<com[p]>> /\ got[p] = 1
      BY <1>23 DEF CloseLease, KindInv, KindAt, OrderInv, OrderAt, LeasedP, LeasePcs
    <3>2. QED
      BY <3>1 DEF HeadInv, Holds, IsHead
  <2>2. CoordTypes'
    BY <1>23, <2>1, ReleasedType, BumpedType DEF CloseLease, CoordTypes
  <2>3. QED
    BY <1>23, <2>2, FinishType DEF CloseLease, TreeTypes, tree
<1>24. ASSUME NEW p \in Proc, Publish(p)
      PROVE  TypeOK'
  <2>1. com[p] \in Commander
    BY <1>24 DEF Publish, KindInv, KindAt
  <2>2. CoordTypes'
    BY <1>24, <2>1, ReleasedType DEF Publish, CoordTypes, IsHead
  <2>3. RequestTypes'
    <3>1. CASE Accepts(com[p]) /\ ~session[com[p]]
      <4>1. /\ got' = [got EXCEPT ![p] = 1]
            /\ Goto(p, "provisioning")
            /\ UNCHANGED <<kind, com, write, order, outcome, sweep, ops>>
        BY <1>24, <3>1 DEF Publish
      <4>2. QED
        BY <4>1 DEF RequestTypes, Goto, Pcs, LeasePcs, write, sweep
    <3>2. CASE ~(Accepts(com[p]) /\ ~session[com[p]])
      BY <1>24, <3>2, FinishType DEF Publish
    <3>3. QED
      BY <3>1, <3>2
  <2>4. QED
    BY <1>24, <2>2, <2>3 DEF Publish, TreeTypes, tree
<1>25. ASSUME NEW p \in Proc, CreateSession(p)
      PROVE  TypeOK'
  BY <1>25 DEF CreateSession, CoordTypes, TreeTypes, RequestTypes, coord, write, sweep
<1>26. ASSUME NEW p \in Proc, CreateConversation(p)
      PROVE  TypeOK'
  BY <1>26 DEF CreateConversation, CoordTypes, TreeTypes, RequestTypes, coord, write, sweep
<1>27. ASSUME NEW p \in Proc, EndProvision(p)
      PROVE  TypeOK'
  <2>1. /\ swept' = swept \/ swept' = [swept EXCEPT ![p] = Children(com[p])]
        /\ outcome' = outcome \/ outcome' = [outcome EXCEPT ![p] = "kept"]
        /\ Goto(p, "closing") \/ Goto(p, "rollback")
        /\ UNCHANGED <<coord, tree, kind, com, write, order, got, seen, attempt, ops>>
    BY <1>27 DEF EndProvision
  <2>2. swept' \in [Proc -> SUBSET Automation]
    <3>1. Children(com[p]) \in SUBSET Automation
      BY DEF Children
    <3>2. QED
      BY <2>1, <3>1 DEF RequestTypes
  <2>3. outcome' \in [Proc -> Outcomes]
    BY <2>1 DEF RequestTypes, Outcomes
  <2>4. pc' \in [Proc -> Pcs]
    BY <2>1 DEF RequestTypes, Goto, Pcs, LeasePcs
  <2>5. CoordTypes' /\ TreeTypes'
    BY <2>1 DEF CoordTypes, TreeTypes, coord, tree
  <2>6. QED
    BY <2>1, <2>2, <2>3, <2>4, <2>5 DEF RequestTypes, write
<1>28. ASSUME NEW p \in Proc, RollbackConversation(p)
      PROVE  TypeOK'
  BY <1>28 DEF RollbackConversation, CoordTypes, TreeTypes, RequestTypes, coord, write, sweep
<1>29. ASSUME NEW p \in Proc, NEW k \in Automation, DeleteChild(p, k)
      PROVE  TypeOK'
  BY <1>29 DEF DeleteChild, CoordTypes, TreeTypes, RequestTypes, Parent, coord, write, sweep
<1>30. ASSUME NEW p \in Proc, NEW k \in Automation, SeedAutomation(p, k)
      PROVE  TypeOK'
  <2>1. com[p] \in Commander
    BY <1>30 DEF SeedAutomation, KindInv, KindAt
  <2>2. QED
    BY <1>30, <2>1 DEF SeedAutomation, CoordTypes, TreeTypes, RequestTypes, Parent, coord,
       write, sweep
<1>31. CASE UNCHANGED vars
  BY <1>31 DEF vars, CoordTypes, TreeTypes, RequestTypes
<1>32. QED
  BY <1>1, <1>2, <1>3, <1>4, <1>5, <1>6, <1>7, <1>8, <1>9, <1>10, <1>11, <1>12, <1>13,
     <1>14, <1>15, <1>16, <1>17, <1>18, <1>19, <1>20, <1>21, <1>22, <1>23, <1>24, <1>25,
     <1>26, <1>27, <1>28, <1>29, <1>30, <1>31 DEF Next, Request, Step

-----------------------------------------------------------------------------
(***************************************************************************)
(* A step changes the locals of one request only                           *)
(***************************************************************************)

SameLocals(q) ==
  /\ pc'[q] = pc[q] /\ kind'[q] = kind[q] /\ com'[q] = com[q]
  /\ item'[q] = item[q] /\ from'[q] = from[q] /\ dest'[q] = dest[q]
  /\ order'[q] = order[q] /\ got'[q] = got[q] /\ outcome'[q] = outcome[q]
  /\ seen'[q] = seen[q] /\ swept'[q] = swept[q] /\ attempt'[q] = attempt[q]

\* A step of one request leaves the locals of every other request alone.
LEMMA Frame ==
  ASSUME RequestTypes, NEW p \in Proc, Request(p) \/ Step(p), NEW q \in Proc, q # p
  PROVE  SameLocals(q)
<1>1. ASSUME NEW k \in Automation, NEW d \in Parent, StartWrite(p, k, d) PROVE SameLocals(q)
  BY <1>1 DEF StartWrite, AcquireAll, Start, Goto, SameLocals, RequestTypes, write, sweep
<1>2. ASSUME NEW c \in Commander, StartLaunch(p, c) PROVE SameLocals(q)
  BY <1>2 DEF StartLaunch, AwaitLock, Start, Goto, SameLocals, RequestTypes, write, sweep
<1>3. ASSUME NEW c \in Commander, StartDelete(p, c) PROVE SameLocals(q)
  BY <1>3 DEF StartDelete, Start, Goto, SameLocals, RequestTypes, write, sweep
<1>4. ASSUME NEW c \in Commander, StartProvision(p, c) PROVE SameLocals(q)
  BY <1>4 DEF StartProvision, AwaitLock, Start, Goto, SameLocals, RequestTypes, write, sweep
<1>5. CASE GrantLock(p)
  BY <1>5 DEF GrantLock, Goto, SameLocals, RequestTypes, write, sweep
<1>6. CASE RefuseLock(p)
  BY <1>6 DEF RefuseLock, Goto, SameLocals, RequestTypes, write, sweep
<1>7. CASE Unwind(p)
  BY <1>7 DEF Unwind, SameLocals, RequestTypes, write, sweep
<1>8. CASE WriteAutomation(p)
  BY <1>8 DEF WriteAutomation, Goto, SameLocals, RequestTypes, write, sweep
<1>9. CASE ReturnWrite(p)
  BY <1>9 DEF ReturnWrite, Goto, Finish, SameLocals, RequestTypes, write, sweep
<1>10. CASE ObserveAgain(p)
  BY <1>10 DEF ObserveAgain, Goto, Finish, AcquireAll, SameLocals, RequestTypes, write, sweep
<1>11. CASE Admit(p)
  BY <1>11 DEF Admit, Goto, Finish, SameLocals, RequestTypes, write, sweep
<1>12. CASE RunLaunch(p)
  BY <1>12 DEF RunLaunch, Goto, AwaitLock, AcquireAll, SameLocals, RequestTypes, write, sweep
<1>13. CASE ActivateConversation(p)
  BY <1>13 DEF ActivateConversation, Goto, SameLocals, RequestTypes, write, sweep
<1>14. CASE ReturnLaunch(p)
  BY <1>14 DEF ReturnLaunch, Goto, AwaitLock, SameLocals, RequestTypes, write, sweep
<1>15. CASE CompleteActivity(p)
  BY <1>15 DEF CompleteActivity, Goto, Finish, SameLocals, RequestTypes, write, sweep
<1>16. CASE Survey(p)
  BY <1>16 DEF Survey, Goto, Finish, AcquireAll, Capture, SameLocals, RequestTypes, write,
     sweep
<1>17. CASE ArchiveConversation(p)
  BY <1>17 DEF ArchiveConversation, Goto, SameLocals, RequestTypes, write, sweep
<1>18. CASE ReturnArchive(p)
  BY <1>18 DEF ReturnArchive, Goto, Finish, Capture, SameLocals, RequestTypes, write, sweep
<1>19. CASE Sweep(p)
  BY <1>19 DEF Sweep, Goto, Finish, NextAttempt, SurveyAgain, AwaitLock, SameLocals,
     RequestTypes, write, sweep
<1>20. CASE Reserve(p)
  BY <1>20 DEF Reserve, Goto, NextAttempt, SurveyAgain, Finish, SameLocals, RequestTypes,
     write, sweep
<1>21. CASE DeleteSession(p)
  BY <1>21 DEF DeleteSession, Goto, SameLocals, RequestTypes, write, sweep
<1>22. CASE DeletionFails(p)
  BY <1>22 DEF DeletionFails, Goto, SameLocals, RequestTypes, write, sweep
<1>23. CASE CloseLease(p)
  BY <1>23 DEF CloseLease, Goto, Finish, SameLocals, RequestTypes, write, sweep
<1>24. CASE Publish(p)
  BY <1>24 DEF Publish, Goto, Finish, SameLocals, RequestTypes, write, sweep
<1>25. CASE CreateSession(p)
  BY <1>25 DEF CreateSession, SameLocals, RequestTypes, write, sweep
<1>26. CASE CreateConversation(p)
  BY <1>26 DEF CreateConversation, SameLocals, RequestTypes, write, sweep
<1>27. CASE EndProvision(p)
  BY <1>27 DEF EndProvision, Goto, SameLocals, RequestTypes, write, sweep
<1>28. CASE RollbackConversation(p)
  BY <1>28 DEF RollbackConversation, SameLocals, RequestTypes, write, sweep
<1>29. ASSUME NEW k \in Automation, DeleteChild(p, k) PROVE SameLocals(q)
  BY <1>29 DEF DeleteChild, SameLocals, RequestTypes, write, sweep
<1>30. ASSUME NEW k \in Automation, SeedAutomation(p, k) PROVE SameLocals(q)
  BY <1>30 DEF SeedAutomation, SameLocals, RequestTypes, write, sweep
<1>31. QED
  BY <1>1, <1>2, <1>3, <1>4, <1>5, <1>6, <1>7, <1>8, <1>9, <1>10, <1>11, <1>12, <1>13,
     <1>14, <1>15, <1>16, <1>17, <1>18, <1>19, <1>20, <1>21, <1>22, <1>23, <1>24, <1>25,
     <1>26, <1>27, <1>28, <1>29, <1>30 DEF Request, Step

\* The request that steps stays where its kind may be.
LEMMA OwnKind ==
  ASSUME RequestTypes, KindInv, NEW p \in Proc, Request(p) \/ Step(p)
  PROVE  KindAt(p)'
<1>1. ASSUME NEW k \in Automation, NEW d \in Parent, StartWrite(p, k, d) PROVE KindAt(p)'
  BY <1>1 DEF StartWrite, AcquireAll, Start, Goto, KindInv, KindAt, LockingP, LeasePcs,
     Writes, RequestTypes, write, sweep
<1>2. ASSUME NEW c \in Commander, StartLaunch(p, c) PROVE KindAt(p)'
  BY <1>2 DEF StartLaunch, AwaitLock, Start, Goto, KindInv, KindAt, LockingP, LeasePcs,
     Writes, RequestTypes, write, sweep
<1>3. ASSUME NEW c \in Commander, StartDelete(p, c) PROVE KindAt(p)'
  BY <1>3 DEF StartDelete, Start, Goto, KindInv, KindAt, LockingP, LeasePcs, Writes,
     RequestTypes, write, sweep
<1>4. ASSUME NEW c \in Commander, StartProvision(p, c) PROVE KindAt(p)'
  BY <1>4 DEF StartProvision, AwaitLock, Start, Goto, KindInv, KindAt, LockingP, LeasePcs,
     Writes, RequestTypes, write, sweep
<1>5. CASE GrantLock(p)
  BY <1>5 DEF GrantLock, Goto, KindInv, KindAt, LockingP, LeasePcs, Writes, RequestTypes,
     write, sweep
<1>6. CASE RefuseLock(p)
  BY <1>6 DEF RefuseLock, Goto, KindInv, KindAt, LockingP, LeasePcs, Writes, RequestTypes,
     write, sweep
<1>7. CASE Unwind(p)
  BY <1>7 DEF Unwind, KindInv, KindAt, LockingP, LeasePcs, Writes, RequestTypes, write, sweep
<1>8. CASE WriteAutomation(p)
  BY <1>8 DEF WriteAutomation, Goto, KindInv, KindAt, LockingP, LeasePcs, Writes,
     RequestTypes, write, sweep
<1>9. CASE ReturnWrite(p)
  BY <1>9 DEF ReturnWrite, Goto, Finish, KindInv, KindAt, LockingP, LeasePcs, Writes,
     RequestTypes, write, sweep
<1>10. CASE ObserveAgain(p)
  BY <1>10 DEF ObserveAgain, Goto, Finish, AcquireAll, KindInv, KindAt, LockingP, LeasePcs,
     Writes, RequestTypes, write, sweep
<1>11. CASE Admit(p)
  BY <1>11 DEF Admit, Goto, Finish, KindInv, KindAt, LockingP, LeasePcs, Writes,
     RequestTypes, write, sweep
<1>12. CASE RunLaunch(p)
  BY <1>12 DEF RunLaunch, Goto, AwaitLock, AcquireAll, KindInv, KindAt, LockingP, LeasePcs,
     Writes, RequestTypes, write, sweep
<1>13. CASE ActivateConversation(p)
  BY <1>13 DEF ActivateConversation, Goto, KindInv, KindAt, LockingP, LeasePcs, Writes,
     RequestTypes, write, sweep
<1>14. CASE ReturnLaunch(p)
  BY <1>14 DEF ReturnLaunch, Goto, AwaitLock, KindInv, KindAt, LockingP, LeasePcs, Writes,
     RequestTypes, write, sweep
<1>15. CASE CompleteActivity(p)
  BY <1>15 DEF CompleteActivity, Goto, Finish, KindInv, KindAt, LockingP, LeasePcs, Writes,
     RequestTypes, write, sweep
<1>16. CASE Survey(p)
  BY <1>16 DEF Survey, Goto, Finish, AcquireAll, Capture, KindInv, KindAt, LockingP,
     LeasePcs, Writes, RequestTypes, write, sweep
<1>17. CASE ArchiveConversation(p)
  BY <1>17 DEF ArchiveConversation, Goto, KindInv, KindAt, LockingP, LeasePcs, Writes,
     RequestTypes, write, sweep
<1>18. CASE ReturnArchive(p)
  BY <1>18 DEF ReturnArchive, Goto, Finish, Capture, KindInv, KindAt, LockingP, LeasePcs,
     Writes, RequestTypes, write, sweep
<1>19. CASE Sweep(p)
  BY <1>19 DEF Sweep, Goto, Finish, NextAttempt, SurveyAgain, AwaitLock, KindInv, KindAt,
     LockingP, LeasePcs, Writes, RequestTypes, write, sweep
<1>20. CASE Reserve(p)
  BY <1>20 DEF Reserve, Goto, NextAttempt, SurveyAgain, Finish, KindInv, KindAt, LockingP,
     LeasePcs, Writes, RequestTypes, write, sweep
<1>21. CASE DeleteSession(p)
  BY <1>21 DEF DeleteSession, Goto, KindInv, KindAt, LockingP, LeasePcs, Writes,
     RequestTypes, write, sweep
<1>22. CASE DeletionFails(p)
  BY <1>22 DEF DeletionFails, Goto, KindInv, KindAt, LockingP, LeasePcs, Writes,
     RequestTypes, write, sweep
<1>23. CASE CloseLease(p)
  BY <1>23 DEF CloseLease, Goto, Finish, KindInv, KindAt, LockingP, LeasePcs, Writes,
     RequestTypes, write, sweep
<1>24. CASE Publish(p)
  BY <1>24 DEF Publish, Goto, Finish, KindInv, KindAt, LockingP, LeasePcs, Writes,
     RequestTypes, write, sweep
<1>25. CASE CreateSession(p)
  BY <1>25 DEF CreateSession, KindInv, KindAt, LockingP, LeasePcs, Writes, RequestTypes,
     write, sweep
<1>26. CASE CreateConversation(p)
  BY <1>26 DEF CreateConversation, KindInv, KindAt, LockingP, LeasePcs, Writes,
     RequestTypes, write, sweep
<1>27. CASE EndProvision(p)
  BY <1>27 DEF EndProvision, Goto, KindInv, KindAt, LockingP, LeasePcs, Writes,
     RequestTypes, write, sweep
<1>28. CASE RollbackConversation(p)
  BY <1>28 DEF RollbackConversation, KindInv, KindAt, LockingP, LeasePcs, Writes,
     RequestTypes, write, sweep
<1>29. ASSUME NEW k \in Automation, DeleteChild(p, k) PROVE KindAt(p)'
  BY <1>29 DEF DeleteChild, KindInv, KindAt, LockingP, LeasePcs, Writes, RequestTypes,
     write, sweep
<1>30. ASSUME NEW k \in Automation, SeedAutomation(p, k) PROVE KindAt(p)'
  BY <1>30 DEF SeedAutomation, KindInv, KindAt, LockingP, LeasePcs, Writes, RequestTypes,
     write, sweep
<1>31. QED
  BY <1>1, <1>2, <1>3, <1>4, <1>5, <1>6, <1>7, <1>8, <1>9, <1>10, <1>11, <1>12, <1>13,
     <1>14, <1>15, <1>16, <1>17, <1>18, <1>19, <1>20, <1>21, <1>22, <1>23, <1>24, <1>25,
     <1>26, <1>27, <1>28, <1>29, <1>30 DEF Request, Step

\* Every step keeps the kinds: a request is only where its kind of request goes.
LEMMA KindStep == RequestTypes /\ KindInv /\ [Next]_vars => KindInv'
<1>1. ASSUME RequestTypes, KindInv, NEW p \in Proc, Request(p) \/ Step(p), NEW q \in Proc
      PROVE  KindAt(q)'
  <2>1. CASE q = p
    BY <1>1, <2>1, OwnKind
  <2>2. CASE q # p
    BY <1>1, <2>2, Frame DEF SameLocals, KindInv, KindAt, LockingP
  <2>3. QED
    BY <2>1, <2>2
<1>2. ASSUME KindInv, UNCHANGED vars PROVE KindInv'
  BY <1>2 DEF KindInv, KindAt, LockingP, vars
<1>3. QED
  BY <1>1, <1>2 DEF KindInv, Next

\* The locks of a request that ends, queues for one lock, or starts to acquire.
LEMMA FinishOrder ==
  ASSUME RequestTypes, NEW p \in Proc, Finish(p)
  PROVE  OrderAt(p)'
  BY DEF Finish, Goto, RequestTypes, OrderAt, LockingP, LooseP, QueuedP, LeasedP, LeasePcs

\* A request that queues for one lock holds none and names that lock.
LEMMA AwaitOrder ==
  ASSUME RequestTypes, NEW p \in Proc, NEW c \in Commander,
         NEW label \in {"admit", "complete", "reserve", "publish"},
         AwaitLock(p, c, label), com'[p] = c
  PROVE  OrderAt(p)'
  BY DEF AwaitLock, Goto, RequestTypes, OrderAt, LockingP, LooseP, QueuedP, LeasedP, LeasePcs

\* A write that queues names its locks once each, in key order.
LEMMA AcquireOrder ==
  ASSUME RequestTypes, NEW p \in Proc, NEW locks \in Seq(Commander),
         AcquireAll(p, locks),
         \A i, j \in 1..Len(locks) : locks[i] = locks[j] => i = j,
         kind'[p] \in Writes => locks = LockOrder(from'[p], dest'[p]),
         kind'[p] \notin Writes => locks = <<com'[p]>>
  PROVE  OrderAt(p)'
<1>1. order'[p] = locks /\ got'[p] = 0
  BY DEF AcquireAll, RequestTypes
<1>2. pc'[p] = IF locks = <<>> THEN "write" ELSE "waiting"
  BY DEF AcquireAll, RequestTypes, Goto
<1>3. locks # <<>> => Len(locks) > 0
  OBVIOUS
<1>4. QED
  BY <1>1, <1>2, <1>3 DEF OrderAt, LockingP, LooseP, QueuedP, LeasedP, LeasePcs

\* A write below one commander names that commander alone.
LEMMA AcquireOneOrder ==
  ASSUME RequestTypes, NEW p \in Proc, NEW c \in Commander,
         AcquireAll(p, <<c>>), com'[p] = c, kind'[p] \notin Writes
  PROVE  OrderAt(p)'
<1>1. order'[p] = <<c>> /\ got'[p] = 0 /\ pc'[p] = "waiting"
  BY DEF AcquireAll, RequestTypes, Goto
<1>2. QED
  BY <1>1 DEF OrderAt, LockingP, LooseP, QueuedP, LeasedP, LeasePcs

\* A request that turns its place in the queue into a lease holds that one lock.
LEMMA LeaseOrder ==
  ASSUME RequestTypes, NEW p \in Proc, OrderAt(p), QueuedP(p), NEW label \in LeasePcs,
         Goto(p, label), got' = [got EXCEPT ![p] = 1], UNCHANGED <<com, order>>
  PROVE  OrderAt(p)'
<1>1. order'[p] = <<com'[p]>> /\ got'[p] = 1 /\ pc'[p] = label
  BY DEF OrderAt, RequestTypes, Goto
<1>2. QED
  BY <1>1 DEF OrderAt, LockingP, LooseP, QueuedP, LeasedP, LeasePcs

\* The request that steps holds the locks its place says.
LEMMA OwnOrder ==
  ASSUME TypeOK, KindInv, OrderInv, NEW p \in Proc, Request(p) \/ Step(p)
  PROVE  OrderAt(p)'
<1> USE DEF TypeOK
<1>1. ASSUME NEW k \in Automation, NEW d \in Parent, StartWrite(p, k, d) PROVE OrderAt(p)'
  <2>1. AcquireAll(p, LockOrder(owner[k], d)) /\ owner[k] \in Parent
    BY <1>1 DEF StartWrite, TreeTypes
  <2>2. from'[p] = owner[k] /\ dest'[p] = d
    BY <1>1 DEF StartWrite, RequestTypes
  <2>3. \E w \in Writes : Start(p, w)
    BY <1>1 DEF StartWrite, Writes
  <2>4. kind'[p] \in Writes
    BY <2>3 DEF Start, RequestTypes
  <2>5. QED
    BY <2>1, <2>2, <2>4, LockOrderFacts, AcquireOrder
<1>2. ASSUME NEW c \in Commander, StartLaunch(p, c) PROVE OrderAt(p)'
  BY <1>2 DEF StartLaunch, AwaitLock, Start, Goto, KindInv, KindAt, OrderInv, OrderAt,
     LockingP, LooseP, QueuedP, LeasedP, LeasePcs, Writes, RequestTypes, write, sweep
<1>3. ASSUME NEW c \in Commander, StartDelete(p, c) PROVE OrderAt(p)'
  BY <1>3 DEF StartDelete, Start, Goto, KindInv, KindAt, OrderInv, OrderAt, LockingP,
     LooseP, QueuedP, LeasedP, LeasePcs, Writes, RequestTypes, write, sweep
<1>4. ASSUME NEW c \in Commander, StartProvision(p, c) PROVE OrderAt(p)'
  BY <1>4 DEF StartProvision, AwaitLock, Start, Goto, KindInv, KindAt, OrderInv, OrderAt,
     LockingP, LooseP, QueuedP, LeasedP, LeasePcs, Writes, RequestTypes, write, sweep
<1>5. CASE GrantLock(p)
  BY <1>5 DEF GrantLock, Goto, KindInv, KindAt, OrderInv, OrderAt, LockingP, LooseP,
     QueuedP, LeasedP, LeasePcs, Writes, RequestTypes, write, sweep
<1>6. CASE RefuseLock(p)
  BY <1>6 DEF RefuseLock, Goto, KindInv, KindAt, OrderInv, OrderAt, LockingP, LooseP,
     QueuedP, LeasedP, LeasePcs, Writes, RequestTypes, write, sweep
<1>7. CASE Unwind(p)
  BY <1>7 DEF Unwind, KindInv, KindAt, OrderInv, OrderAt, LockingP, LooseP, QueuedP,
     LeasedP, LeasePcs, Writes, RequestTypes, write, sweep
<1>8. CASE WriteAutomation(p)
  BY <1>8 DEF WriteAutomation, Goto, KindInv, KindAt, OrderInv, OrderAt, LockingP, LooseP,
     QueuedP, LeasedP, LeasePcs, Writes, RequestTypes, write, sweep
<1>9. CASE ReturnWrite(p)
  BY <1>9 DEF ReturnWrite, Goto, Finish, KindInv, KindAt, OrderInv, OrderAt, LockingP,
     LooseP, QueuedP, LeasedP, LeasePcs, Writes, RequestTypes, write, sweep
<1>10. CASE ObserveAgain(p)
  <2>1. CASE Finish(p)
    BY <2>1, FinishOrder
  <2>2. CASE ~Finish(p)
    <3> DEFINE k == item[p]
               d == IF kind[p] = "touch" THEN owner[k] ELSE dest[p]
    <3>1. k \in Automation /\ owner[k] \in Parent /\ d \in Parent
      BY <1>10 DEF ObserveAgain, KindInv, KindAt, TreeTypes, RequestTypes
    <3>2. /\ AcquireAll(p, LockOrder(owner[k], d))
          /\ kind' = kind
          /\ from' = [from EXCEPT ![p] = owner[k]]
          /\ dest' = [dest EXCEPT ![p] = d]
      BY <1>10, <2>2 DEF ObserveAgain
    <3>3. from'[p] = owner[k] /\ dest'[p] = d /\ kind'[p] \in Writes
      BY <1>10, <3>2 DEF ObserveAgain, KindInv, KindAt, RequestTypes
    <3>4. QED
      BY <3>1, <3>2, <3>3, LockOrderFacts, AcquireOrder
  <2>3. QED
    BY <2>1, <2>2
<1>11. CASE Admit(p)
  BY <1>11 DEF Admit, Goto, Finish, KindInv, KindAt, OrderInv, OrderAt, LockingP, LooseP,
     QueuedP, LeasedP, LeasePcs, Writes, RequestTypes, write, sweep
<1>12. CASE RunLaunch(p)
  <2>1. com'[p] = com[p] /\ com[p] \in Commander /\ kind'[p] \notin Writes
    BY <1>12 DEF RunLaunch, KindInv, KindAt, Writes
  <2>2. CASE AwaitLock(p, com[p], "complete")
    BY <2>1, <2>2, AwaitOrder
  <2>3. CASE AcquireAll(p, <<com[p]>>)
    BY <2>1, <2>3, AcquireOneOrder
  <2>4. QED
    BY <1>12, <2>2, <2>3 DEF RunLaunch
<1>13. CASE ActivateConversation(p)
  BY <1>13 DEF ActivateConversation, Goto, KindInv, KindAt, OrderInv, OrderAt, LockingP,
     LooseP, QueuedP, LeasedP, LeasePcs, Writes, RequestTypes, write, sweep
<1>14. CASE ReturnLaunch(p)
  BY <1>14 DEF ReturnLaunch, Goto, AwaitLock, KindInv, KindAt, OrderInv, OrderAt, LockingP,
     LooseP, QueuedP, LeasedP, LeasePcs, Writes, RequestTypes, write, sweep
<1>15. CASE CompleteActivity(p)
  BY <1>15 DEF CompleteActivity, Goto, Finish, KindInv, KindAt, OrderInv, OrderAt, LockingP,
     LooseP, QueuedP, LeasedP, LeasePcs, Writes, RequestTypes, write, sweep
<1>16. CASE Survey(p)
  <2>1. CASE Finish(p)
    BY <2>1, FinishOrder
  <2>2. CASE AcquireAll(p, <<com[p]>>) /\ UNCHANGED <<kind, com>>
    <3>1. com[p] \in Commander /\ kind[p] \notin Writes
      BY <1>16 DEF Survey, KindInv, KindAt, Writes
    <3>2. QED
      <4>1. com'[p] = com[p] /\ kind'[p] = kind[p]
        BY <2>2
      <4>2. QED
        BY <2>2, <3>1, <4>1, AcquireOneOrder
  <2>3. CASE Capture(p) /\ UNCHANGED <<order, got>>
    BY <1>16, <2>3 DEF Survey, Capture, Goto, OrderInv, OrderAt, LockingP, LooseP, QueuedP,
       LeasedP, LeasePcs, RequestTypes
  <2>4. QED
    BY <1>16, <2>1, <2>2, <2>3 DEF Survey
<1>17. CASE ArchiveConversation(p)
  BY <1>17 DEF ArchiveConversation, Goto, KindInv, KindAt, OrderInv, OrderAt, LockingP,
     LooseP, QueuedP, LeasedP, LeasePcs, Writes, RequestTypes, write, sweep
<1>18. CASE ReturnArchive(p)
  BY <1>18 DEF ReturnArchive, Goto, Finish, Capture, KindInv, KindAt, OrderInv, OrderAt,
     LockingP, LooseP, QueuedP, LeasedP, LeasePcs, Writes, RequestTypes, write, sweep
<1>19. CASE Sweep(p)
  BY <1>19 DEF Sweep, Goto, Finish, NextAttempt, SurveyAgain, AwaitLock, KindInv, KindAt,
     OrderInv, OrderAt, LockingP, LooseP, QueuedP, LeasedP, LeasePcs, Writes, RequestTypes,
     write, sweep
<1>20. CASE Reserve(p)
  <2>1. CASE Finish(p)
    BY <2>1, FinishOrder
  <2>2. CASE Goto(p, "leased") /\ got' = [got EXCEPT ![p] = 1] /\ UNCHANGED <<com, order>>
    BY <1>20, <2>2, LeaseOrder DEF Reserve, OrderInv, QueuedP, LeasePcs
  <2>3. CASE SurveyAgain(p)
    BY <1>20, <2>3 DEF Reserve, SurveyAgain, Goto, OrderInv, OrderAt, LockingP, LooseP,
       QueuedP,
       LeasedP, LeasePcs, RequestTypes
  <2>4. QED
    BY <1>20, <2>1, <2>2, <2>3 DEF Reserve, NextAttempt
<1>21. CASE DeleteSession(p)
  BY <1>21 DEF DeleteSession, Goto, KindInv, KindAt, OrderInv, OrderAt, LockingP, LooseP,
     QueuedP, LeasedP, LeasePcs, Writes, RequestTypes, write, sweep
<1>22. CASE DeletionFails(p)
  BY <1>22 DEF DeletionFails, Goto, KindInv, KindAt, OrderInv, OrderAt, LockingP, LooseP,
     QueuedP, LeasedP, LeasePcs, Writes, RequestTypes, write, sweep
<1>23. CASE CloseLease(p)
  BY <1>23 DEF CloseLease, Goto, Finish, KindInv, KindAt, OrderInv, OrderAt, LockingP,
     LooseP, QueuedP, LeasedP, LeasePcs, Writes, RequestTypes, write, sweep
<1>24. CASE Publish(p)
  <2>1. CASE Finish(p)
    BY <2>1, FinishOrder
  <2>2. CASE Goto(p, "provisioning") /\ got' = [got EXCEPT ![p] = 1] /\ UNCHANGED <<com, order>>
    BY <1>24, <2>2, LeaseOrder DEF Publish, OrderInv, QueuedP, LeasePcs
  <2>3. QED
    BY <1>24, <2>1, <2>2 DEF Publish
<1>25. CASE CreateSession(p)
  BY <1>25 DEF CreateSession, KindInv, KindAt, OrderInv, OrderAt, LockingP, LooseP, QueuedP,
     LeasedP, LeasePcs, Writes, RequestTypes, write, sweep
<1>26. CASE CreateConversation(p)
  BY <1>26 DEF CreateConversation, KindInv, KindAt, OrderInv, OrderAt, LockingP, LooseP,
     QueuedP, LeasedP, LeasePcs, Writes, RequestTypes, write, sweep
<1>27. CASE EndProvision(p)
  BY <1>27 DEF EndProvision, Goto, KindInv, KindAt, OrderInv, OrderAt, LockingP, LooseP,
     QueuedP, LeasedP, LeasePcs, Writes, RequestTypes, write, sweep
<1>28. CASE RollbackConversation(p)
  BY <1>28 DEF RollbackConversation, KindInv, KindAt, OrderInv, OrderAt, LockingP, LooseP,
     QueuedP, LeasedP, LeasePcs, Writes, RequestTypes, write, sweep
<1>29. ASSUME NEW k \in Automation, DeleteChild(p, k) PROVE OrderAt(p)'
  BY <1>29 DEF DeleteChild, KindInv, KindAt, OrderInv, OrderAt, LockingP, LooseP, QueuedP,
     LeasedP, LeasePcs, Writes, RequestTypes, write, sweep
<1>30. ASSUME NEW k \in Automation, SeedAutomation(p, k) PROVE OrderAt(p)'
  BY <1>30 DEF SeedAutomation, KindInv, KindAt, OrderInv, OrderAt, LockingP, LooseP,
     QueuedP, LeasedP, LeasePcs, Writes, RequestTypes, write, sweep
<1>31. QED
  BY <1>1, <1>2, <1>3, <1>4, <1>5, <1>6, <1>7, <1>8, <1>9, <1>10, <1>11, <1>12, <1>13,
     <1>14, <1>15, <1>16, <1>17, <1>18, <1>19, <1>20, <1>21, <1>22, <1>23, <1>24, <1>25,
     <1>26, <1>27, <1>28, <1>29, <1>30 DEF Request, Step

\* Every step keeps how many of its locks a request holds and which they are.
LEMMA OrderStep == TypeOK /\ KindInv /\ OrderInv /\ [Next]_vars => OrderInv'
<1>1. ASSUME TypeOK, KindInv, OrderInv, NEW p \in Proc, Request(p) \/ Step(p), NEW q \in Proc
      PROVE  OrderAt(q)'
  <2>1. CASE q = p
    BY <1>1, <2>1, OwnOrder
  <2>2. CASE q # p
    BY <1>1, <2>2, Frame
       DEF TypeOK, SameLocals, OrderInv, OrderAt, LockingP, LooseP, QueuedP, LeasedP
  <2>3. QED
    BY <2>1, <2>2
<1>2. ASSUME OrderInv, UNCHANGED vars PROVE OrderInv'
  BY <1>2 DEF OrderInv, OrderAt, LockingP, LooseP, QueuedP, LeasedP, vars
<1>3. QED
  BY <1>1, <1>2 DEF OrderInv, Next

-----------------------------------------------------------------------------
(***************************************************************************)
(* Exclusion: a lock has one holder, the head of its queue                 *)
(***************************************************************************)

\* A request comes to hold a lock only as the head of its queue.
HoldsAsHead(p) == \A c \in Commander : Holds(p, c)' => Holds(p, c) \/ IsHead(p, c)

\* A request gains a lock only by being granted it at the head of the queue.
LEMMA HoldStep ==
  ASSUME TypeOK, OrderInv, NEW p \in Proc, Request(p) \/ Step(p)
  PROVE  HoldsAsHead(p)
<1>1. ASSUME NEW k \in Automation, NEW d \in Parent, StartWrite(p, k, d) PROVE HoldsAsHead(p)
  BY <1>1 DEF TypeOK, HoldsAsHead, StartWrite, AcquireAll, Start, Goto, Holds, IsHead,
     OrderInv, OrderAt, QueuedP, LeasedP, LeasePcs, RequestTypes
<1>2. ASSUME NEW c \in Commander, StartLaunch(p, c) PROVE HoldsAsHead(p)
  BY <1>2 DEF TypeOK, HoldsAsHead, StartLaunch, AwaitLock, Start, Goto, Holds, IsHead,
     OrderInv, OrderAt, QueuedP, LeasedP, LeasePcs, RequestTypes
<1>3. ASSUME NEW c \in Commander, StartDelete(p, c) PROVE HoldsAsHead(p)
  BY <1>3 DEF TypeOK, HoldsAsHead, StartDelete, Start, Goto, Holds, IsHead, OrderInv,
     OrderAt, QueuedP, LeasedP, LeasePcs, RequestTypes
<1>4. ASSUME NEW c \in Commander, StartProvision(p, c) PROVE HoldsAsHead(p)
  BY <1>4 DEF TypeOK, HoldsAsHead, StartProvision, AwaitLock, Start, Goto, Holds, IsHead,
     OrderInv, OrderAt, QueuedP, LeasedP, LeasePcs, RequestTypes
<1>5. CASE GrantLock(p)
  BY <1>5 DEF TypeOK, HoldsAsHead, GrantLock, Goto, Holds, IsHead, OrderInv, OrderAt,
     QueuedP, LeasedP, LeasePcs, RequestTypes
<1>6. CASE RefuseLock(p)
  BY <1>6 DEF TypeOK, HoldsAsHead, RefuseLock, Goto, Holds, IsHead, OrderInv, OrderAt,
     QueuedP, LeasedP, LeasePcs, RequestTypes
<1>7. CASE Unwind(p)
  BY <1>7 DEF TypeOK, HoldsAsHead, Unwind, Holds, IsHead, OrderInv, OrderAt, QueuedP,
     LeasedP, LeasePcs, RequestTypes
<1>8. CASE WriteAutomation(p)
  BY <1>8 DEF TypeOK, HoldsAsHead, WriteAutomation, Goto, Holds, IsHead, OrderInv, OrderAt,
     QueuedP, LeasedP, LeasePcs, RequestTypes
<1>9. CASE ReturnWrite(p)
  BY <1>9 DEF TypeOK, HoldsAsHead, ReturnWrite, Goto, Finish, Holds, IsHead, OrderInv,
     OrderAt, QueuedP, LeasedP, LeasePcs, RequestTypes
<1>10. CASE ObserveAgain(p)
  BY <1>10 DEF TypeOK, HoldsAsHead, ObserveAgain, Goto, Finish, AcquireAll, Holds, IsHead,
     OrderInv, OrderAt, QueuedP, LeasedP, LeasePcs, RequestTypes
<1>11. CASE Admit(p)
  BY <1>11 DEF TypeOK, HoldsAsHead, Admit, Goto, Finish, Holds, IsHead, OrderInv, OrderAt,
     QueuedP, LeasedP, LeasePcs, RequestTypes
<1>12. CASE RunLaunch(p)
  BY <1>12 DEF TypeOK, HoldsAsHead, RunLaunch, Goto, AwaitLock, AcquireAll, Holds, IsHead,
     OrderInv, OrderAt, QueuedP, LeasedP, LeasePcs, RequestTypes
<1>13. CASE ActivateConversation(p)
  BY <1>13 DEF TypeOK, HoldsAsHead, ActivateConversation, Goto, Holds, IsHead, OrderInv,
     OrderAt, QueuedP, LeasedP, LeasePcs, RequestTypes
<1>14. CASE ReturnLaunch(p)
  BY <1>14 DEF TypeOK, HoldsAsHead, ReturnLaunch, Goto, AwaitLock, Holds, IsHead, OrderInv,
     OrderAt, QueuedP, LeasedP, LeasePcs, RequestTypes
<1>15. CASE CompleteActivity(p)
  BY <1>15 DEF TypeOK, HoldsAsHead, CompleteActivity, Goto, Finish, Holds, IsHead, OrderInv,
     OrderAt, QueuedP, LeasedP, LeasePcs, RequestTypes
<1>16. CASE Survey(p)
  BY <1>16 DEF TypeOK, HoldsAsHead, Survey, Goto, Finish, AcquireAll, Capture, Holds,
     IsHead, OrderInv, OrderAt, QueuedP, LeasedP, LeasePcs, RequestTypes
<1>17. CASE ArchiveConversation(p)
  BY <1>17 DEF TypeOK, HoldsAsHead, ArchiveConversation, Goto, Holds, IsHead, OrderInv,
     OrderAt, QueuedP, LeasedP, LeasePcs, RequestTypes
<1>18. CASE ReturnArchive(p)
  BY <1>18 DEF TypeOK, HoldsAsHead, ReturnArchive, Goto, Finish, Capture, Holds, IsHead,
     OrderInv, OrderAt, QueuedP, LeasedP, LeasePcs, RequestTypes
<1>19. CASE Sweep(p)
  <2>1. got'[p] = 0
    BY <1>19 DEF Sweep, Finish, NextAttempt, SurveyAgain, AwaitLock, TypeOK, RequestTypes,
       OrderInv, OrderAt, LooseP
  <2>2. QED
    BY <2>1 DEF HoldsAsHead, Holds
<1>20. CASE Reserve(p)
  BY <1>20 DEF TypeOK, HoldsAsHead, Reserve, Goto, NextAttempt, SurveyAgain, Finish, Holds,
     IsHead, OrderInv, OrderAt, QueuedP, LeasedP, LeasePcs, RequestTypes
<1>21. CASE DeleteSession(p)
  BY <1>21 DEF TypeOK, HoldsAsHead, DeleteSession, Goto, Holds, IsHead, OrderInv, OrderAt,
     QueuedP, LeasedP, LeasePcs, RequestTypes
<1>22. CASE DeletionFails(p)
  BY <1>22 DEF TypeOK, HoldsAsHead, DeletionFails, Goto, Holds, IsHead, OrderInv, OrderAt,
     QueuedP, LeasedP, LeasePcs, RequestTypes
<1>23. CASE CloseLease(p)
  BY <1>23 DEF TypeOK, HoldsAsHead, CloseLease, Goto, Finish, Holds, IsHead, OrderInv,
     OrderAt, QueuedP, LeasedP, LeasePcs, RequestTypes
<1>24. CASE Publish(p)
  BY <1>24 DEF TypeOK, HoldsAsHead, Publish, Goto, Finish, Holds, IsHead, OrderInv, OrderAt,
     QueuedP, LeasedP, LeasePcs, RequestTypes
<1>25. CASE CreateSession(p)
  BY <1>25 DEF TypeOK, HoldsAsHead, CreateSession, Holds, IsHead, OrderInv, OrderAt,
     QueuedP, LeasedP, LeasePcs, RequestTypes
<1>26. CASE CreateConversation(p)
  BY <1>26 DEF TypeOK, HoldsAsHead, CreateConversation, Holds, IsHead, OrderInv, OrderAt,
     QueuedP, LeasedP, LeasePcs, RequestTypes
<1>27. CASE EndProvision(p)
  BY <1>27 DEF TypeOK, HoldsAsHead, EndProvision, Goto, Holds, IsHead, OrderInv, OrderAt,
     QueuedP, LeasedP, LeasePcs, RequestTypes
<1>28. CASE RollbackConversation(p)
  BY <1>28 DEF TypeOK, HoldsAsHead, RollbackConversation, Holds, IsHead, OrderInv, OrderAt,
     QueuedP, LeasedP, LeasePcs, RequestTypes
<1>29. ASSUME NEW k \in Automation, DeleteChild(p, k) PROVE HoldsAsHead(p)
  BY <1>29 DEF TypeOK, HoldsAsHead, DeleteChild, Holds, IsHead, OrderInv, OrderAt, QueuedP,
     LeasedP, LeasePcs, RequestTypes
<1>30. ASSUME NEW k \in Automation, SeedAutomation(p, k) PROVE HoldsAsHead(p)
  BY <1>30 DEF TypeOK, HoldsAsHead, SeedAutomation, Holds, IsHead, OrderInv, OrderAt,
     QueuedP, LeasedP, LeasePcs, RequestTypes
<1>31. QED
  BY <1>1, <1>2, <1>3, <1>4, <1>5, <1>6, <1>7, <1>8, <1>9, <1>10, <1>11, <1>12, <1>13,
     <1>14, <1>15, <1>16, <1>17, <1>18, <1>19, <1>20, <1>21, <1>22, <1>23, <1>24, <1>25,
     <1>26, <1>27, <1>28, <1>29, <1>30 DEF Request, Step

\* What a step of p does to the queues: nothing, p joins the end of one, or p
\* leaves the head of one and is in that line no longer.
LineKept(p) == UNCHANGED tail /\ \A c \in Commander : InLine(p, c)' <=> InLine(p, c)

Joins(p, c) ==
  /\ tail' = Enqueued(p, c) /\ ~InLine(p, c) /\ InLine(p, c)'
  /\ \A d \in Commander : d # c => (InLine(p, d)' <=> InLine(p, d))

Leaves(p, c) ==
  /\ IsHead(p, c) /\ tail' = Released(c) /\ ~InLine(p, c)'
  /\ \A d \in Commander : d # c => (InLine(p, d)' <=> InLine(p, d))

TailMoves(p) == LineKept(p) \/ \E c \in Commander : Joins(p, c) \/ Leaves(p, c)

\* A request that neither waits nor holds a lock is in no line.
NoLine(p)      == \A c \in Commander : ~InLine(p, c)
OnlyLine(p, c) == \A d \in Commander : InLine(p, d) <=> d = c

\* A request that has just begun, returned, or observes is in no line.
LEMMA LooseLine ==
  ASSUME TypeOK, OrderInv, NEW p \in Proc, LooseP(p) \/ (pc[p] = "unwind" /\ got[p] = 0)
  PROVE  NoLine(p)
  BY DEF NoLine, InLine, Waits, WaitPcs, Holds, OrderInv, OrderAt, LooseP

\* A request that queues for the lock of its commander, or leases it, is in that line.
LEMMA OwnLine ==
  ASSUME TypeOK, OrderInv, NEW p \in Proc, QueuedP(p) \/ LeasedP(p)
  PROVE  OnlyLine(p, com[p])
<1>1. CASE QueuedP(p)
  BY <1>1 DEF OnlyLine, InLine, Waits, WaitPcs, Holds, OrderInv, OrderAt, QueuedP
<1>2. CASE LeasedP(p)
  <2>1. order[p] = <<com[p]>> /\ got[p] = 1 /\ pc[p] \notin WaitPcs
    BY <1>2 DEF OrderInv, OrderAt, LeasedP, LeasePcs, WaitPcs
  <2>2. QED
    BY <2>1 DEF OnlyLine, InLine, Waits, Holds
<1>3. QED
  BY <1>1, <1>2

\* A request that ends is in no line afterwards.
LEMMA FinishLine ==
  ASSUME RequestTypes, NEW p \in Proc, Finish(p) PROVE NoLine(p)'
  BY DEF Finish, Goto, RequestTypes, NoLine, InLine, Waits, WaitPcs, Holds

\* Nor is one that goes on to observe.
LEMMA SurveyLine ==
  ASSUME RequestTypes, NEW p \in Proc, SurveyAgain(p), got[p] = 0 PROVE NoLine(p)'
  BY DEF SurveyAgain, Goto, RequestTypes, NoLine, InLine, Waits, WaitPcs, Holds

\* A request in no line that queues for one lock joins that line.
LEMMA AwaitLine ==
  ASSUME RequestTypes, NEW p \in Proc, NEW c \in Commander, NEW label \in WaitPcs,
         NoLine(p), AwaitLock(p, c, label)
  PROVE  TailMoves(p)
<1>1. OnlyLine(p, c)'
  BY DEF AwaitLock, Goto, RequestTypes, OnlyLine, InLine, Waits, Holds
<1>2. QED
  BY <1>1 DEF AwaitLock, TailMoves, Joins, NoLine, OnlyLine

\* A request in no line that acquires locks joins the first one's line, if any.
LEMMA AcquireLine ==
  ASSUME RequestTypes, NEW p \in Proc, NEW locks \in Seq(Commander), NoLine(p),
         AcquireAll(p, locks)
  PROVE  TailMoves(p)
<1>1. order'[p] = locks /\ got'[p] = 0
  BY DEF AcquireAll, RequestTypes
<1>2. CASE locks = <<>>
  <2>1. UNCHANGED tail /\ NoLine(p)'
    BY <1>1, <1>2 DEF AcquireAll, Goto, RequestTypes, NoLine, InLine, Waits, WaitPcs, Holds
  <2>2. QED
    BY <2>1 DEF TailMoves, LineKept, NoLine
<1>3. CASE locks # <<>>
  <2>1. PICK c \in Commander : c = Head(locks) /\ c = locks[1] /\ Len(locks) >= 1
    BY <1>3
  <2>2. tail' = Enqueued(p, c) /\ pc'[p] = "waiting"
    BY <1>3, <2>1 DEF AcquireAll, Goto, RequestTypes
  <2>3. OnlyLine(p, c)'
    BY <1>1, <2>1, <2>2 DEF OnlyLine, InLine, Waits, WaitPcs, Holds
  <2>4. QED
    BY <2>2, <2>3 DEF TailMoves, Joins, NoLine, OnlyLine
<1>4. QED
  BY <1>2, <1>3

\* A request in one line that is its head leaves it and is in none.
LEMMA LeaveLine ==
  ASSUME NEW p \in Proc, NEW c \in Commander, OnlyLine(p, c), NoLine(p)', IsHead(p, c),
         tail' = Released(c)
  PROVE  TailMoves(p)
  BY DEF TailMoves, Leaves, OnlyLine, NoLine

\* A request in no line before and after leaves the promise chains alone.
LEMMA StayOut ==
  ASSUME NEW p \in Proc, NoLine(p), NoLine(p)', UNCHANGED tail PROVE TailMoves(p)
  BY DEF TailMoves, LineKept, NoLine

\* A request that keeps its locks, and does not begin or end to wait, stays in line.
LEMMA StayIn ==
  ASSUME NEW p \in Proc, UNCHANGED tail, order'[p] = order[p], got'[p] = got[p],
         pc[p] \notin WaitPcs, pc'[p] \notin WaitPcs
  PROVE  TailMoves(p)
  BY DEF TailMoves, LineKept, InLine, Waits, Holds

\* Every step has its request join a line at its end or leave it at its head.
LEMMA TailStep ==
  ASSUME TypeOK, KindInv, OrderInv, HeadInv, NEW p \in Proc, Request(p) \/ Step(p)
  PROVE  TailMoves(p)
<1> USE DEF TypeOK
<1>1. ASSUME NEW k \in Automation, NEW d \in Parent, StartWrite(p, k, d) PROVE TailMoves(p)
  <2>1. NoLine(p)
    BY <1>1, LooseLine DEF StartWrite, Start, LooseP
  <2>2. LockOrder(owner[k], d) \in Seq(Commander)
    BY LockOrderFacts DEF TreeTypes
  <2>3. QED
    BY <1>1, <2>1, <2>2, AcquireLine DEF StartWrite
<1>2. ASSUME NEW c \in Commander, StartLaunch(p, c) PROVE TailMoves(p)
  <2>1. NoLine(p)
    BY <1>2, LooseLine DEF StartLaunch, Start, LooseP
  <2>2. QED
    BY <1>2, <2>1, AwaitLine DEF StartLaunch, WaitPcs
<1>3. ASSUME NEW c \in Commander, StartDelete(p, c) PROVE TailMoves(p)
  BY <1>3, StayIn DEF StartDelete, Start, Goto, coord, WaitPcs, RequestTypes
<1>4. ASSUME NEW c \in Commander, StartProvision(p, c) PROVE TailMoves(p)
  <2>1. NoLine(p)
    BY <1>4, LooseLine DEF StartProvision, Start, LooseP
  <2>2. QED
    BY <1>4, <2>1, AwaitLine DEF StartProvision, WaitPcs
<1>5. CASE GrantLock(p)
  <2> DEFINE n == got[p] + 1
  <2>1. /\ pc[p] = "waiting" /\ got'[p] = n /\ order' = order
        /\ got[p] \in Nat /\ n <= Len(order[p]) /\ order[p] \in Seq(Commander)
    BY <1>5 DEF GrantLock, OrderInv, OrderAt, RequestTypes
  <2>2. Len(order[p]) \in Nat
    BY <2>1
  <2>3. \A d \in Commander : Holds(p, d)' <=> Holds(p, d) \/ order[p][n] = d
    <3>1. 1..n = (1..got[p]) \cup {n}
      BY <2>1
    <3>2. QED
      BY <2>1, <3>1 DEF Holds
  <2>4. \A d \in Commander : InLine(p, d) <=> Holds(p, d) \/ order[p][n] = d
    BY <2>1, <2>2 DEF InLine, Waits, WaitPcs
  <2>5. CASE n = Len(order[p])
    <3>1. UNCHANGED tail /\ pc'[p] \notin WaitPcs
      BY <1>5, <2>5 DEF GrantLock, Goto, WaitPcs, RequestTypes
    <3>2. QED
      BY <2>3, <2>4, <3>1 DEF TailMoves, LineKept, InLine, Waits
  <2>6. CASE n # Len(order[p])
    <3>1. PICK c \in Commander : c = order[p][n + 1]
      BY <2>1, <2>2, <2>6
    <3>2. tail' = Enqueued(p, c) /\ pc'[p] = "waiting"
      BY <1>5, <2>1, <2>6, <3>1 DEF GrantLock
    <3>3. ~InLine(p, c)
      <4>1. ASSUME NEW i \in 1..n, order[p][i] = c PROVE FALSE
        <5>1. i \in 1..Len(order[p]) /\ n + 1 \in 1..Len(order[p]) /\ i # n + 1
          BY <2>1, <2>2, <2>6
        <5>2. QED
          BY <3>1, <4>1, <5>1 DEF OrderInv, OrderAt
      <4>2. 1..got[p] \subseteq 1..n /\ n \in 1..n
        BY <2>1
      <4>3. QED
        BY <2>4, <4>1, <4>2 DEF Holds
    <3>4. \A d \in Commander : Waits(p, d)' <=> d = c
      BY <2>1, <2>2, <2>6, <3>1, <3>2 DEF Waits, WaitPcs
    <3>5. \A d \in Commander : InLine(p, d)' <=> InLine(p, d) \/ d = c
      BY <2>3, <2>4, <3>4 DEF InLine
    <3>6. QED
      BY <3>2, <3>3, <3>5 DEF TailMoves, Joins
  <2>7. QED
    BY <2>5, <2>6
<1>6. CASE RefuseLock(p)
  <2> DEFINE n == got[p] + 1
  <2>1. /\ pc[p] = "waiting" /\ pc'[p] = "unwind" /\ got'[p] = n /\ order' = order
        /\ got[p] \in Nat /\ got[p] < Len(order[p]) /\ UNCHANGED tail
    BY <1>6 DEF RefuseLock, Goto, OrderInv, OrderAt, RequestTypes, coord
  <2>2. 1..n = (1..got[p]) \cup {n}
    BY <2>1
  <2>3. \A d \in Commander : InLine(p, d)' <=> InLine(p, d)
    BY <2>1, <2>2 DEF InLine, Waits, WaitPcs, Holds
  <2>4. QED
    BY <2>1, <2>3 DEF TailMoves, LineKept
<1>7. CASE Unwind(p)
  <2> DEFINE n == got[p]
  <2>1. /\ n \in Nat /\ n > 0 /\ Len(order[p]) \in Nat /\ n <= Len(order[p])
        /\ pc[p] = "unwind" /\ pc' = pc /\ order' = order /\ got'[p] = n - 1
    BY <1>7 DEF Unwind, OrderInv, OrderAt, RequestTypes
  <2>2. PICK c \in Commander : c = order[p][n]
    BY <2>1 DEF RequestTypes
  <2>3. 1..n = (1..(n - 1)) \cup {n} /\ n \in 1..Len(order[p])
    BY <2>1
  <2>4. \A d \in Commander : InLine(p, d) <=> Holds(p, d)
    BY <2>1 DEF InLine, Waits, WaitPcs
  <2>5. \A d \in Commander : InLine(p, d)' <=> \E i \in 1..(n - 1) : order[p][i] = d
    BY <2>1 DEF InLine, Waits, WaitPcs, Holds
  <2>6. \A d \in Commander : d # c => (InLine(p, d)' <=> InLine(p, d))
    BY <2>2, <2>3, <2>4, <2>5 DEF Holds
  <2>7. ~InLine(p, c)'
    <3>1. ASSUME NEW i \in 1..(n - 1), order[p][i] = c PROVE FALSE
      <4>1. i \in 1..Len(order[p]) /\ i # n
        BY <2>1
      <4>2. QED
        BY <2>2, <2>3, <3>1, <4>1 DEF OrderInv, OrderAt
    <3>2. QED
      BY <2>5, <3>1
  <2>8. IsHead(p, c) /\ tail' = Released(c)
    <3>1. Holds(p, c)
      BY <2>2, <2>3 DEF Holds
    <3>2. QED
      BY <1>7, <2>2, <3>1 DEF Unwind, HeadInv
  <2>9. QED
    BY <2>6, <2>7, <2>8 DEF TailMoves, Leaves
<1>8. CASE WriteAutomation(p)
  BY <1>8, StayIn DEF WriteAutomation, Goto, coord, WaitPcs, RequestTypes
<1>9. CASE ReturnWrite(p)
  <2>1. NoLine(p) /\ UNCHANGED tail
    BY <1>9, LooseLine DEF ReturnWrite, coord
  <2>2. NoLine(p)'
    <3>1. CASE Finish(p)
      BY <3>1, FinishLine
    <3>2. CASE Goto(p, "observe") /\ UNCHANGED <<order, got>>
      BY <1>9, <3>2 DEF ReturnWrite, Goto, RequestTypes, NoLine, InLine, Waits, WaitPcs, Holds
    <3>3. QED
      BY <1>9, <3>1, <3>2 DEF ReturnWrite
  <2>3. QED
    BY <2>1, <2>2, StayOut
<1>10. CASE ObserveAgain(p)
  <2>1. NoLine(p)
    BY <1>10, LooseLine DEF ObserveAgain, LooseP
  <2>2. CASE Finish(p) /\ UNCHANGED tail
    BY <2>1, <2>2, FinishLine, StayOut
  <2>3. CASE ~(Finish(p) /\ UNCHANGED tail)
    <3> DEFINE k == item[p]
               d == IF kind[p] = "touch" THEN owner[k] ELSE dest[p]
    <3>1. owner[k] \in Parent /\ d \in Parent
      BY <1>10 DEF ObserveAgain, KindInv, KindAt, TreeTypes, RequestTypes
    <3>2. AcquireAll(p, LockOrder(owner[k], d))
      BY <1>10, <2>3 DEF ObserveAgain
    <3>3. QED
      BY <2>1, <3>1, <3>2, LockOrderFacts, AcquireLine
  <2>4. QED
    BY <2>2, <2>3
<1>11. CASE Admit(p)
  <2>1. PICK c \in Commander : c = com[p]
    BY <1>11 DEF Admit, KindInv, KindAt
  <2>2. OnlyLine(p, c)
    BY <1>11, <2>1, OwnLine DEF Admit, QueuedP
  <2>3. NoLine(p)'
    <3>1. CASE Finish(p)
      BY <3>1, FinishLine
    <3>2. CASE Goto(p, "running") /\ UNCHANGED <<order, got>>
      BY <1>11, <3>2 DEF Admit, OrderInv, OrderAt, QueuedP, Goto, RequestTypes, NoLine,
         InLine, Waits, WaitPcs, Holds
    <3>3. QED
      BY <1>11, <3>1, <3>2 DEF Admit
  <2>4. QED
    BY <1>11, <2>1, <2>2, <2>3, LeaveLine DEF Admit
<1>12. CASE RunLaunch(p)
  <2>1. com[p] \in Commander /\ <<com[p]>> \in Seq(Commander)
    BY <1>12 DEF RunLaunch, KindInv, KindAt
  <2>2. NoLine(p)
    BY <1>12, LooseLine DEF RunLaunch, LooseP
  <2>3. QED
    BY <1>12, <2>1, <2>2, AwaitLine, AcquireLine DEF RunLaunch, WaitPcs
<1>13. CASE ActivateConversation(p)
  BY <1>13, StayIn DEF ActivateConversation, Goto, coord, WaitPcs, RequestTypes
<1>14. CASE ReturnLaunch(p)
  <2>1. NoLine(p) /\ com[p] \in Commander
    BY <1>14, LooseLine DEF ReturnLaunch, KindInv, KindAt
  <2>2. QED
    BY <1>14, <2>1, AwaitLine DEF ReturnLaunch, WaitPcs
<1>15. CASE CompleteActivity(p)
  <2>1. OnlyLine(p, com[p]) /\ com[p] \in Commander
    BY <1>15, OwnLine DEF CompleteActivity, QueuedP, KindInv, KindAt
  <2>2. QED
    BY <1>15, <2>1, FinishLine, LeaveLine DEF CompleteActivity
<1>16. CASE Survey(p)
  <2>1. NoLine(p)
    BY <1>16, LooseLine DEF Survey, LooseP
  <2>2. CASE Finish(p) /\ UNCHANGED tail
    BY <2>1, <2>2, FinishLine, StayOut
  <2>3. CASE AcquireAll(p, <<com[p]>>)
    <3>1. <<com[p]>> \in Seq(Commander)
      BY <1>16 DEF Survey, KindInv, KindAt
    <3>2. QED
      BY <2>1, <2>3, <3>1, AcquireLine
  <2>4. CASE Capture(p) /\ UNCHANGED <<tail, order, got>>
    BY <1>16, <2>4, StayIn DEF Survey, Capture, Goto, WaitPcs, RequestTypes
  <2>5. QED
    BY <1>16, <2>2, <2>3, <2>4 DEF Survey
<1>17. CASE ArchiveConversation(p)
  BY <1>17, StayIn DEF ArchiveConversation, Goto, coord, WaitPcs, RequestTypes
<1>18. CASE ReturnArchive(p)
  <2>1. NoLine(p) /\ UNCHANGED tail
    BY <1>18, LooseLine DEF ReturnArchive, coord
  <2>2. CASE Finish(p)
    BY <2>1, <2>2, FinishLine, StayOut
  <2>3. CASE Capture(p) /\ UNCHANGED <<order, got>>
    BY <1>18, <2>1, <2>3, StayIn DEF ReturnArchive, Capture, Goto, WaitPcs, RequestTypes
  <2>4. QED
    BY <1>18, <2>2, <2>3 DEF ReturnArchive
<1>19. CASE Sweep(p)
  <2>1. NoLine(p) /\ com[p] \in Commander /\ got[p] = 0
    BY <1>19, LooseLine DEF Sweep, LooseP, KindInv, KindAt, OrderInv, OrderAt
  <2>2. CASE (Finish(p) \/ NextAttempt(p)) /\ UNCHANGED tail
    BY <2>1, <2>2, FinishLine, SurveyLine, StayOut DEF NextAttempt
  <2>3. CASE AwaitLock(p, com[p], "reserve")
    BY <2>1, <2>3, AwaitLine DEF WaitPcs
  <2>4. QED
    BY <1>19, <2>2, <2>3 DEF Sweep
<1>20. CASE Reserve(p)
  <2>1. PICK c \in Commander : c = com[p]
    BY <1>20 DEF Reserve, KindInv, KindAt
  <2>2. OnlyLine(p, c) /\ got[p] = 0 /\ order[p] = <<c>>
    BY <1>20, <2>1, OwnLine DEF Reserve, QueuedP, OrderInv, OrderAt
  <2>3. CASE StillAsSeen(p, c)
    <3>1. /\ UNCHANGED tail /\ order' = order /\ got'[p] = 1 /\ pc'[p] \notin WaitPcs
      BY <1>20, <2>1, <2>3 DEF Reserve, Goto, WaitPcs, RequestTypes
    <3>2. OnlyLine(p, c)'
      BY <2>2, <3>1 DEF OnlyLine, InLine, Waits, Holds
    <3>3. QED
      BY <2>2, <3>1, <3>2 DEF TailMoves, LineKept, OnlyLine
  <2>4. CASE ~StillAsSeen(p, c)
    <3>1. NoLine(p)'
      BY <1>20, <2>1, <2>2, <2>4, FinishLine, SurveyLine DEF Reserve, NextAttempt
    <3>2. QED
      BY <1>20, <2>1, <2>2, <2>4, <3>1, LeaveLine DEF Reserve
  <2>5. QED
    BY <2>3, <2>4
<1>21. CASE DeleteSession(p)
  BY <1>21, StayIn DEF DeleteSession, Goto, coord, WaitPcs, RequestTypes
<1>22. CASE DeletionFails(p)
  BY <1>22, StayIn DEF DeletionFails, Goto, coord, WaitPcs, RequestTypes
<1>23. CASE CloseLease(p)
  <2>1. OnlyLine(p, com[p]) /\ com[p] \in Commander
    BY <1>23, OwnLine DEF CloseLease, LeasedP, LeasePcs, KindInv, KindAt
  <2>2. IsHead(p, com[p])
    BY <1>23, <2>1 DEF CloseLease, HeadInv, OrderInv, OrderAt, LeasedP, LeasePcs, Holds
  <2>3. QED
    BY <1>23, <2>1, <2>2, FinishLine, LeaveLine DEF CloseLease
<1>24. CASE Publish(p)
  <2>1. PICK c \in Commander : c = com[p]
    BY <1>24 DEF Publish, KindInv, KindAt
  <2>2. OnlyLine(p, c) /\ got[p] = 0 /\ order[p] = <<c>>
    BY <1>24, <2>1, OwnLine DEF Publish, QueuedP, OrderInv, OrderAt
  <2>3. CASE Accepts(c) /\ ~session[c]
    <3>1. /\ UNCHANGED tail /\ order' = order /\ got'[p] = 1 /\ pc'[p] \notin WaitPcs
      BY <1>24, <2>1, <2>3 DEF Publish, Goto, WaitPcs, RequestTypes
    <3>2. OnlyLine(p, c)'
      BY <2>2, <3>1 DEF OnlyLine, InLine, Waits, Holds
    <3>3. QED
      BY <2>2, <3>1, <3>2 DEF TailMoves, LineKept, OnlyLine
  <2>4. CASE ~(Accepts(c) /\ ~session[c])
    BY <1>24, <2>1, <2>2, <2>4, FinishLine, LeaveLine DEF Publish
  <2>5. QED
    BY <2>3, <2>4
<1>25. CASE CreateSession(p)
  BY <1>25, StayIn DEF CreateSession, coord, WaitPcs
<1>26. CASE CreateConversation(p)
  BY <1>26, StayIn DEF CreateConversation, coord, WaitPcs
<1>27. CASE EndProvision(p)
  BY <1>27, StayIn DEF EndProvision, Goto, coord, WaitPcs, RequestTypes
<1>28. CASE RollbackConversation(p)
  BY <1>28, StayIn DEF RollbackConversation, coord, WaitPcs
<1>29. ASSUME NEW k \in Automation, DeleteChild(p, k) PROVE TailMoves(p)
  BY <1>29, StayIn DEF DeleteChild, coord, WaitPcs
<1>30. ASSUME NEW k \in Automation, SeedAutomation(p, k) PROVE TailMoves(p)
  BY <1>30, StayIn DEF SeedAutomation, coord, WaitPcs
<1>31. QED
  BY <1>1, <1>2, <1>3, <1>4, <1>5, <1>6, <1>7, <1>8, <1>9, <1>10, <1>11, <1>12, <1>13,
     <1>14, <1>15, <1>16, <1>17, <1>18, <1>19, <1>20, <1>21, <1>22, <1>23, <1>24, <1>25,
     <1>26, <1>27, <1>28, <1>29, <1>30 DEF Request, Step

\* Every step keeps mutual exclusion: who holds a lock is the head of its queue.
LEMMA HeadStep == TypeOK /\ KindInv /\ OrderInv /\ HeadInv /\ [Next]_vars => HeadInv'
<1>1. ASSUME TypeOK, KindInv, OrderInv, HeadInv, NEW p \in Proc, Request(p) \/ Step(p),
             NEW q \in Proc, NEW c \in Commander, Holds(q, c)'
      PROVE  IsHead(q, c)'
  <2>1. IsHead(q, c)
    <3>1. CASE q = p
      BY <1>1, <3>1, HoldStep DEF HeadInv, HoldsAsHead
    <3>2. CASE q # p
      BY <1>1, <3>2, Frame DEF TypeOK, SameLocals, Holds, HeadInv
    <3>3. QED
      BY <3>1, <3>2
  <2>2. CASE UNCHANGED tail
    BY <2>1, <2>2 DEF IsHead
  <2>3. ASSUME NEW d \in Commander, Joins(p, d) PROVE IsHead(q, c)'
    <3>1. tail[c] \in Seq(Proc) /\ tail'[c] \in {tail[c], Append(tail[c], p)}
      BY <1>1, <2>3 DEF Joins, TypeOK, CoordTypes, Enqueued
    <3>2. QED
      BY <2>1, <3>1 DEF IsHead
  <2>4. ASSUME NEW d \in Commander, Leaves(p, d) PROVE IsHead(q, c)'
    <3>1. c # d
      <4>1. CASE q = p
        BY <1>1, <2>4, <4>1 DEF Leaves, InLine
      <4>2. CASE q # p
        BY <2>1, <2>4, <4>2 DEF Leaves, IsHead
      <4>3. QED
        BY <4>1, <4>2
    <3>2. tail'[c] = tail[c]
      BY <1>1, <2>4, <3>1 DEF Leaves, TypeOK, CoordTypes, Released
    <3>3. QED
      BY <2>1, <3>2 DEF IsHead
  <2>5. QED
    BY <1>1, <2>2, <2>3, <2>4, TailStep DEF TailMoves, LineKept
<1>2. ASSUME HeadInv, UNCHANGED vars PROVE HeadInv'
  BY <1>2 DEF HeadInv, Holds, IsHead, vars
<1>3. QED
  BY <1>1, <1>2 DEF HeadInv, Next

\* Every step keeps the queues: each has those in line, once.
LEMMA QueueStep ==
  TypeOK /\ KindInv /\ OrderInv /\ HeadInv /\ QueueInv /\ [Next]_vars => QueueInv'
<1>1. ASSUME TypeOK, KindInv, OrderInv, HeadInv, QueueInv, NEW p \in Proc,
             Request(p) \/ Step(p), NEW c \in Commander
      PROVE  QueueAt(c)'
  <2>1. QueueAt(c) /\ tail[c] \in Seq(Proc)
    BY <1>1 DEF QueueInv, TypeOK, CoordTypes
  <2>2. \A r \in Proc : r # p => (InLine(r, c)' <=> InLine(r, c))
    BY <1>1, Frame DEF TypeOK, SameLocals, InLine, Waits, Holds
  <2>3. CASE tail'[c] = tail[c] /\ (InLine(p, c)' <=> InLine(p, c))
    BY <2>1, <2>2, <2>3 DEF QueueAt, Queued
  <2>4. CASE Joins(p, c)
    <3>1. tail'[c] = Append(tail[c], p) /\ InLine(p, c)' /\ ~InLine(p, c)
      BY <1>1, <2>4 DEF Joins, Enqueued, TypeOK, CoordTypes
    <3> DEFINE n == Len(tail[c])
    <3>2. /\ n \in Nat /\ Len(tail'[c]) = n + 1 /\ tail'[c][n + 1] = p
          /\ \A i \in 1..n : tail'[c][i] = tail[c][i] /\ tail[c][i] # p
      BY <2>1, <3>1 DEF QueueAt, Queued
    <3>3. 1..(n + 1) = (1..n) \cup {n + 1}
      BY <3>2
    <3>4. \A i, j \in 1..Len(tail'[c]) : tail'[c][i] = tail'[c][j] => i = j
      <4>1. SUFFICES ASSUME NEW i \in 1..(n + 1), NEW j \in 1..(n + 1),
                            tail'[c][i] = tail'[c][j]
            PROVE  i = j
        BY <3>2
      <4>2. CASE i = n + 1 \/ j = n + 1
        BY <3>2, <3>3, <4>1, <4>2
      <4>3. CASE i \in 1..n /\ j \in 1..n
        <5>1. tail[c][i] = tail[c][j]
          BY <3>2, <4>1, <4>3
        <5>2. QED
          BY <2>1, <4>3, <5>1 DEF QueueAt
      <4>4. QED
        BY <3>3, <4>2, <4>3
    <3>5. \A r \in Proc : Queued(r, c)' <=> Queued(r, c) \/ r = p
      BY <3>2, <3>3 DEF Queued
    <3>6. QED
      BY <2>1, <2>2, <3>1, <3>4, <3>5 DEF QueueAt
  <2>5. CASE Leaves(p, c)
    <3>1. /\ tail'[c] = Tail(tail[c]) /\ ~InLine(p, c)'
          /\ tail[c] # <<>> /\ tail[c][1] = p
      BY <1>1, <2>5 DEF Leaves, IsHead, Released, TypeOK, CoordTypes
    <3> DEFINE n == Len(tail[c])
    <3>2. /\ n \in Nat /\ n >= 1 /\ Len(tail'[c]) = n - 1
          /\ \A i \in 1..(n - 1) : tail'[c][i] = tail[c][i + 1]
      BY <2>1, <3>1
    <3>3. \A i, j \in 1..Len(tail'[c]) : tail'[c][i] = tail'[c][j] => i = j
      <4>1. SUFFICES ASSUME NEW i \in 1..(n - 1), NEW j \in 1..(n - 1),
                            tail[c][i + 1] = tail[c][j + 1]
            PROVE  i = j
        BY <3>2
      <4>2. i + 1 \in 1..n /\ j + 1 \in 1..n
        BY <3>2
      <4>3. i + 1 = j + 1
        BY <2>1, <4>1, <4>2 DEF QueueAt
      <4>4. QED
        BY <4>3
    <3>4. \A r \in Proc : Queued(r, c)' <=> Queued(r, c) /\ r # p
      <4>1. ASSUME NEW r \in Proc, Queued(r, c)' PROVE Queued(r, c) /\ r # p
        <5>1. PICK i \in 1..(n - 1) : tail[c][i + 1] = r
          BY <3>2, <4>1 DEF Queued
        <5>2. i + 1 \in 1..n /\ 1 \in 1..n /\ i + 1 # 1
          BY <3>2
        <5>3. QED
          BY <2>1, <3>1, <5>1, <5>2 DEF QueueAt, Queued
      <4>2. ASSUME NEW r \in Proc, Queued(r, c), r # p PROVE Queued(r, c)'
        <5>1. PICK i \in 1..n : tail[c][i] = r
          BY <4>2 DEF Queued
        <5>2. i - 1 \in 1..(n - 1) /\ (i - 1) + 1 = i
          BY <3>1, <3>2, <4>2, <5>1
        <5>3. QED
          BY <3>2, <5>1, <5>2 DEF Queued
      <4>3. QED
        BY <4>1, <4>2
    <3>5. QED
      BY <2>1, <2>2, <3>1, <3>3, <3>4 DEF QueueAt
  <2>6. TailMoves(p)
    BY <1>1, TailStep
  <2>7. CASE LineKept(p)
    BY <2>3, <2>7 DEF LineKept
  <2>8. ASSUME NEW d \in Commander, d # c, Joins(p, d) \/ Leaves(p, d) PROVE QueueAt(c)'
    <3>1. tail'[c] = tail[c] /\ (InLine(p, c)' <=> InLine(p, c))
      BY <1>1, <2>8 DEF Joins, Leaves, Enqueued, Released, TypeOK, CoordTypes
    <3>2. QED
      BY <2>3, <3>1
  <2>9. QED
    BY <2>4, <2>5, <2>6, <2>7, <2>8 DEF TailMoves
<1>2. ASSUME QueueInv, UNCHANGED vars PROVE QueueInv'
  BY <1>2 DEF QueueInv, QueueAt, Queued, InLine, Waits, Holds, vars
<1>3. QED
  BY <1>1, <1>2 DEF QueueInv, Next

-----------------------------------------------------------------------------
(***************************************************************************)
(* Leases                                                                  *)
(***************************************************************************)

\* What a step of p does to the cleanup states: nothing, or it opens or closes
\* a lease of its own.
CleanupKept(p) ==
  /\ UNCHANGED cleanupState
  /\ LeasedP(p)' <=> LeasedP(p)
  /\ LeasedP(p) => com'[p] = com[p]

LeaseOpened(p) ==
  /\ ~LeasedP(p) /\ LeasedP(p)' /\ UNCHANGED activities
  /\ \E c \in Commander :
       /\ IsHead(p, c) /\ Accepts(c) /\ activities[c] = 0 /\ com'[p] = c
       /\ cleanupState' = [cleanupState EXCEPT ![c] = "active"]

LeaseClosed(p) ==
  /\ LeasedP(p) /\ ~LeasedP(p)' /\ UNCHANGED activities
  /\ \E c \in Commander, st \in {"idle", "deleted"} :
       /\ Holds(p, c) /\ com[p] = c
       /\ cleanupState' = [cleanupState EXCEPT ![c] = st]

\* Only the request with the lock opens or closes a lease on a commander.
LEMMA CleanupStep ==
  ASSUME TypeOK, KindInv, OrderInv, FreshInv, NEW p \in Proc, Request(p) \/ Step(p)
  PROVE  CleanupKept(p) \/ LeaseOpened(p) \/ LeaseClosed(p)
<1> USE DEF TypeOK
<1>1. ASSUME NEW k \in Automation, NEW d \in Parent, StartWrite(p, k, d) PROVE CleanupKept(p) \/ LeaseOpened(p) \/ LeaseClosed(p)
  BY <1>1 DEF StartWrite, AcquireAll, Start, Goto, CleanupKept, LeasedP, LeasePcs, coord,
     write, RequestTypes
<1>2. ASSUME NEW c \in Commander, StartLaunch(p, c) PROVE CleanupKept(p) \/ LeaseOpened(p) \/ LeaseClosed(p)
  BY <1>2 DEF StartLaunch, AwaitLock, Start, Goto, CleanupKept, LeasedP, LeasePcs, coord,
     write, RequestTypes
<1>3. ASSUME NEW c \in Commander, StartDelete(p, c) PROVE CleanupKept(p) \/ LeaseOpened(p) \/ LeaseClosed(p)
  BY <1>3 DEF StartDelete, Start, Goto, CleanupKept, LeasedP, LeasePcs, coord, write,
     RequestTypes
<1>4. ASSUME NEW c \in Commander, StartProvision(p, c) PROVE CleanupKept(p) \/ LeaseOpened(p) \/ LeaseClosed(p)
  BY <1>4 DEF StartProvision, AwaitLock, Start, Goto, CleanupKept, LeasedP, LeasePcs, coord,
     write, RequestTypes
<1>5. CASE GrantLock(p)
  BY <1>5 DEF GrantLock, Goto, CleanupKept, LeasedP, LeasePcs, coord, write, RequestTypes
<1>6. CASE RefuseLock(p)
  BY <1>6 DEF RefuseLock, Goto, CleanupKept, LeasedP, LeasePcs, coord, write, RequestTypes
<1>7. CASE Unwind(p)
  BY <1>7 DEF Unwind, CleanupKept, LeasedP, LeasePcs, coord, write, RequestTypes
<1>8. CASE WriteAutomation(p)
  BY <1>8 DEF WriteAutomation, Goto, CleanupKept, LeasedP, LeasePcs, coord, write, RequestTypes
<1>9. CASE ReturnWrite(p)
  BY <1>9 DEF ReturnWrite, Goto, Finish, CleanupKept, LeasedP, LeasePcs, coord, write,
     RequestTypes
<1>10. CASE ObserveAgain(p)
  BY <1>10 DEF ObserveAgain, Goto, Finish, AcquireAll, CleanupKept, LeasedP, LeasePcs,
     coord, write, RequestTypes
<1>11. CASE Admit(p)
  BY <1>11 DEF Admit, Goto, Finish, CleanupKept, LeasedP, LeasePcs, coord, write, RequestTypes
<1>12. CASE RunLaunch(p)
  BY <1>12 DEF RunLaunch, Goto, AwaitLock, AcquireAll, CleanupKept, LeasedP, LeasePcs,
     coord, write, RequestTypes
<1>13. CASE ActivateConversation(p)
  BY <1>13 DEF ActivateConversation, Goto, CleanupKept, LeasedP, LeasePcs, coord, write,
     RequestTypes
<1>14. CASE ReturnLaunch(p)
  BY <1>14 DEF ReturnLaunch, Goto, AwaitLock, CleanupKept, LeasedP, LeasePcs, coord, write,
     RequestTypes
<1>15. CASE CompleteActivity(p)
  BY <1>15 DEF CompleteActivity, Goto, Finish, CleanupKept, LeasedP, LeasePcs, coord, write,
     RequestTypes
<1>16. CASE Survey(p)
  BY <1>16 DEF Survey, Goto, Finish, AcquireAll, Capture, CleanupKept, LeasedP, LeasePcs,
     coord, write, RequestTypes
<1>17. CASE ArchiveConversation(p)
  BY <1>17 DEF ArchiveConversation, Goto, CleanupKept, LeasedP, LeasePcs, coord, write,
     RequestTypes
<1>18. CASE ReturnArchive(p)
  BY <1>18 DEF ReturnArchive, Goto, Finish, Capture, CleanupKept, LeasedP, LeasePcs, coord,
     write, RequestTypes
<1>19. CASE Sweep(p)
  BY <1>19 DEF Sweep, Goto, Finish, NextAttempt, SurveyAgain, AwaitLock, CleanupKept,
     LeasedP, LeasePcs, coord, write, RequestTypes
<1>20. CASE Reserve(p)
  <2>1. CASE ~StillAsSeen(p, com[p])
    BY <1>20, <2>1 DEF Reserve, NextAttempt, SurveyAgain, Finish, Goto, CleanupKept, LeasedP,
       LeasePcs, write, RequestTypes
  <2>2. CASE StillAsSeen(p, com[p])
    <3>1. PICK c \in Commander : c = com[p]
      BY <1>20 DEF Reserve, KindInv, KindAt
    <3>2. ~LeasedP(p) /\ IsHead(p, c) /\ Accepts(c) /\ activities[c] = 0
      BY <1>20, <2>2, <3>1 DEF Reserve, StillAsSeen, Accepts, LeasedP, LeasePcs
    <3>3. /\ cleanupState' = [cleanupState EXCEPT ![c] = "active"]
          /\ pc'[p] = "leased" /\ com'[p] = c /\ UNCHANGED activities
      BY <1>20, <2>2, <3>1 DEF Reserve, Goto, RequestTypes
    <3>4. QED
      BY <3>2, <3>3 DEF LeaseOpened, LeasedP, LeasePcs
  <2>3. QED
    BY <2>1, <2>2
<1>21. CASE DeleteSession(p)
  BY <1>21 DEF DeleteSession, Goto, CleanupKept, LeasedP, LeasePcs, coord, write, RequestTypes
<1>22. CASE DeletionFails(p)
  BY <1>22 DEF DeletionFails, Goto, CleanupKept, LeasedP, LeasePcs, coord, write, RequestTypes
<1>23. CASE CloseLease(p)
  <2>1. PICK c \in Commander : c = com[p]
    BY <1>23 DEF CloseLease, KindInv, KindAt
  <2>2. LeasedP(p) /\ Holds(p, c)
    BY <1>23, <2>1 DEF CloseLease, OrderInv, OrderAt, LeasedP, LeasePcs, Holds
  <2>3. \E st \in {"idle", "deleted"} : cleanupState' = [cleanupState EXCEPT ![c] = st]
    BY <1>23, <2>1 DEF CloseLease
  <2>4. pc'[p] = "idle" /\ UNCHANGED activities
    BY <1>23 DEF CloseLease, Finish, Goto, RequestTypes
  <2>5. QED
    BY <2>1, <2>2, <2>3, <2>4 DEF LeaseClosed, LeasedP, LeasePcs
<1>24. CASE Publish(p)
  <2>0. PICK c \in Commander : c = com[p]
    BY <1>24 DEF Publish, KindInv, KindAt
  <2>1. CASE ~(Accepts(c) /\ ~session[c])
    BY <1>24, <2>0, <2>1 DEF Publish, Finish, Goto, CleanupKept, LeasedP, LeasePcs,
       RequestTypes
  <2>2. CASE Accepts(c) /\ ~session[c]
    <3>1. ~LeasedP(p) /\ IsHead(p, c) /\ activities[c] = 0
      BY <1>24, <2>0 DEF Publish, FreshInv, LeasedP, LeasePcs
    <3>2. /\ cleanupState' = [cleanupState EXCEPT ![c] = "active"]
          /\ pc'[p] = "provisioning" /\ com'[p] = c /\ UNCHANGED activities
      BY <1>24, <2>0, <2>2 DEF Publish, Goto, RequestTypes
    <3>3. QED
      BY <2>2, <3>1, <3>2 DEF LeaseOpened, LeasedP, LeasePcs
  <2>3. QED
    BY <2>1, <2>2
<1>25. CASE CreateSession(p)
  BY <1>25 DEF CreateSession, CleanupKept, LeasedP, LeasePcs, coord, write, RequestTypes
<1>26. CASE CreateConversation(p)
  BY <1>26 DEF CreateConversation, CleanupKept, LeasedP, LeasePcs, coord, write, RequestTypes
<1>27. CASE EndProvision(p)
  BY <1>27 DEF EndProvision, Goto, CleanupKept, LeasedP, LeasePcs, coord, write, RequestTypes
<1>28. CASE RollbackConversation(p)
  BY <1>28 DEF RollbackConversation, CleanupKept, LeasedP, LeasePcs, coord, write, RequestTypes
<1>29. ASSUME NEW k \in Automation, DeleteChild(p, k) PROVE CleanupKept(p) \/ LeaseOpened(p) \/ LeaseClosed(p)
  BY <1>29 DEF DeleteChild, CleanupKept, LeasedP, LeasePcs, coord, write, RequestTypes
<1>30. ASSUME NEW k \in Automation, SeedAutomation(p, k) PROVE CleanupKept(p) \/ LeaseOpened(p) \/ LeaseClosed(p)
  BY <1>30 DEF SeedAutomation, CleanupKept, LeasedP, LeasePcs, coord, write, RequestTypes
<1>31. QED
  BY <1>1, <1>2, <1>3, <1>4, <1>5, <1>6, <1>7, <1>8, <1>9, <1>10, <1>11, <1>12, <1>13,
     <1>14, <1>15, <1>16, <1>17, <1>18, <1>19, <1>20, <1>21, <1>22, <1>23, <1>24, <1>25,
     <1>26, <1>27, <1>28, <1>29, <1>30 DEF Request, Step

\* What a step of p does to the generations and the activities; p is counted
\* among the activities of c from its admission to its completion.
Counted(p, c) == kind[p] = "launch" /\ com[p] = c /\ pc[p] # "admit"

CountersKept(p) ==
  /\ UNCHANGED activities
  /\ UNCHANGED version \/ \E c \in Commander : version' = Bumped(c)
  /\ \A c \in Commander : Counted(p, c)' <=> Counted(p, c)

Admitted(p) ==
  /\ UNCHANGED cleanupState /\ pc[p] = "admit"
  /\ \E c \in Commander :
       /\ Accepts(c) /\ com[p] = c
       /\ activities' = [activities EXCEPT ![c] = @ + 1]
       /\ version' = Bumped(c)
       /\ \A d \in Commander : ~Counted(p, d) /\ (Counted(p, d)' <=> d = c)

Completed(p) ==
  /\ UNCHANGED <<version, cleanupState>>
  /\ \E c \in Commander :
       /\ activities' = [activities EXCEPT ![c] = IF @ > 0 THEN @ - 1 ELSE 0]
       /\ \A d \in Commander : (Counted(p, d) <=> d = c) /\ ~Counted(p, d)'

\* Only the request with the lock changes the generation or the activities.
LEMMA CountersStep ==
  ASSUME TypeOK, KindInv, OrderInv, NEW p \in Proc, Request(p) \/ Step(p)
  PROVE  CountersKept(p) \/ Admitted(p) \/ Completed(p)
<1>1. ASSUME NEW k \in Automation, NEW d \in Parent, StartWrite(p, k, d) PROVE CountersKept(p) \/ Admitted(p) \/ Completed(p)
  BY <1>1
     DEF StartWrite, AcquireAll, Start, Goto, CountersKept, Counted, KindInv, KindAt, TypeOK,
         RequestTypes, Writes, coord
<1>2. ASSUME NEW c \in Commander, StartLaunch(p, c) PROVE CountersKept(p) \/ Admitted(p) \/ Completed(p)
  BY <1>2
     DEF StartLaunch, AwaitLock, Start, Goto, CountersKept, Counted, KindInv, KindAt, TypeOK,
         RequestTypes, Writes, coord
<1>3. ASSUME NEW c \in Commander, StartDelete(p, c) PROVE CountersKept(p) \/ Admitted(p) \/ Completed(p)
  BY <1>3
     DEF StartDelete, Start, Goto, CountersKept, Counted, KindInv, KindAt, TypeOK, RequestTypes,
         Writes, coord
<1>4. ASSUME NEW c \in Commander, StartProvision(p, c) PROVE CountersKept(p) \/ Admitted(p) \/ Completed(p)
  BY <1>4
     DEF StartProvision, AwaitLock, Start, Goto, CountersKept, Counted, KindInv, KindAt, TypeOK,
         RequestTypes, Writes, coord
<1>5. CASE GrantLock(p)
  BY <1>5
     DEF GrantLock, Goto, CountersKept, Counted, KindInv, KindAt, TypeOK, RequestTypes, Writes,
         coord
<1>6. CASE RefuseLock(p)
  BY <1>6
     DEF RefuseLock, Goto, CountersKept, Counted, KindInv, KindAt, TypeOK, RequestTypes, Writes,
         coord
<1>7. CASE Unwind(p)
  <2>1. order[p][got[p]] \in Commander
    BY <1>7 DEF Unwind, OrderInv, OrderAt, TypeOK, RequestTypes
  <2>2. QED
    BY <1>7, <2>1 DEF Unwind, CountersKept, Counted
<1>8. CASE WriteAutomation(p)
  BY <1>8
     DEF WriteAutomation, Goto, CountersKept, Counted, KindInv, KindAt, TypeOK, RequestTypes,
         Writes, coord
<1>9. CASE ReturnWrite(p)
  BY <1>9
     DEF ReturnWrite, Goto, Finish, CountersKept, Counted, KindInv, KindAt, TypeOK, RequestTypes,
         Writes, coord
<1>10. CASE ObserveAgain(p)
  BY <1>10
     DEF ObserveAgain, Goto, Finish, AcquireAll, CountersKept, Counted, KindInv, KindAt, TypeOK,
         RequestTypes, Writes, coord
<1>11. CASE Admit(p)
  <2>1. PICK c \in Commander : c = com[p]
    BY <1>11 DEF Admit, KindInv, KindAt
  <2>2. CASE Accepts(c)
    BY <1>11, <2>1, <2>2 DEF Admit, Admitted, Counted, Goto, KindInv, KindAt, TypeOK, RequestTypes
  <2>3. CASE ~Accepts(c)
    BY <1>11, <2>1, <2>3 DEF Admit, Finish, Goto, CountersKept, Counted, TypeOK, RequestTypes
  <2>4. QED
    BY <2>2, <2>3
<1>12. CASE RunLaunch(p)
  BY <1>12
     DEF RunLaunch, Goto, AwaitLock, AcquireAll, CountersKept, Counted, KindInv, KindAt, TypeOK,
         RequestTypes, Writes, coord
<1>13. CASE ActivateConversation(p)
  BY <1>13
     DEF ActivateConversation, Goto, CountersKept, Counted, KindInv, KindAt, TypeOK,
         RequestTypes, Writes, coord
<1>14. CASE ReturnLaunch(p)
  BY <1>14
     DEF ReturnLaunch, Goto, AwaitLock, CountersKept, Counted, KindInv, KindAt, TypeOK,
         RequestTypes, Writes, coord
<1>15. CASE CompleteActivity(p)
  <2>1. com[p] \in Commander
    BY <1>15 DEF CompleteActivity, KindInv, KindAt
  <2>2. QED
    BY <1>15, <2>1 DEF CompleteActivity, Completed, Counted, Finish, Goto, KindInv, KindAt,
       TypeOK, RequestTypes
<1>16. CASE Survey(p)
  BY <1>16
     DEF Survey, Goto, Finish, AcquireAll, Capture, CountersKept, Counted, KindInv, KindAt,
         TypeOK, RequestTypes, Writes, coord
<1>17. CASE ArchiveConversation(p)
  BY <1>17
     DEF ArchiveConversation, Goto, CountersKept, Counted, KindInv, KindAt, TypeOK, RequestTypes,
         Writes, coord
<1>18. CASE ReturnArchive(p)
  BY <1>18
     DEF ReturnArchive, Goto, Finish, Capture, CountersKept, Counted, KindInv, KindAt, TypeOK,
         RequestTypes, Writes, coord
<1>19. CASE Sweep(p)
  BY <1>19
     DEF Sweep, Goto, Finish, NextAttempt, SurveyAgain, AwaitLock, CountersKept, Counted,
         KindInv, KindAt, TypeOK, RequestTypes, Writes, coord
<1>20. CASE Reserve(p)
  BY <1>20
     DEF Reserve, Goto, NextAttempt, SurveyAgain, Finish, CountersKept, Counted, KindInv, KindAt,
         TypeOK, RequestTypes, Writes, coord
<1>21. CASE DeleteSession(p)
  BY <1>21
     DEF DeleteSession, Goto, CountersKept, Counted, KindInv, KindAt, TypeOK, RequestTypes,
         Writes, coord
<1>22. CASE DeletionFails(p)
  BY <1>22
     DEF DeletionFails, Goto, CountersKept, Counted, KindInv, KindAt, TypeOK, RequestTypes,
         Writes, coord
<1>23. CASE CloseLease(p)
  <2>1. com[p] \in Commander
    BY <1>23 DEF CloseLease, KindInv, KindAt
  <2>2. QED
    BY <1>23, <2>1 DEF CloseLease, CountersKept, Counted, Finish, Goto, KindInv, KindAt,
       TypeOK, RequestTypes
<1>24. CASE Publish(p)
  BY <1>24
     DEF Publish, Goto, Finish, CountersKept, Counted, KindInv, KindAt, TypeOK, RequestTypes,
         Writes, coord
<1>25. CASE CreateSession(p)
  BY <1>25
     DEF CreateSession, CountersKept, Counted, KindInv, KindAt, TypeOK, RequestTypes, Writes,
         coord
<1>26. CASE CreateConversation(p)
  BY <1>26
     DEF CreateConversation, CountersKept, Counted, KindInv, KindAt, TypeOK, RequestTypes,
         Writes, coord
<1>27. CASE EndProvision(p)
  BY <1>27
     DEF EndProvision, Goto, CountersKept, Counted, KindInv, KindAt, TypeOK, RequestTypes,
         Writes, coord
<1>28. CASE RollbackConversation(p)
  BY <1>28
     DEF RollbackConversation, CountersKept, Counted, KindInv, KindAt, TypeOK, RequestTypes,
         Writes, coord
<1>29. ASSUME NEW k \in Automation, DeleteChild(p, k) PROVE CountersKept(p) \/ Admitted(p) \/ Completed(p)
  BY <1>29
     DEF DeleteChild, CountersKept, Counted, KindInv, KindAt, TypeOK, RequestTypes, Writes, coord
<1>30. ASSUME NEW k \in Automation, SeedAutomation(p, k) PROVE CountersKept(p) \/ Admitted(p) \/ Completed(p)
  BY <1>30
     DEF SeedAutomation, CountersKept, Counted, KindInv, KindAt, TypeOK, RequestTypes, Writes,
         coord
<1>31. QED
  BY <1>1, <1>2, <1>3, <1>4, <1>5, <1>6, <1>7, <1>8, <1>9, <1>10, <1>11, <1>12, <1>13,
     <1>14, <1>15, <1>16, <1>17, <1>18, <1>19, <1>20, <1>21, <1>22, <1>23, <1>24, <1>25,
     <1>26, <1>27, <1>28, <1>29, <1>30 DEF Request, Step

\* Activities stay at zero until an admission, which moves the generation.
LEMMA CountersFacts ==
  ASSUME TypeOK, NEW p \in Proc, CountersKept(p) \/ Admitted(p) \/ Completed(p), NEW c \in Commander
  PROVE  /\ version'[c] >= version[c]
         /\ activities[c] = 0 /\ activities'[c] # 0 =>
              Admitted(p) /\ com[p] = c /\ Accepts(c) /\ version'[c] > 0
<1> USE DEF TypeOK, CoordTypes
<1>1. CASE CountersKept(p)
  <2>1. version'[c] >= version[c]
    <3>1. CASE UNCHANGED version
      BY <3>1
    <3>2. ASSUME NEW d \in Commander, version' = Bumped(d) PROVE version'[c] >= version[c]
      BY <3>2 DEF Bumped
    <3>3. QED
      BY <1>1, <3>1, <3>2 DEF CountersKept
  <2>2. QED
    BY <1>1, <2>1 DEF CountersKept
<1>2. CASE Admitted(p)
  <2>1. PICK d \in Commander :
          /\ Accepts(d) /\ com[p] = d
          /\ activities' = [activities EXCEPT ![d] = @ + 1]
          /\ version' = Bumped(d)
    BY <1>2 DEF Admitted
  <2>2. CASE c = d
    BY <1>2, <2>1, <2>2 DEF Bumped
  <2>3. CASE c # d
    BY <2>1, <2>3 DEF Bumped
  <2>4. QED
    BY <2>2, <2>3
<1>3. CASE Completed(p)
  <2>1. PICK d \in Commander :
          activities' = [activities EXCEPT ![d] = IF @ > 0 THEN @ - 1 ELSE 0]
    BY <1>3 DEF Completed
  <2>2. activities[c] = 0 => activities'[c] = 0
    BY <2>1
  <2>3. version'[c] = version[c]
    BY <1>3 DEF Completed
  <2>4. QED
    BY <2>2, <2>3
<1>4. QED
  BY <1>1, <1>2, <1>3

\* Every step keeps the count: the activities of a commander are its launches
\* that are admitted and not completed.
LEMMA ActivityStep ==
  TypeOK /\ KindInv /\ OrderInv /\ ActivityInv /\ [Next]_vars => ActivityInv'
<1>1. ASSUME TypeOK, KindInv, OrderInv, ActivityInv, NEW p \in Proc, Request(p) \/ Step(p),
             NEW c \in Commander
      PROVE  IsFiniteSet(Admissions(c)') /\ activities'[c] = Cardinality(Admissions(c)')
  <2>1. \A q \in Proc : q # p => (Counted(q, c)' <=> Counted(q, c))
    BY <1>1, Frame DEF TypeOK, SameLocals, Counted
  <2>2. /\ Admissions(c) = {q \in Proc : Counted(q, c)}
        /\ Admissions(c)' = {q \in Proc : Counted(q, c)'}
    BY DEF Admissions, Counted
  <2>3. /\ IsFiniteSet(Admissions(c)) /\ activities[c] = Cardinality(Admissions(c))
        /\ activities \in [Commander -> Nat]
    BY <1>1 DEF ActivityInv, TypeOK, CoordTypes
  <2>4. CASE activities'[c] = activities[c] /\ (Counted(p, c)' <=> Counted(p, c))
    <3>1. Admissions(c)' = Admissions(c)
      BY <2>1, <2>2, <2>4
    <3>2. QED
      BY <2>3, <2>4, <3>1
  <2>5. CASE activities'[c] = activities[c] + 1 /\ ~Counted(p, c) /\ Counted(p, c)'
    <3>1. Admissions(c)' = Admissions(c) \cup {p} /\ p \notin Admissions(c)
      BY <2>1, <2>2, <2>5
    <3>2. QED
      BY <2>3, <2>5, <3>1, FS_AddElement
  <2>6. CASE /\ activities'[c] = IF activities[c] > 0 THEN activities[c] - 1 ELSE 0
             /\ Counted(p, c) /\ ~Counted(p, c)'
    <3>1. Admissions(c)' = Admissions(c) \ {p} /\ p \in Admissions(c)
      BY <2>1, <2>2, <2>6
    <3>2. /\ IsFiniteSet(Admissions(c) \ {p})
          /\ Cardinality(Admissions(c) \ {p}) = Cardinality(Admissions(c)) - 1
          /\ Cardinality(Admissions(c) \ {p}) \in Nat
      BY <2>3, <3>1, FS_RemoveElement, FS_CardinalityType
    <3>3. activities[c] \in Nat /\ activities[c] > 0
      BY <2>3, <3>2
    <3>4. QED
      BY <2>3, <2>6, <3>1, <3>2, <3>3
  <2>7. CountersKept(p) \/ Admitted(p) \/ Completed(p)
    BY <1>1, CountersStep
  <2>8. CASE CountersKept(p)
    BY <2>4, <2>8 DEF CountersKept
  <2>9. CASE Admitted(p)
    BY <2>3, <2>4, <2>5, <2>9 DEF Admitted
  <2>10. CASE Completed(p)
    BY <2>3, <2>4, <2>6, <2>10 DEF Completed
  <2>11. QED
    BY <2>7, <2>8, <2>9, <2>10
<1>2. ASSUME ActivityInv, UNCHANGED vars PROVE ActivityInv'
  <2>1. \A c \in Commander : Admissions(c)' = Admissions(c)
    BY <1>2 DEF Admissions, vars
  <2>2. QED
    BY <1>2, <2>1 DEF ActivityInv, vars
<1>3. QED
  BY <1>1, <1>2 DEF ActivityInv, Next

\* Every step keeps the cleanup state and the leases in agreement.
LEMMA LeaseStep ==
  TypeOK /\ KindInv /\ OrderInv /\ HeadInv /\ LeaseInv /\ FreshInv /\ [Next]_vars => LeaseInv'
<1>1. ASSUME TypeOK, KindInv, OrderInv, HeadInv, LeaseInv, FreshInv,
             NEW p \in Proc, Request(p) \/ Step(p)
      PROVE  LeaseInv'
  <2> USE <1>1
  <2>1. CleanupKept(p) \/ LeaseOpened(p) \/ LeaseClosed(p)
    BY CleanupStep
  <2>2. CountersKept(p) \/ Admitted(p) \/ Completed(p)
    BY CountersStep
  <2>3. \A q \in Proc : q # p => (LeasedP(q)' <=> LeasedP(q)) /\ com'[q] = com[q]
    BY Frame DEF TypeOK, SameLocals, LeasedP
  <2>4. ASSUME NEW q \in Proc, LeasedP(q)' PROVE cleanupState'[com'[q]] = "active"
    <3>1. CASE q = p
      BY <2>1, <2>4, <3>1 DEF CleanupKept, LeaseOpened, LeaseClosed, LeaseInv, TypeOK,
         CoordTypes
    <3>2. CASE q # p
      <4>1. PICK c \in Commander : c = com[q] /\ com'[q] = c /\ LeasedP(q) /\ cleanupState[c] = "active"
        BY <2>3, <2>4, <3>2 DEF LeasedP, LeasePcs, KindInv, KindAt, LeaseInv
      <4>2. Holds(q, c)
        BY <4>1 DEF OrderInv, OrderAt, Holds
      <4>3. CASE LeaseClosed(p)
        <5>1. ~Holds(p, c)
          BY <3>2, <4>2 DEF HeadInv, IsHead
        <5>2. QED
          BY <4>1, <4>3, <5>1 DEF LeaseClosed, TypeOK, CoordTypes
      <4>4. CASE CleanupKept(p) \/ LeaseOpened(p)
        BY <4>1, <4>4 DEF CleanupKept, LeaseOpened, TypeOK, CoordTypes
      <4>5. QED
        BY <2>1, <4>3, <4>4
    <3>3. QED
      BY <3>1, <3>2
  <2>5. ASSUME NEW c \in Commander PROVE version'[c] = 0 => activities'[c] = 0
    BY <2>2, CountersFacts DEF LeaseInv, TypeOK, CoordTypes
  <2>6. ASSUME NEW c \in Commander, cleanupState'[c] = "active" PROVE activities'[c] = 0
    <3>1. CASE CleanupKept(p)
      <4>1. cleanupState[c] = "active" /\ activities[c] = 0 /\ ~Accepts(c)
        BY <2>6, <3>1 DEF CleanupKept, LeaseInv, Accepts
      <4>2. QED
        BY <2>2, <4>1, CountersFacts
    <3>2. CASE LeaseOpened(p)
      BY <2>6, <3>2 DEF LeaseOpened, LeaseInv, TypeOK, CoordTypes
    <3>3. CASE LeaseClosed(p)
      BY <2>6, <3>3 DEF LeaseClosed, LeaseInv, TypeOK, CoordTypes
    <3>4. QED
      BY <2>1, <3>1, <3>2, <3>3
  <2>7. ASSUME NEW c \in Commander, cleanupState'[c] = "active"
        PROVE  \E q \in Proc : LeasedP(q)' /\ com'[q] = c
    <3>1. CASE cleanupState[c] = "active"
      <4>1. PICK q \in Proc : LeasedP(q) /\ com[q] = c
        BY <3>1 DEF LeaseInv
      <4>2. CASE q # p
        BY <2>3, <4>1, <4>2
      <4>3. CASE q = p
        BY <2>1, <2>7, <4>1, <4>3 DEF CleanupKept, LeaseOpened, LeaseClosed, TypeOK, CoordTypes
      <4>4. QED
        BY <4>2, <4>3
    <3>2. CASE cleanupState[c] # "active"
      <4>1. LeaseOpened(p)
        BY <2>1, <2>7, <3>2 DEF CleanupKept, LeaseClosed, TypeOK, CoordTypes
      <4>2. QED
        BY <2>7, <3>2, <4>1 DEF LeaseOpened, TypeOK, CoordTypes
    <3>3. QED
      BY <3>1, <3>2
  <2>8. QED
    BY <2>4, <2>5, <2>6, <2>7 DEF LeaseInv, LeasedP
<1>2. ASSUME LeaseInv, UNCHANGED vars PROVE LeaseInv'
  BY <1>2 DEF LeaseInv, LeasedP, vars
<1>3. QED
  BY <1>1, <1>2 DEF Next

\* A request that is locking after its step holds only locks of commanders that
\* accept writes, and its step left the cleanup states alone.
LockingStays(p) ==
  LockingP(p)' =>
    UNCHANGED cleanupState /\ \A c \in Commander : Holds(p, c)' => Accepts(c)

\* A request comes to hold the lock of a write only where writes are accepted.
LEMMA LockingStep ==
  ASSUME TypeOK, OrderInv, AcceptInv, NEW p \in Proc, Request(p) \/ Step(p)
  PROVE  LockingStays(p)
<1> USE DEF TypeOK
<1>1. ASSUME NEW k \in Automation, NEW d \in Parent, StartWrite(p, k, d) PROVE LockingStays(p)
  BY <1>1 DEF LockingStays, StartWrite, AcquireAll, Start, Goto, Holds, LockingP, coord,
     write, RequestTypes, OrderInv, OrderAt, LooseP
<1>2. ASSUME NEW c \in Commander, StartLaunch(p, c) PROVE LockingStays(p)
  BY <1>2 DEF LockingStays, StartLaunch, AwaitLock, Start, Goto, Holds, LockingP, coord,
     write, RequestTypes, OrderInv, OrderAt, LooseP
<1>3. ASSUME NEW c \in Commander, StartDelete(p, c) PROVE LockingStays(p)
  BY <1>3 DEF LockingStays, StartDelete, Start, Goto, Holds, LockingP, coord, write,
     RequestTypes, OrderInv, OrderAt, LooseP
<1>4. ASSUME NEW c \in Commander, StartProvision(p, c) PROVE LockingStays(p)
  BY <1>4 DEF LockingStays, StartProvision, AwaitLock, Start, Goto, Holds, LockingP, coord,
     write, RequestTypes, OrderInv, OrderAt, LooseP
<1>5. CASE GrantLock(p)
  <2>1. /\ got' = [got EXCEPT ![p] = @ + 1]
        /\ order' = order /\ cleanupState' = cleanupState
        /\ LockingP(p) /\ Accepts(order[p][got[p] + 1])
    BY <1>5 DEF GrantLock, LockingP
  <2>2. ASSUME NEW c \in Commander, Holds(p, c)' PROVE Accepts(c)
    <3>1. got'[p] = got[p] + 1
      BY <2>1 DEF RequestTypes
    <3>2. Holds(p, c) \/ order[p][got[p] + 1] = c
      BY <2>1, <2>2, <3>1 DEF Holds, RequestTypes, OrderInv, OrderAt
    <3>3. QED
      BY <2>1, <3>2 DEF AcceptInv
  <2>3. QED
    BY <2>1, <2>2 DEF LockingStays
<1>6. CASE RefuseLock(p)
  BY <1>6 DEF LockingStays, RefuseLock, Goto, Holds, LockingP, coord, write, RequestTypes,
     OrderInv, OrderAt, LooseP
<1>7. CASE Unwind(p)
  BY <1>7 DEF LockingStays, Unwind, Holds, LockingP, coord, write, RequestTypes, OrderInv,
     OrderAt, LooseP
<1>8. CASE WriteAutomation(p)
  BY <1>8 DEF LockingStays, WriteAutomation, Goto, Holds, LockingP, coord, write,
     RequestTypes, OrderInv, OrderAt, LooseP
<1>9. CASE ReturnWrite(p)
  BY <1>9 DEF LockingStays, ReturnWrite, Goto, Finish, Holds, LockingP, coord, write,
     RequestTypes, OrderInv, OrderAt, LooseP
<1>10. CASE ObserveAgain(p)
  BY <1>10 DEF LockingStays, ObserveAgain, Goto, Finish, AcquireAll, Holds, LockingP, coord,
     write, RequestTypes, OrderInv, OrderAt, LooseP
<1>11. CASE Admit(p)
  BY <1>11 DEF LockingStays, Admit, Goto, Finish, Holds, LockingP, coord, write,
     RequestTypes, OrderInv, OrderAt, LooseP
<1>12. CASE RunLaunch(p)
  BY <1>12 DEF LockingStays, RunLaunch, Goto, AwaitLock, AcquireAll, Holds, LockingP, coord,
     write, RequestTypes, OrderInv, OrderAt, LooseP
<1>13. CASE ActivateConversation(p)
  BY <1>13 DEF LockingStays, ActivateConversation, Goto, Holds, LockingP, coord, write,
     RequestTypes, OrderInv, OrderAt, LooseP
<1>14. CASE ReturnLaunch(p)
  BY <1>14 DEF LockingStays, ReturnLaunch, Goto, AwaitLock, Holds, LockingP, coord, write,
     RequestTypes, OrderInv, OrderAt, LooseP
<1>15. CASE CompleteActivity(p)
  BY <1>15 DEF LockingStays, CompleteActivity, Goto, Finish, Holds, LockingP, coord, write,
     RequestTypes, OrderInv, OrderAt, LooseP
<1>16. CASE Survey(p)
  BY <1>16 DEF LockingStays, Survey, Goto, Finish, AcquireAll, Capture, Holds, LockingP,
     coord, write, RequestTypes, OrderInv, OrderAt, LooseP
<1>17. CASE ArchiveConversation(p)
  BY <1>17 DEF LockingStays, ArchiveConversation, Goto, Holds, LockingP, coord, write,
     RequestTypes, OrderInv, OrderAt, LooseP
<1>18. CASE ReturnArchive(p)
  BY <1>18 DEF LockingStays, ReturnArchive, Goto, Finish, Capture, Holds, LockingP, coord,
     write, RequestTypes, OrderInv, OrderAt, LooseP
<1>19. CASE Sweep(p)
  BY <1>19 DEF LockingStays, Sweep, Goto, Finish, NextAttempt, SurveyAgain, AwaitLock,
     Holds, LockingP, coord, write, RequestTypes, OrderInv, OrderAt, LooseP
<1>20. CASE Reserve(p)
  BY <1>20 DEF LockingStays, Reserve, Goto, NextAttempt, SurveyAgain, Finish, Holds,
     LockingP, coord, write, RequestTypes, OrderInv, OrderAt, LooseP
<1>21. CASE DeleteSession(p)
  BY <1>21 DEF LockingStays, DeleteSession, Goto, Holds, LockingP, coord, write,
     RequestTypes, OrderInv, OrderAt, LooseP
<1>22. CASE DeletionFails(p)
  BY <1>22 DEF LockingStays, DeletionFails, Goto, Holds, LockingP, coord, write,
     RequestTypes, OrderInv, OrderAt, LooseP
<1>23. CASE CloseLease(p)
  BY <1>23 DEF LockingStays, CloseLease, Goto, Finish, Holds, LockingP, coord, write,
     RequestTypes, OrderInv, OrderAt, LooseP
<1>24. CASE Publish(p)
  BY <1>24 DEF LockingStays, Publish, Goto, Finish, Holds, LockingP, coord, write,
     RequestTypes, OrderInv, OrderAt, LooseP
<1>25. CASE CreateSession(p)
  BY <1>25 DEF LockingStays, CreateSession, Holds, LockingP, coord, write, RequestTypes,
     OrderInv, OrderAt, LooseP
<1>26. CASE CreateConversation(p)
  BY <1>26 DEF LockingStays, CreateConversation, Holds, LockingP, coord, write,
     RequestTypes, OrderInv, OrderAt, LooseP
<1>27. CASE EndProvision(p)
  BY <1>27 DEF LockingStays, EndProvision, Goto, Holds, LockingP, coord, write,
     RequestTypes, OrderInv, OrderAt, LooseP
<1>28. CASE RollbackConversation(p)
  BY <1>28 DEF LockingStays, RollbackConversation, Holds, LockingP, coord, write,
     RequestTypes, OrderInv, OrderAt, LooseP
<1>29. ASSUME NEW k \in Automation, DeleteChild(p, k) PROVE LockingStays(p)
  BY <1>29 DEF LockingStays, DeleteChild, Holds, LockingP, coord, write, RequestTypes,
     OrderInv, OrderAt, LooseP
<1>30. ASSUME NEW k \in Automation, SeedAutomation(p, k) PROVE LockingStays(p)
  BY <1>30 DEF LockingStays, SeedAutomation, Holds, LockingP, coord, write, RequestTypes,
     OrderInv, OrderAt, LooseP
<1>31. QED
  BY <1>1, <1>2, <1>3, <1>4, <1>5, <1>6, <1>7, <1>8, <1>9, <1>10, <1>11, <1>12, <1>13,
     <1>14, <1>15, <1>16, <1>17, <1>18, <1>19, <1>20, <1>21, <1>22, <1>23, <1>24, <1>25,
     <1>26, <1>27, <1>28, <1>29, <1>30 DEF Request, Step

\* Every step keeps that a commander locked by a write accepts writes.
LEMMA AcceptStep ==
  TypeOK /\ KindInv /\ OrderInv /\ HeadInv /\ FreshInv /\ AcceptInv /\ [Next]_vars => AcceptInv'
<1>1. ASSUME TypeOK, KindInv, OrderInv, HeadInv, FreshInv, AcceptInv,
             NEW p \in Proc, Request(p) \/ Step(p),
             NEW q \in Proc, NEW c \in Commander, LockingP(q)', Holds(q, c)'
      PROVE  Accepts(c)'
  <2>1. CASE q = p
    BY <1>1, <2>1, LockingStep DEF LockingStays, Accepts
  <2>2. CASE q # p
    <3>1. LockingP(q) /\ Holds(q, c)
      BY <1>1, <2>2, Frame DEF TypeOK, SameLocals, LockingP, Holds
    <3>2. Accepts(c) /\ ~IsHead(p, c) /\ ~Holds(p, c)
      BY <1>1, <2>2, <3>1 DEF AcceptInv, HeadInv, IsHead
    <3>3. cleanupState'[c] = cleanupState[c]
      BY <1>1, <3>2, CleanupStep
         DEF CleanupKept, LeaseOpened, LeaseClosed, TypeOK, CoordTypes
    <3>4. QED
      BY <3>2, <3>3 DEF Accepts
  <2>3. QED
    BY <2>1, <2>2
<1>2. ASSUME AcceptInv, UNCHANGED vars PROVE AcceptInv'
  BY <1>2 DEF AcceptInv, LockingP, Holds, Accepts, vars
<1>3. QED
  BY <1>1, <1>2 DEF AcceptInv, Next

-----------------------------------------------------------------------------
(***************************************************************************)
(* An id that is not published yet                                         *)
(***************************************************************************)

StaysFresh(p, c) == ~session'[c] /\ (com'[p] = c => pc'[p] = "survey")

\* A commander id not yet published stays unknown to every other request.
LEMMA StaysFreshStep ==
  ASSUME TypeOK, NEW p \in Proc, NEW q \in Proc, q # p, Request(p) \/ Step(p),
         NEW c \in Commander, com[q] = c, ~session[c], com[p] = c => pc[p] = "survey"
  PROVE  StaysFresh(p, c)
<1> USE LifecycleAssumption DEF TypeOK
<1>1. ASSUME NEW k \in Automation, NEW d \in Parent, StartWrite(p, k, d) PROVE StaysFresh(p, c)
  BY <1>1 DEF StaysFresh, StartWrite, AcquireAll, Start, Goto, coord, tree, write,
     RequestTypes, TreeTypes
<1>2. ASSUME NEW d \in Commander, StartLaunch(p, d) PROVE StaysFresh(p, c)
  BY <1>2 DEF StaysFresh, StartLaunch, AwaitLock, Start, Goto, coord, tree, write,
     RequestTypes, TreeTypes
<1>3. ASSUME NEW d \in Commander, StartDelete(p, d) PROVE StaysFresh(p, c)
  BY <1>3 DEF StaysFresh, StartDelete, Start, Goto, coord, tree, write, RequestTypes, TreeTypes
<1>4. ASSUME NEW d \in Commander, StartProvision(p, d) PROVE StaysFresh(p, c)
  BY <1>4 DEF StaysFresh, StartProvision, Unused, AwaitLock, Start, Goto, coord, tree,
     write, RequestTypes, TreeTypes
<1>5. CASE GrantLock(p)
  BY <1>5 DEF StaysFresh, GrantLock, Goto, coord, tree, write, RequestTypes, TreeTypes
<1>6. CASE RefuseLock(p)
  BY <1>6 DEF StaysFresh, RefuseLock, Goto, coord, tree, write, RequestTypes, TreeTypes
<1>7. CASE Unwind(p)
  BY <1>7 DEF StaysFresh, Unwind, coord, tree, write, RequestTypes, TreeTypes
<1>8. CASE WriteAutomation(p)
  BY <1>8 DEF StaysFresh, WriteAutomation, Goto, coord, tree, write, RequestTypes, TreeTypes
<1>9. CASE ReturnWrite(p)
  BY <1>9 DEF StaysFresh, ReturnWrite, Goto, Finish, coord, tree, write, RequestTypes,
     TreeTypes
<1>10. CASE ObserveAgain(p)
  BY <1>10 DEF StaysFresh, ObserveAgain, Goto, Finish, AcquireAll, coord, tree, write,
     RequestTypes, TreeTypes
<1>11. CASE Admit(p)
  BY <1>11 DEF StaysFresh, Admit, Goto, Finish, coord, tree, write, RequestTypes, TreeTypes
<1>12. CASE RunLaunch(p)
  BY <1>12 DEF StaysFresh, RunLaunch, Goto, AwaitLock, AcquireAll, coord, tree, write,
     RequestTypes, TreeTypes
<1>13. CASE ActivateConversation(p)
  BY <1>13 DEF StaysFresh, ActivateConversation, Goto, coord, tree, write, RequestTypes,
     TreeTypes
<1>14. CASE ReturnLaunch(p)
  BY <1>14 DEF StaysFresh, ReturnLaunch, Goto, AwaitLock, coord, tree, write, RequestTypes,
     TreeTypes
<1>15. CASE CompleteActivity(p)
  BY <1>15 DEF StaysFresh, CompleteActivity, Goto, Finish, coord, tree, write, RequestTypes,
     TreeTypes
<1>16. CASE Survey(p)
  BY <1>16 DEF StaysFresh, Survey, Goto, Finish, AcquireAll, Capture, coord, tree, write,
     RequestTypes, TreeTypes
<1>17. CASE ArchiveConversation(p)
  BY <1>17 DEF StaysFresh, ArchiveConversation, Goto, coord, tree, write, RequestTypes,
     TreeTypes
<1>18. CASE ReturnArchive(p)
  BY <1>18 DEF StaysFresh, ReturnArchive, Goto, Finish, Capture, coord, tree, write,
     RequestTypes, TreeTypes
<1>19. CASE Sweep(p)
  BY <1>19 DEF StaysFresh, Sweep, Goto, Finish, NextAttempt, SurveyAgain, AwaitLock, coord,
     tree, write, RequestTypes, TreeTypes
<1>20. CASE Reserve(p)
  BY <1>20 DEF StaysFresh, Reserve, Goto, NextAttempt, SurveyAgain, Finish, coord, tree,
     write, RequestTypes, TreeTypes
<1>21. CASE DeleteSession(p)
  BY <1>21 DEF StaysFresh, DeleteSession, Goto, coord, tree, write, RequestTypes, TreeTypes
<1>22. CASE DeletionFails(p)
  BY <1>22 DEF StaysFresh, DeletionFails, Goto, coord, tree, write, RequestTypes, TreeTypes
<1>23. CASE CloseLease(p)
  BY <1>23 DEF StaysFresh, CloseLease, Goto, Finish, coord, tree, write, RequestTypes,
     TreeTypes
<1>24. CASE Publish(p)
  BY <1>24 DEF StaysFresh, Publish, Goto, Finish, coord, tree, write, RequestTypes, TreeTypes
<1>25. CASE CreateSession(p)
  BY <1>25 DEF StaysFresh, CreateSession, coord, tree, write, RequestTypes, TreeTypes
<1>26. CASE CreateConversation(p)
  BY <1>26 DEF StaysFresh, CreateConversation, coord, tree, write, RequestTypes, TreeTypes
<1>27. CASE EndProvision(p)
  BY <1>27 DEF StaysFresh, EndProvision, Goto, coord, tree, write, RequestTypes, TreeTypes
<1>28. CASE RollbackConversation(p)
  BY <1>28 DEF StaysFresh, RollbackConversation, coord, tree, write, RequestTypes, TreeTypes
<1>29. ASSUME NEW k \in Automation, DeleteChild(p, k) PROVE StaysFresh(p, c)
  BY <1>29 DEF StaysFresh, DeleteChild, coord, tree, write, RequestTypes, TreeTypes
<1>30. ASSUME NEW k \in Automation, SeedAutomation(p, k) PROVE StaysFresh(p, c)
  BY <1>30 DEF StaysFresh, SeedAutomation, coord, tree, write, RequestTypes, TreeTypes
<1>31. QED
  BY <1>1, <1>2, <1>3, <1>4, <1>5, <1>6, <1>7, <1>8, <1>9, <1>10, <1>11, <1>12, <1>13,
     <1>14, <1>15, <1>16, <1>17, <1>18, <1>19, <1>20, <1>21, <1>22, <1>23, <1>24, <1>25,
     <1>26, <1>27, <1>28, <1>29, <1>30 DEF Request, Step

\* Only the start of a provisioning leads to its publication.
Publishes(p) == pc'[p] = "publish" => \E c \in Commander : StartProvision(p, c)

\* A request comes to publish only an id nobody has named.
LEMMA PublishStep ==
  ASSUME TypeOK, NEW p \in Proc, Request(p) \/ Step(p)
  PROVE  Publishes(p)
<1> USE DEF TypeOK
<1>1. ASSUME NEW k \in Automation, NEW d \in Parent, StartWrite(p, k, d) PROVE Publishes(p)
  BY <1>1 DEF Publishes, StartWrite, AcquireAll, Start, Goto, RequestTypes
<1>2. ASSUME NEW c \in Commander, StartLaunch(p, c) PROVE Publishes(p)
  BY <1>2 DEF Publishes, StartLaunch, AwaitLock, Start, Goto, RequestTypes
<1>3. ASSUME NEW c \in Commander, StartDelete(p, c) PROVE Publishes(p)
  BY <1>3 DEF Publishes, StartDelete, Start, Goto, RequestTypes
<1>4. ASSUME NEW c \in Commander, StartProvision(p, c) PROVE Publishes(p)
  BY <1>4 DEF Publishes
<1>5. CASE GrantLock(p)
  BY <1>5 DEF Publishes, GrantLock, Goto, RequestTypes
<1>6. CASE RefuseLock(p)
  BY <1>6 DEF Publishes, RefuseLock, Goto, RequestTypes
<1>7. CASE Unwind(p)
  BY <1>7 DEF Publishes, Unwind, RequestTypes
<1>8. CASE WriteAutomation(p)
  BY <1>8 DEF Publishes, WriteAutomation, Goto, RequestTypes
<1>9. CASE ReturnWrite(p)
  BY <1>9 DEF Publishes, ReturnWrite, Goto, Finish, RequestTypes
<1>10. CASE ObserveAgain(p)
  BY <1>10 DEF Publishes, ObserveAgain, Goto, Finish, AcquireAll, RequestTypes
<1>11. CASE Admit(p)
  BY <1>11 DEF Publishes, Admit, Goto, Finish, RequestTypes
<1>12. CASE RunLaunch(p)
  BY <1>12 DEF Publishes, RunLaunch, Goto, AwaitLock, AcquireAll, RequestTypes
<1>13. CASE ActivateConversation(p)
  BY <1>13 DEF Publishes, ActivateConversation, Goto, RequestTypes
<1>14. CASE ReturnLaunch(p)
  BY <1>14 DEF Publishes, ReturnLaunch, Goto, AwaitLock, RequestTypes
<1>15. CASE CompleteActivity(p)
  BY <1>15 DEF Publishes, CompleteActivity, Goto, Finish, RequestTypes
<1>16. CASE Survey(p)
  BY <1>16 DEF Publishes, Survey, Goto, Finish, AcquireAll, Capture, RequestTypes
<1>17. CASE ArchiveConversation(p)
  BY <1>17 DEF Publishes, ArchiveConversation, Goto, RequestTypes
<1>18. CASE ReturnArchive(p)
  BY <1>18 DEF Publishes, ReturnArchive, Goto, Finish, Capture, RequestTypes
<1>19. CASE Sweep(p)
  BY <1>19 DEF Publishes, Sweep, Goto, Finish, NextAttempt, SurveyAgain, AwaitLock,
     RequestTypes
<1>20. CASE Reserve(p)
  BY <1>20 DEF Publishes, Reserve, Goto, NextAttempt, SurveyAgain, Finish, RequestTypes
<1>21. CASE DeleteSession(p)
  BY <1>21 DEF Publishes, DeleteSession, Goto, RequestTypes
<1>22. CASE DeletionFails(p)
  BY <1>22 DEF Publishes, DeletionFails, Goto, RequestTypes
<1>23. CASE CloseLease(p)
  BY <1>23 DEF Publishes, CloseLease, Goto, Finish, RequestTypes
<1>24. CASE Publish(p)
  BY <1>24 DEF Publishes, Publish, Goto, Finish, RequestTypes
<1>25. CASE CreateSession(p)
  BY <1>25 DEF Publishes, CreateSession, RequestTypes
<1>26. CASE CreateConversation(p)
  BY <1>26 DEF Publishes, CreateConversation, RequestTypes
<1>27. CASE EndProvision(p)
  BY <1>27 DEF Publishes, EndProvision, Goto, RequestTypes
<1>28. CASE RollbackConversation(p)
  BY <1>28 DEF Publishes, RollbackConversation, RequestTypes
<1>29. ASSUME NEW k \in Automation, DeleteChild(p, k) PROVE Publishes(p)
  BY <1>29 DEF Publishes, DeleteChild, RequestTypes
<1>30. ASSUME NEW k \in Automation, SeedAutomation(p, k) PROVE Publishes(p)
  BY <1>30 DEF Publishes, SeedAutomation, RequestTypes
<1>31. QED
  BY <1>1, <1>2, <1>3, <1>4, <1>5, <1>6, <1>7, <1>8, <1>9, <1>10, <1>11, <1>12, <1>13,
     <1>14, <1>15, <1>16, <1>17, <1>18, <1>19, <1>20, <1>21, <1>22, <1>23, <1>24, <1>25,
     <1>26, <1>27, <1>28, <1>29, <1>30 DEF Request, Step

\* Every step keeps that nobody else knows an id not yet published.
LEMMA FreshStep ==
  TypeOK /\ KindInv /\ OrderInv /\ LeaseInv /\ FreshInv /\ [Next]_vars => FreshInv'
<1>1. ASSUME TypeOK, KindInv, OrderInv, LeaseInv, FreshInv, NEW p \in Proc,
             Request(p) \/ Step(p), NEW q \in Proc, pc'[q] = "publish", q # p
      PROVE  /\ ~session'[com'[q]]
             /\ activities'[com'[q]] = 0
             /\ \A r \in Proc : r # q /\ com'[r] = com'[q] => pc'[r] = "survey"
  <2>1. PICK c \in Commander : c = com[q] /\ com'[q] = c /\ pc[q] = "publish"
    BY <1>1, Frame DEF TypeOK, SameLocals, KindInv, KindAt
  <2>2. ~session[c] /\ activities[c] = 0 /\ \A r \in Proc : r # q /\ com[r] = c => pc[r] = "survey"
    BY <1>1, <2>1 DEF FreshInv
  <2>3. StaysFresh(p, c)
    BY <1>1, <2>1, <2>2, StaysFreshStep
  <2>4. activities'[c] = 0
    BY <1>1, <2>2, CountersStep, CountersFacts DEF Admitted
  <2>5. \A r \in Proc : r # q /\ com'[r] = c => pc'[r] = "survey"
    BY <1>1, <2>2, <2>3, Frame DEF TypeOK, SameLocals, StaysFresh
  <2>6. QED
    BY <2>1, <2>3, <2>4, <2>5 DEF StaysFresh
<1>2. ASSUME TypeOK, LeaseInv, FreshInv, NEW p \in Proc, NEW c \in Commander, StartProvision(p, c)
      PROVE  /\ ~session'[com'[p]]
             /\ activities'[com'[p]] = 0
             /\ \A r \in Proc : r # p /\ com'[r] = com'[p] => pc'[r] = "survey"
  BY <1>2 DEF StartProvision, Unused, LeaseInv, TypeOK, RequestTypes, tree
<1>3. ASSUME TypeOK, NEW p \in Proc, Request(p) \/ Step(p), pc'[p] = "publish"
      PROVE  \E c \in Commander : StartProvision(p, c)
  BY <1>3, PublishStep DEF Publishes
<1>4. ASSUME FreshInv, UNCHANGED vars PROVE FreshInv'
  BY <1>4 DEF FreshInv, vars
<1>5. QED
  BY <1>1, <1>2, <1>3, <1>4 DEF FreshInv, Next

-----------------------------------------------------------------------------
(***************************************************************************)
(* What can come to be below a commander, and by whom                      *)
(***************************************************************************)

Grows(c)      == (conv'[c] /\ ~conv[c]) \/ ~(Children(c)' \subseteq Children(c))
Appears(c)    == session'[c] /\ ~session[c]
Writing(p, c) ==
  pc[p] = "write" /\ Holds(p, c) /\ (Pending(p, c)' \/ Returning(p, c)')
Seeding(p, c) ==
  /\ pc[p] = "provisioning" /\ com[p] = c /\ kind'[p] = kind[p]
  /\ pc'[p] = "provisioning" /\ com'[p] = c

GrowsOnly(p, c) ==
  /\ Grows(c) => Writing(p, c) \/ Seeding(p, c)
  /\ Appears(c) => Seeding(p, c)

\* Something appears below c only by a write that holds the lock of c and will
\* advance its generation or is a counted launch, or by the provisioning of c.
LEMMA GrowStep ==
  ASSUME TypeOK, OrderInv, NEW p \in Proc, Request(p) \/ Step(p), NEW c \in Commander
  PROVE  GrowsOnly(p, c)
<1> USE DEF TypeOK
<1>1. ASSUME NEW k \in Automation, NEW d \in Parent, StartWrite(p, k, d) PROVE GrowsOnly(p, c)
  BY <1>1 DEF GrowsOnly, Grows, Appears, StartWrite, Children, tree
<1>2. ASSUME NEW d \in Commander, StartLaunch(p, d) PROVE GrowsOnly(p, c)
  BY <1>2 DEF GrowsOnly, Grows, Appears, StartLaunch, Children, tree
<1>3. ASSUME NEW d \in Commander, StartDelete(p, d) PROVE GrowsOnly(p, c)
  BY <1>3 DEF GrowsOnly, Grows, Appears, StartDelete, Children, tree
<1>4. ASSUME NEW d \in Commander, StartProvision(p, d) PROVE GrowsOnly(p, c)
  BY <1>4 DEF GrowsOnly, Grows, Appears, StartProvision, Children, tree
<1>5. CASE GrantLock(p)
  BY <1>5 DEF GrowsOnly, Grows, Appears, GrantLock, Children, tree
<1>6. CASE RefuseLock(p)
  BY <1>6 DEF GrowsOnly, Grows, Appears, RefuseLock, Children, tree
<1>7. CASE Unwind(p)
  BY <1>7 DEF GrowsOnly, Grows, Appears, Unwind, Children, tree
<1>8. CASE WriteAutomation(p)
  <2>1. conv' = conv /\ session' = session
    BY <1>8 DEF WriteAutomation
  <2>2. CASE UNCHANGED owner
    BY <2>1, <2>2 DEF GrowsOnly, Grows, Appears, Children
  <2>3. CASE /\ owner' = [owner EXCEPT ![item[p]] = dest[p]]
             /\ outcome' = [outcome EXCEPT ![p] = "commit"]
    <3>1. dest[p] # c => ~Grows(c)
      BY <2>1, <2>3, LifecycleAssumption DEF Grows, Children, TreeTypes
    <3>2. dest[p] = c => Holds(p, c)
      <4>1. SUFFICES ASSUME dest[p] = c PROVE Holds(p, c)
        OBVIOUS
      <4>2. order[p] = LockOrder(from[p], dest[p]) /\ got[p] = Len(order[p])
        BY <1>8 DEF WriteAutomation, OrderInv, OrderAt, LockingP
      <4>3. \E i \in 1..Len(order[p]) : order[p][i] = c
        BY <4>1, <4>2, LockOrderFacts DEF RequestTypes
      <4>4. QED
        BY <4>2, <4>3 DEF Holds
    <3>3. pc[p] = "write" /\ pc'[p] = "unwind" /\ outcome'[p] = "commit"
            /\ order' = order /\ got' = got
      BY <1>8, <2>3 DEF WriteAutomation, Goto, RequestTypes
    <3>4. Holds(p, c) => Writing(p, c)
      BY <3>3 DEF Writing, Pending, Holds
    <3>5. QED
      BY <2>1, <3>1, <3>2, <3>4 DEF GrowsOnly, Appears
  <2>4. QED
    BY <1>8, <2>2, <2>3 DEF WriteAutomation
<1>9. CASE ReturnWrite(p)
  BY <1>9 DEF GrowsOnly, Grows, Appears, ReturnWrite, Children, tree
<1>10. CASE ObserveAgain(p)
  BY <1>10 DEF GrowsOnly, Grows, Appears, ObserveAgain, Children, tree
<1>11. CASE Admit(p)
  BY <1>11 DEF GrowsOnly, Grows, Appears, Admit, Children, tree
<1>12. CASE RunLaunch(p)
  BY <1>12 DEF GrowsOnly, Grows, Appears, RunLaunch, Children, tree
<1>13. CASE ActivateConversation(p)
  <2>1. owner' = owner /\ session' = session
    BY <1>13 DEF ActivateConversation
  <2>2. CASE UNCHANGED conv
    BY <2>1, <2>2 DEF GrowsOnly, Grows, Appears, Children
  <2>3. CASE conv' = [conv EXCEPT ![com[p]] = TRUE]
    <3>1. com[p] # c => ~Grows(c)
      BY <2>1, <2>3 DEF Grows, Children, TreeTypes
    <3>2. com[p] = c => Holds(p, c)
      <4>1. pc[p] = "write" /\ kind[p] = "launch"
        BY <1>13 DEF ActivateConversation
      <4>2. order[p] = <<com[p]>> /\ got[p] = Len(order[p])
        BY <4>1 DEF OrderInv, OrderAt, LockingP, Writes
      <4>3. got[p] = 1 /\ order[p][1] = com[p]
        BY <4>2
      <4>4. QED
        BY <4>3 DEF Holds
    <3>3. pc[p] = "write" /\ pc'[p] = "unwind" /\ kind'[p] = "launch" /\ com' = com
      BY <1>13 DEF ActivateConversation, Goto, RequestTypes
    <3>4. com[p] = c /\ Holds(p, c) => Writing(p, c)
      BY <3>3 DEF Writing, Returning
    <3>5. QED
      BY <2>1, <3>1, <3>2, <3>4 DEF GrowsOnly, Appears
  <2>4. QED
    BY <1>13, <2>2, <2>3 DEF ActivateConversation
<1>14. CASE ReturnLaunch(p)
  BY <1>14 DEF GrowsOnly, Grows, Appears, ReturnLaunch, Children, tree
<1>15. CASE CompleteActivity(p)
  BY <1>15 DEF GrowsOnly, Grows, Appears, CompleteActivity, Children, tree
<1>16. CASE Survey(p)
  BY <1>16 DEF GrowsOnly, Grows, Appears, Survey, Children, tree
<1>17. CASE ArchiveConversation(p)
  BY <1>17 DEF GrowsOnly, Grows, Appears, ArchiveConversation, Children, TreeTypes
<1>18. CASE ReturnArchive(p)
  BY <1>18 DEF GrowsOnly, Grows, Appears, ReturnArchive, Children, tree
<1>19. CASE Sweep(p)
  BY <1>19 DEF GrowsOnly, Grows, Appears, Sweep, Children, tree
<1>20. CASE Reserve(p)
  BY <1>20 DEF GrowsOnly, Grows, Appears, Reserve, Children, tree
<1>21. CASE DeleteSession(p)
  BY <1>21 DEF GrowsOnly, Grows, Appears, DeleteSession, Children, TreeTypes
<1>22. CASE DeletionFails(p)
  BY <1>22 DEF GrowsOnly, Grows, Appears, DeletionFails, Children, tree
<1>23. CASE CloseLease(p)
  BY <1>23 DEF GrowsOnly, Grows, Appears, CloseLease, Children, tree
<1>24. CASE Publish(p)
  BY <1>24 DEF GrowsOnly, Grows, Appears, Publish, Children, tree
<1>25. CASE CreateSession(p)
  BY <1>25 DEF GrowsOnly, Grows, Appears, Seeding, CreateSession, Children, TreeTypes
<1>26. CASE CreateConversation(p)
  BY <1>26 DEF GrowsOnly, Grows, Appears, Seeding, CreateConversation, Children, TreeTypes
<1>27. CASE EndProvision(p)
  BY <1>27 DEF GrowsOnly, Grows, Appears, EndProvision, Children, tree
<1>28. CASE RollbackConversation(p)
  BY <1>28 DEF GrowsOnly, Grows, Appears, RollbackConversation, Children, TreeTypes
<1>29. ASSUME NEW k \in Automation, DeleteChild(p, k) PROVE GrowsOnly(p, c)
  BY <1>29, LifecycleAssumption DEF GrowsOnly, Grows, Appears, DeleteChild, Children, TreeTypes
<1>30. ASSUME NEW k \in Automation, SeedAutomation(p, k) PROVE GrowsOnly(p, c)
  BY <1>30, LifecycleAssumption
     DEF GrowsOnly, Grows, Appears, Seeding, SeedAutomation, Children, TreeTypes
<1>31. QED
  BY <1>1, <1>2, <1>3, <1>4, <1>5, <1>6, <1>7, <1>8, <1>9, <1>10, <1>11, <1>12, <1>13,
     <1>14, <1>15, <1>16, <1>17, <1>18, <1>19, <1>20, <1>21, <1>22, <1>23, <1>24, <1>25,
     <1>26, <1>27, <1>28, <1>29, <1>30 DEF Request, Step

-----------------------------------------------------------------------------
(***************************************************************************)
(* The observation of a deletion                                           *)
(***************************************************************************)

PendingEnds(p, c) == Pending(p, c) => Pending(p, c)' \/ version'[c] > version[c]

\* A write that returned advances the generation before it lets go of the lock.
LEMMA PendingStep ==
  ASSUME TypeOK, OrderInv, NEW p \in Proc, Request(p) \/ Step(p), NEW c \in Commander
  PROVE  PendingEnds(p, c)
<1> USE DEF TypeOK
<1>1. ASSUME NEW k \in Automation, NEW d \in Parent, StartWrite(p, k, d) PROVE PendingEnds(p, c)
  BY <1>1 DEF PendingEnds, Pending, StartWrite, Holds, Start
<1>2. ASSUME NEW d \in Commander, StartLaunch(p, d) PROVE PendingEnds(p, c)
  BY <1>2 DEF PendingEnds, Pending, StartLaunch, Holds, Start
<1>3. ASSUME NEW d \in Commander, StartDelete(p, d) PROVE PendingEnds(p, c)
  BY <1>3 DEF PendingEnds, Pending, StartDelete, Holds, Start
<1>4. ASSUME NEW d \in Commander, StartProvision(p, d) PROVE PendingEnds(p, c)
  BY <1>4 DEF PendingEnds, Pending, StartProvision, Holds, Start
<1>5. CASE GrantLock(p)
  BY <1>5 DEF PendingEnds, Pending, GrantLock, Holds, Start
<1>6. CASE RefuseLock(p)
  BY <1>6 DEF PendingEnds, Pending, RefuseLock, Holds, Start
<1>7. CASE Unwind(p)
  <2>1. SUFFICES ASSUME Pending(p, c) PROVE Pending(p, c)' \/ version'[c] > version[c]
    BY DEF PendingEnds
  <2>2. PICK i \in 1..got[p] : order[p][i] = c
    BY <2>1 DEF Pending, Holds
  <2>3. got[p] \in Nat /\ got[p] > 0
    BY <1>7 DEF Unwind, RequestTypes
  <2>4. CASE i = got[p]
    <3>1. version' = Bumped(c)
      BY <1>7, <2>1, <2>2, <2>4 DEF Unwind, Pending
    <3>2. QED
      BY <3>1 DEF Bumped, CoordTypes
  <2>5. CASE i # got[p]
    <3>1. i \in 1..(got[p] - 1)
      BY <2>3, <2>5
    <3>2. got'[p] = got[p] - 1 /\ order' = order /\ pc' = pc /\ outcome' = outcome
      BY <1>7 DEF Unwind, RequestTypes
    <3>3. Holds(p, c)'
      BY <2>2, <3>1, <3>2 DEF Holds
    <3>4. QED
      BY <2>1, <3>2, <3>3 DEF Pending
  <2>6. QED
    BY <2>4, <2>5
<1>8. CASE WriteAutomation(p)
  BY <1>8 DEF PendingEnds, Pending, WriteAutomation, Holds, Start
<1>9. CASE ReturnWrite(p)
  BY <1>9 DEF PendingEnds, Pending, ReturnWrite, Holds, Start
<1>10. CASE ObserveAgain(p)
  BY <1>10 DEF PendingEnds, Pending, ObserveAgain, Holds, Start
<1>11. CASE Admit(p)
  BY <1>11 DEF PendingEnds, Pending, Admit, Holds, Start
<1>12. CASE RunLaunch(p)
  BY <1>12 DEF PendingEnds, Pending, RunLaunch, Holds, Start
<1>13. CASE ActivateConversation(p)
  BY <1>13 DEF PendingEnds, Pending, ActivateConversation, Holds, Start
<1>14. CASE ReturnLaunch(p)
  BY <1>14 DEF PendingEnds, Pending, ReturnLaunch, Holds, Start
<1>15. CASE CompleteActivity(p)
  BY <1>15 DEF PendingEnds, Pending, CompleteActivity, Holds, Start
<1>16. CASE Survey(p)
  BY <1>16 DEF PendingEnds, Pending, Survey, Holds, Start
<1>17. CASE ArchiveConversation(p)
  BY <1>17 DEF PendingEnds, Pending, ArchiveConversation, Holds, Start
<1>18. CASE ReturnArchive(p)
  BY <1>18 DEF PendingEnds, Pending, ReturnArchive, Holds, Start
<1>19. CASE Sweep(p)
  BY <1>19 DEF PendingEnds, Pending, Sweep, Holds, Start
<1>20. CASE Reserve(p)
  BY <1>20 DEF PendingEnds, Pending, Reserve, Holds, Start
<1>21. CASE DeleteSession(p)
  BY <1>21 DEF PendingEnds, Pending, DeleteSession, Holds, Start
<1>22. CASE DeletionFails(p)
  BY <1>22 DEF PendingEnds, Pending, DeletionFails, Holds, Start
<1>23. CASE CloseLease(p)
  BY <1>23 DEF PendingEnds, Pending, CloseLease, Holds, Start
<1>24. CASE Publish(p)
  BY <1>24 DEF PendingEnds, Pending, Publish, Holds, Start
<1>25. CASE CreateSession(p)
  BY <1>25 DEF PendingEnds, Pending, CreateSession, Holds, Start
<1>26. CASE CreateConversation(p)
  BY <1>26 DEF PendingEnds, Pending, CreateConversation, Holds, Start
<1>27. CASE EndProvision(p)
  BY <1>27 DEF PendingEnds, Pending, EndProvision, Holds, Start
<1>28. CASE RollbackConversation(p)
  BY <1>28 DEF PendingEnds, Pending, RollbackConversation, Holds, Start
<1>29. ASSUME NEW k \in Automation, DeleteChild(p, k) PROVE PendingEnds(p, c)
  BY <1>29 DEF PendingEnds, Pending, DeleteChild, Holds, Start
<1>30. ASSUME NEW k \in Automation, SeedAutomation(p, k) PROVE PendingEnds(p, c)
  BY <1>30 DEF PendingEnds, Pending, SeedAutomation, Holds, Start
<1>31. QED
  BY <1>1, <1>2, <1>3, <1>4, <1>5, <1>6, <1>7, <1>8, <1>9, <1>10, <1>11, <1>12, <1>13,
     <1>14, <1>15, <1>16, <1>17, <1>18, <1>19, <1>20, <1>21, <1>22, <1>23, <1>24, <1>25,
     <1>26, <1>27, <1>28, <1>29, <1>30 DEF Request, Step

Provisioning(q, c) == kind[q] = "provision" /\ LeasedP(q) /\ com[q] = c

ProvisioningEnds(p, c) ==
  Provisioning(p, c) =>
    Provisioning(p, c)' \/ version'[c] > version[c] \/ cleanupState'[c] = "deleted"

\* So does a provisioning, unless its rollback set the tombstone.
LEMMA ProvisioningStep ==
  ASSUME TypeOK, NEW p \in Proc, Request(p) \/ Step(p), NEW c \in Commander
  PROVE  ProvisioningEnds(p, c)
<1> USE DEF TypeOK
<1>1. ASSUME NEW k \in Automation, NEW d \in Parent, StartWrite(p, k, d) PROVE ProvisioningEnds(p, c)
  BY <1>1 DEF ProvisioningEnds, Provisioning, StartWrite, Start, LeasedP, LeasePcs
<1>2. ASSUME NEW d \in Commander, StartLaunch(p, d) PROVE ProvisioningEnds(p, c)
  BY <1>2 DEF ProvisioningEnds, Provisioning, StartLaunch, Start, LeasedP, LeasePcs
<1>3. ASSUME NEW d \in Commander, StartDelete(p, d) PROVE ProvisioningEnds(p, c)
  BY <1>3 DEF ProvisioningEnds, Provisioning, StartDelete, Start, LeasedP, LeasePcs
<1>4. ASSUME NEW d \in Commander, StartProvision(p, d) PROVE ProvisioningEnds(p, c)
  BY <1>4 DEF ProvisioningEnds, Provisioning, StartProvision, Start, LeasedP, LeasePcs
<1>5. CASE GrantLock(p)
  BY <1>5 DEF ProvisioningEnds, Provisioning, GrantLock, LeasedP, LeasePcs
<1>6. CASE RefuseLock(p)
  BY <1>6 DEF ProvisioningEnds, Provisioning, RefuseLock, LeasedP, LeasePcs
<1>7. CASE Unwind(p)
  BY <1>7 DEF ProvisioningEnds, Provisioning, Unwind, LeasedP, LeasePcs
<1>8. CASE WriteAutomation(p)
  BY <1>8 DEF ProvisioningEnds, Provisioning, WriteAutomation, LeasedP, LeasePcs
<1>9. CASE ReturnWrite(p)
  BY <1>9 DEF ProvisioningEnds, Provisioning, ReturnWrite, LeasedP, LeasePcs
<1>10. CASE ObserveAgain(p)
  BY <1>10 DEF ProvisioningEnds, Provisioning, ObserveAgain, LeasedP, LeasePcs
<1>11. CASE Admit(p)
  BY <1>11 DEF ProvisioningEnds, Provisioning, Admit, LeasedP, LeasePcs
<1>12. CASE RunLaunch(p)
  BY <1>12 DEF ProvisioningEnds, Provisioning, RunLaunch, LeasedP, LeasePcs
<1>13. CASE ActivateConversation(p)
  BY <1>13 DEF ProvisioningEnds, Provisioning, ActivateConversation, LeasedP, LeasePcs
<1>14. CASE ReturnLaunch(p)
  BY <1>14 DEF ProvisioningEnds, Provisioning, ReturnLaunch, LeasedP, LeasePcs
<1>15. CASE CompleteActivity(p)
  BY <1>15 DEF ProvisioningEnds, Provisioning, CompleteActivity, LeasedP, LeasePcs
<1>16. CASE Survey(p)
  BY <1>16 DEF ProvisioningEnds, Provisioning, Survey, LeasedP, LeasePcs
<1>17. CASE ArchiveConversation(p)
  BY <1>17 DEF ProvisioningEnds, Provisioning, ArchiveConversation, LeasedP, LeasePcs
<1>18. CASE ReturnArchive(p)
  BY <1>18 DEF ProvisioningEnds, Provisioning, ReturnArchive, LeasedP, LeasePcs
<1>19. CASE Sweep(p)
  BY <1>19 DEF ProvisioningEnds, Provisioning, Sweep, LeasedP, LeasePcs
<1>20. CASE Reserve(p)
  BY <1>20 DEF ProvisioningEnds, Provisioning, Reserve, LeasedP, LeasePcs
<1>21. CASE DeleteSession(p)
  BY <1>21 DEF ProvisioningEnds, Provisioning, DeleteSession, LeasedP, LeasePcs, Goto,
     RequestTypes
<1>22. CASE DeletionFails(p)
  BY <1>22 DEF ProvisioningEnds, Provisioning, DeletionFails, LeasedP, LeasePcs, Goto,
     RequestTypes
<1>23. CASE CloseLease(p)
  <2>1. SUFFICES ASSUME Provisioning(p, c) PROVE version'[c] > version[c] \/ cleanupState'[c] = "deleted"
    BY DEF ProvisioningEnds
  <2>2. CASE outcome[p] = "deleted"
    BY <1>23, <2>1, <2>2 DEF Provisioning, CloseLease, CoordTypes
  <2>3. CASE outcome[p] # "deleted"
    <3>1. version' = Bumped(c)
      BY <1>23, <2>1, <2>3 DEF Provisioning, CloseLease
    <3>2. QED
      BY <3>1 DEF Bumped, CoordTypes
  <2>4. QED
    BY <2>2, <2>3
<1>24. CASE Publish(p)
  BY <1>24 DEF ProvisioningEnds, Provisioning, Publish, LeasedP, LeasePcs
<1>25. CASE CreateSession(p)
  BY <1>25 DEF ProvisioningEnds, Provisioning, CreateSession, LeasedP, LeasePcs
<1>26. CASE CreateConversation(p)
  BY <1>26 DEF ProvisioningEnds, Provisioning, CreateConversation, LeasedP, LeasePcs
<1>27. CASE EndProvision(p)
  BY <1>27 DEF ProvisioningEnds, Provisioning, EndProvision, LeasedP, LeasePcs, Goto,
     RequestTypes
<1>28. CASE RollbackConversation(p)
  BY <1>28 DEF ProvisioningEnds, Provisioning, RollbackConversation, LeasedP, LeasePcs
<1>29. ASSUME NEW k \in Automation, DeleteChild(p, k) PROVE ProvisioningEnds(p, c)
  BY <1>29 DEF ProvisioningEnds, Provisioning, DeleteChild, LeasedP, LeasePcs
<1>30. ASSUME NEW k \in Automation, SeedAutomation(p, k) PROVE ProvisioningEnds(p, c)
  BY <1>30 DEF ProvisioningEnds, Provisioning, SeedAutomation, LeasedP, LeasePcs
<1>31. QED
  BY <1>1, <1>2, <1>3, <1>4, <1>5, <1>6, <1>7, <1>8, <1>9, <1>10, <1>11, <1>12, <1>13,
     <1>14, <1>15, <1>16, <1>17, <1>18, <1>19, <1>20, <1>21, <1>22, <1>23, <1>24, <1>25,
     <1>26, <1>27, <1>28, <1>29, <1>30 DEF Request, Step

\* What a launch that has written does next: it unwinds, queues to complete its
\* activity, and completes it as the head of the queue.
Completes(p, c) ==
  /\ Returning(p, c) =>
       \/ Returning(p, c)'
       \/ /\ kind'[p] = "launch" /\ com'[p] = c /\ pc'[p] = "complete"
          /\ tail' = Enqueued(p, c)
  /\ kind[p] = "launch" /\ com[p] = c /\ pc[p] = "complete" => IsHead(p, c)

\* A launch that has written ends only through the queue of its commander.
LEMMA CompletesStep ==
  ASSUME TypeOK, NEW p \in Proc, Request(p) \/ Step(p), NEW c \in Commander
  PROVE  Completes(p, c)
<1> USE DEF TypeOK, Completes, Returning
<1>1. ASSUME NEW k \in Automation, NEW d \in Parent, StartWrite(p, k, d) PROVE Completes(p, c)
  BY <1>1 DEF StartWrite, Start
<1>2. ASSUME NEW e \in Commander, StartLaunch(p, e) PROVE Completes(p, c)
  BY <1>2 DEF StartLaunch, Start
<1>3. ASSUME NEW e \in Commander, StartDelete(p, e) PROVE Completes(p, c)
  BY <1>3 DEF StartDelete, Start
<1>4. ASSUME NEW e \in Commander, StartProvision(p, e) PROVE Completes(p, c)
  BY <1>4 DEF StartProvision, Start
<1>5. CASE GrantLock(p)
  BY <1>5 DEF GrantLock
<1>6. CASE RefuseLock(p)
  BY <1>6 DEF RefuseLock
<1>7. CASE Unwind(p)
  BY <1>7 DEF Unwind, RequestTypes
<1>8. CASE WriteAutomation(p)
  BY <1>8 DEF WriteAutomation
<1>9. CASE ReturnWrite(p)
  BY <1>9 DEF ReturnWrite, Writes
<1>10. CASE ObserveAgain(p)
  BY <1>10 DEF ObserveAgain
<1>11. CASE Admit(p)
  BY <1>11 DEF Admit
<1>12. CASE RunLaunch(p)
  BY <1>12 DEF RunLaunch
<1>13. CASE ActivateConversation(p)
  BY <1>13 DEF ActivateConversation
<1>14. CASE ReturnLaunch(p)
  BY <1>14 DEF ReturnLaunch, AwaitLock, Goto, RequestTypes
<1>15. CASE CompleteActivity(p)
  BY <1>15 DEF CompleteActivity
<1>16. CASE Survey(p)
  BY <1>16 DEF Survey
<1>17. CASE ArchiveConversation(p)
  BY <1>17 DEF ArchiveConversation
<1>18. CASE ReturnArchive(p)
  BY <1>18 DEF ReturnArchive
<1>19. CASE Sweep(p)
  BY <1>19 DEF Sweep
<1>20. CASE Reserve(p)
  BY <1>20 DEF Reserve
<1>21. CASE DeleteSession(p)
  BY <1>21 DEF DeleteSession
<1>22. CASE DeletionFails(p)
  BY <1>22 DEF DeletionFails
<1>23. CASE CloseLease(p)
  BY <1>23 DEF CloseLease
<1>24. CASE Publish(p)
  BY <1>24 DEF Publish
<1>25. CASE CreateSession(p)
  BY <1>25 DEF CreateSession
<1>26. CASE CreateConversation(p)
  BY <1>26 DEF CreateConversation
<1>27. CASE EndProvision(p)
  BY <1>27 DEF EndProvision
<1>28. CASE RollbackConversation(p)
  BY <1>28 DEF RollbackConversation
<1>29. ASSUME NEW k \in Automation, DeleteChild(p, k) PROVE Completes(p, c)
  BY <1>29 DEF DeleteChild
<1>30. ASSUME NEW k \in Automation, SeedAutomation(p, k) PROVE Completes(p, c)
  BY <1>30 DEF SeedAutomation
<1>31. QED
  BY <1>1, <1>2, <1>3, <1>4, <1>5, <1>6, <1>7, <1>8, <1>9, <1>10, <1>11, <1>12, <1>13,
     <1>14, <1>15, <1>16, <1>17, <1>18, <1>19, <1>20, <1>21, <1>22, <1>23, <1>24, <1>25,
     <1>26, <1>27, <1>28, <1>29, <1>30 DEF Request, Step

\* Who is before whom in a queue stays so until the first of them leaves.
LEMMA BeforeStep ==
  ASSUME TypeOK, KindInv, OrderInv, HeadInv, NEW p \in Proc, Request(p) \/ Step(p),
         NEW q \in Proc, q # p, NEW r \in Proc, NEW c \in Commander, Before(q, r, c)
  PROVE  Before(q, r, c)'
<1>1. PICK i, j \in 1..Len(tail[c]) : i < j /\ tail[c][i] = q /\ tail[c][j] = r
  BY DEF Before
<1>2. tail[c] \in Seq(Proc) /\ Len(tail[c]) \in Nat
  BY DEF TypeOK, CoordTypes
<1>3. CASE tail'[c] = tail[c]
  BY <1>1, <1>3 DEF Before
<1>4. CASE Joins(p, c)
  <2>1. tail'[c] = Append(tail[c], p)
    BY <1>4 DEF Joins, Enqueued, TypeOK, CoordTypes
  <2>2. /\ i \in 1..Len(tail'[c]) /\ tail'[c][i] = q
        /\ j \in 1..Len(tail'[c]) /\ tail'[c][j] = r
    BY <1>1, <1>2, <2>1
  <2>3. QED
    BY <1>1, <2>2 DEF Before
<1>5. CASE Leaves(p, c)
  <2>1. tail'[c] = Tail(tail[c]) /\ tail[c] # <<>> /\ tail[c][1] = p
    BY <1>2, <1>5 DEF Leaves, IsHead, Released, TypeOK, CoordTypes
  <2>2. i # 1
    BY <1>1, <2>1
  <2>3. /\ i - 1 \in 1..Len(tail'[c]) /\ tail'[c][i - 1] = q
        /\ j - 1 \in 1..Len(tail'[c]) /\ tail'[c][j - 1] = r /\ i - 1 < j - 1
    BY <1>1, <1>2, <2>1, <2>2
  <2>4. QED
    BY <2>3 DEF Before
<1>6. ASSUME NEW d \in Commander, d # c, Joins(p, d) \/ Leaves(p, d) PROVE tail'[c] = tail[c]
  BY <1>6 DEF Joins, Leaves, Enqueued, Released, TypeOK, CoordTypes
<1>7. TailMoves(p)
  BY TailStep
<1>8. QED
  BY <1>3, <1>4, <1>5, <1>6, <1>7 DEF TailMoves, LineKept

\* A launch that a deletion will meet is still one after a step of another request.
LEMMA MetStep ==
  ASSUME TypeOK, KindInv, OrderInv, HeadInv, QueueInv, NEW p \in Proc,
         Request(p) \/ Step(p), NEW q \in Proc, q # p, NEW c \in Commander,
         pc[q] = "reserve", com[q] = c, NEW r \in Proc, Met(q, r, c)
  PROVE  Met(q, r, c)'
<1>1. CASE r # p
  <2>1. Returning(r, c) => Returning(r, c)'
    BY <1>1, Frame DEF TypeOK, SameLocals, Returning
  <2>2. CASE kind[r] = "launch" /\ com[r] = c /\ pc[r] = "complete" /\ Before(q, r, c)
    <3>1. kind'[r] = "launch" /\ com'[r] = c /\ pc'[r] = "complete"
      BY <1>1, <2>2, Frame DEF TypeOK, SameLocals
    <3>2. Before(q, r, c)'
      BY <2>2, BeforeStep
    <3>3. QED
      BY <3>1, <3>2 DEF Met
  <2>3. QED
    BY <2>1, <2>2 DEF Met
<1>2. CASE r = p /\ Returning(p, c)
  <2>1. CASE Returning(p, c)'
    BY <1>2, <2>1 DEF Met
  <2>2. CASE /\ kind'[p] = "launch" /\ com'[p] = c /\ pc'[p] = "complete"
             /\ tail' = Enqueued(p, c)
    <3>1. InLine(q, c)
      BY OwnLine DEF QueuedP, OnlyLine
    <3>2. PICK i \in 1..Len(tail[c]) : tail[c][i] = q
      BY <3>1 DEF QueueInv, QueueAt, Queued
    <3> DEFINE n == Len(tail[c])
    <3>3. tail'[c] = Append(tail[c], p) /\ tail[c] \in Seq(Proc) /\ n \in Nat
      BY <2>2 DEF Enqueued, TypeOK, CoordTypes
    <3>4. /\ i \in 1..Len(tail'[c]) /\ tail'[c][i] = q
          /\ n + 1 \in 1..Len(tail'[c]) /\ tail'[c][n + 1] = p /\ i < n + 1
      BY <3>2, <3>3
    <3>5. Before(q, p, c)'
      BY <3>4 DEF Before
    <3>6. QED
      BY <1>2, <2>2, <3>5 DEF Met
  <2>3. QED
    BY <1>2, <2>1, <2>2, CompletesStep DEF Completes
<1>3. CASE r = p /\ kind[p] = "launch" /\ com[p] = c /\ pc[p] = "complete" /\ Before(q, p, c)
  <2>1. IsHead(p, c)
    BY <1>3, CompletesStep DEF Completes
  <2>2. PICK i, j \in 1..Len(tail[c]) : i < j /\ tail[c][i] = q /\ tail[c][j] = p
    BY <1>3 DEF Before
  <2>3. tail[c] \in Seq(Proc) /\ tail[c][1] = p
    BY <2>1 DEF IsHead, TypeOK, CoordTypes
  <2>4. 1 \in 1..Len(tail[c]) /\ j # 1
    BY <2>2, <2>3
  <2>5. FALSE
    BY <2>2, <2>3, <2>4 DEF QueueInv, QueueAt
  <2>6. QED
    BY <2>5
<1>4. QED
  BY <1>1, <1>2, <1>3 DEF Met

(***************************************************************************)
(* The observation                                                         *)
(***************************************************************************)

\* What p observed itself in the step that made it observe.
Observed(p) ==
  /\ pc'[p] \in {"sweep", "reserve"} => seen'[p] <= version'[com'[p]]
  /\ pc'[p] = "reserve" =>
       \E c \in Commander : com'[p] = c /\ ~conv'[c] /\ Children(c)' \subseteq swept'[p]

\* A request that observes has seen nothing open, listed every child, and at no later
\* generation than the present one.
LEMMA ObservedStep ==
  ASSUME TypeOK, KindInv, ObservationInv, NEW p \in Proc, Request(p) \/ Step(p)
  PROVE  Observed(p)
<1> USE DEF TypeOK
<1>1. ASSUME NEW k \in Automation, NEW d \in Parent, StartWrite(p, k, d) PROVE Observed(p)
  BY <1>1 DEF StartWrite, AcquireAll, Start, Goto, Observed, RequestTypes
<1>2. ASSUME NEW e \in Commander, StartLaunch(p, e) PROVE Observed(p)
  BY <1>2 DEF StartLaunch, AwaitLock, Start, Goto, Observed, RequestTypes
<1>3. ASSUME NEW e \in Commander, StartDelete(p, e) PROVE Observed(p)
  BY <1>3 DEF StartDelete, Start, Goto, Observed, RequestTypes
<1>4. ASSUME NEW e \in Commander, StartProvision(p, e) PROVE Observed(p)
  BY <1>4 DEF StartProvision, AwaitLock, Start, Goto, Observed, RequestTypes
<1>5. CASE GrantLock(p)
  BY <1>5 DEF GrantLock, Goto, Observed, RequestTypes
<1>6. CASE RefuseLock(p)
  BY <1>6 DEF RefuseLock, Goto, Observed, RequestTypes
<1>7. CASE Unwind(p)
  BY <1>7 DEF Unwind, Observed, RequestTypes
<1>8. CASE WriteAutomation(p)
  BY <1>8 DEF WriteAutomation, Goto, Observed, RequestTypes
<1>9. CASE ReturnWrite(p)
  BY <1>9 DEF ReturnWrite, Goto, Finish, Observed, RequestTypes
<1>10. CASE ObserveAgain(p)
  BY <1>10 DEF ObserveAgain, Goto, Finish, AcquireAll, Observed, RequestTypes
<1>11. CASE Admit(p)
  BY <1>11 DEF Admit, Goto, Finish, Observed, RequestTypes
<1>12. CASE RunLaunch(p)
  BY <1>12 DEF RunLaunch, Goto, AwaitLock, AcquireAll, Observed, RequestTypes
<1>13. CASE ActivateConversation(p)
  BY <1>13 DEF ActivateConversation, Goto, Observed, RequestTypes
<1>14. CASE ReturnLaunch(p)
  BY <1>14 DEF ReturnLaunch, Goto, AwaitLock, Observed, RequestTypes
<1>15. CASE CompleteActivity(p)
  BY <1>15 DEF CompleteActivity, Goto, Finish, Observed, RequestTypes
<1>16. CASE Survey(p)
  <2>1. CASE Finish(p)
    BY <2>1 DEF Finish, Goto, Observed, RequestTypes
  <2>2. CASE AcquireAll(p, <<com[p]>>)
    BY <2>2 DEF AcquireAll, Goto, Observed, RequestTypes
  <2>3. CASE Capture(p) /\ UNCHANGED <<version, com>>
    <3>1. com[p] \in Commander /\ version[com[p]] \in Nat
      BY <1>16 DEF Survey, KindInv, KindAt, CoordTypes
    <3>2. QED
      BY <2>3, <3>1 DEF Capture, Goto, Observed, RequestTypes
  <2>4. QED
    BY <1>16, <2>1, <2>2, <2>3 DEF Survey
<1>17. CASE ArchiveConversation(p)
  BY <1>17 DEF ArchiveConversation, Goto, Observed, RequestTypes
<1>18. CASE ReturnArchive(p)
  <2>1. CASE Finish(p)
    BY <2>1 DEF Finish, Goto, Observed, RequestTypes
  <2>2. CASE Capture(p) /\ UNCHANGED <<version, com>>
    <3>1. com[p] \in Commander /\ version[com[p]] \in Nat
      BY <1>18 DEF ReturnArchive, KindInv, KindAt, CoordTypes
    <3>2. QED
      BY <2>2, <3>1 DEF Capture, Goto, Observed, RequestTypes
  <2>3. QED
    BY <1>18, <2>1, <2>2 DEF ReturnArchive, coord
<1>19. CASE Sweep(p)
  <2>1. com[p] \in Commander /\ seen[p] <= version[com[p]] /\ pc[p] = "sweep"
    BY <1>19 DEF Sweep, KindInv, KindAt, ObservationInv
  <2>2. UNCHANGED <<version, session, conv, owner>>
    BY <1>19 DEF Sweep, tree
  <2>3. CASE Finish(p)
    BY <2>3 DEF Finish, Goto, Observed, RequestTypes
  <2>4. CASE NextAttempt(p)
    BY <2>4 DEF NextAttempt, SurveyAgain, Finish, Goto, Observed, RequestTypes
  <2>5. CASE /\ ~conv[com[p]] /\ swept' = [swept EXCEPT ![p] = Children(com[p])]
             /\ AwaitLock(p, com[p], "reserve") /\ UNCHANGED <<com, seen>>
    <3>1. PICK c \in Commander : c = com[p]
      BY <2>1
    <3>2. com'[p] = c /\ ~conv'[c] /\ swept'[p] = Children(c) /\ seen'[p] <= version'[c]
      BY <2>1, <2>2, <2>5, <3>1 DEF RequestTypes
    <3>3. Children(c)' = Children(c)
      BY <2>2 DEF Children
    <3>4. QED
      BY <3>2, <3>3 DEF Observed
  <2>6. QED
    BY <1>19, <2>3, <2>4, <2>5 DEF Sweep
<1>20. CASE Reserve(p)
  BY <1>20 DEF Reserve, Goto, NextAttempt, SurveyAgain, Finish, Observed, RequestTypes
<1>21. CASE DeleteSession(p)
  BY <1>21 DEF DeleteSession, Goto, Observed, RequestTypes
<1>22. CASE DeletionFails(p)
  BY <1>22 DEF DeletionFails, Goto, Observed, RequestTypes
<1>23. CASE CloseLease(p)
  BY <1>23 DEF CloseLease, Goto, Finish, Observed, RequestTypes
<1>24. CASE Publish(p)
  BY <1>24 DEF Publish, Goto, Finish, Observed, RequestTypes
<1>25. CASE CreateSession(p)
  BY <1>25 DEF CreateSession, Observed, RequestTypes
<1>26. CASE CreateConversation(p)
  BY <1>26 DEF CreateConversation, Observed, RequestTypes
<1>27. CASE EndProvision(p)
  BY <1>27 DEF EndProvision, Goto, Observed, RequestTypes
<1>28. CASE RollbackConversation(p)
  BY <1>28 DEF RollbackConversation, Observed, RequestTypes
<1>29. ASSUME NEW k \in Automation, DeleteChild(p, k) PROVE Observed(p)
  BY <1>29 DEF DeleteChild, Observed, RequestTypes
<1>30. ASSUME NEW k \in Automation, SeedAutomation(p, k) PROVE Observed(p)
  BY <1>30 DEF SeedAutomation, Observed, RequestTypes
<1>31. QED
  BY <1>1, <1>2, <1>3, <1>4, <1>5, <1>6, <1>7, <1>8, <1>9, <1>10, <1>11, <1>12,
     <1>13, <1>14, <1>15, <1>16, <1>17, <1>18, <1>19, <1>20, <1>21, <1>22, <1>23,
     <1>24, <1>25, <1>26, <1>27, <1>28, <1>29, <1>30 DEF Request, Step

\* A tombstone stays: a lease opens only on a commander that accepts writes and
\* closes only on one that is leased.
LEMMA TombstoneStays ==
  ASSUME TypeOK, KindInv, OrderInv, LeaseInv, FreshInv, NEW p \in Proc, Request(p) \/ Step(p),
         NEW c \in Commander, cleanupState[c] = "deleted"
  PROVE  cleanupState'[c] = "deleted"
<1>1. CASE CleanupKept(p)
  BY <1>1 DEF CleanupKept
<1>2. CASE LeaseOpened(p)
  BY <1>2 DEF LeaseOpened, Accepts, TypeOK, CoordTypes
<1>3. CASE LeaseClosed(p)
  BY <1>3 DEF LeaseClosed, LeaseInv, TypeOK, CoordTypes
<1>4. QED
  BY <1>1, <1>2, <1>3, CleanupStep

\* What may still be wrong about the observation q made of c.
Observation(q, c) ==
  \/ ~conv[c] /\ Children(c) \subseteq swept[q]
  \/ \E r \in Proc : Pending(r, c)
  \/ \E r \in Proc : Met(q, r, c)
  \/ \E r \in Proc : Provisioning(r, c)

\* The observation of q stays as good as it was while others step and the
\* generation does not move.
LEMMA ObservationKept ==
  ASSUME TypeOK, KindInv, OrderInv, HeadInv, QueueInv, NEW p \in Proc,
         Request(p) \/ Step(p), NEW q \in Proc, q # p, NEW c \in Commander,
         pc[q] = "reserve", com[q] = c,
         Observation(q, c), version'[c] = version[c], cleanupState'[c] # "deleted"
  PROVE  Observation(q, c)'
<1>1. swept'[q] = swept[q]
  BY Frame DEF TypeOK, SameLocals
<1>2. CASE ~conv[c] /\ Children(c) \subseteq swept[q]
  <2>1. CASE ~Grows(c)
    BY <1>1, <1>2, <2>1 DEF Grows, Observation, TypeOK, TreeTypes
  <2>2. CASE Writing(p, c)
    BY <2>2 DEF Writing, Observation, Met
  <2>3. CASE Seeding(p, c)
    <3>1. Provisioning(p, c)'
      BY <2>3 DEF Seeding, Provisioning, KindInv, KindAt, LeasedP, LeasePcs
    <3>2. QED
      BY <3>1 DEF Observation
  <2>4. QED
    BY <2>1, <2>2, <2>3, GrowStep DEF GrowsOnly
<1>3. CASE \E r \in Proc : Pending(r, c)
  <2>1. PICK r \in Proc : Pending(r, c)
    BY <1>3
  <2>2. CASE r = p
    <3>1. Pending(p, c)' \/ version'[c] > version[c]
      BY <2>1, <2>2, PendingStep DEF PendingEnds
    <3>2. version[c] \in Nat
      BY DEF TypeOK, CoordTypes
    <3>3. QED
      BY <3>1, <3>2 DEF Observation
  <2>3. CASE r # p
    <3>1. Pending(r, c)'
      BY <2>1, <2>3, Frame DEF TypeOK, SameLocals, Pending, Holds
    <3>2. QED
      BY <3>1 DEF Observation
  <2>4. QED
    BY <2>2, <2>3
<1>4. CASE \E r \in Proc : Provisioning(r, c)
  <2>1. PICK r \in Proc : Provisioning(r, c)
    BY <1>4
  <2>2. CASE r = p
    <3>1. Provisioning(p, c)' \/ version'[c] > version[c]
      BY <2>1, <2>2, ProvisioningStep DEF ProvisioningEnds
    <3>2. version[c] \in Nat
      BY DEF TypeOK, CoordTypes
    <3>3. QED
      BY <3>1, <3>2 DEF Observation
  <2>3. CASE r # p
    <3>1. Provisioning(r, c)'
      BY <2>1, <2>3, Frame DEF TypeOK, SameLocals, Provisioning, LeasedP
    <3>2. QED
      BY <3>1 DEF Observation
  <2>4. QED
    BY <2>2, <2>3
<1>5. CASE \E r \in Proc : Met(q, r, c)
  BY <1>5, MetStep DEF Observation
<1>6. QED
  BY <1>2, <1>3, <1>4, <1>5 DEF Observation

\* What a DELETE observed stays true, or its generation has moved or will move.
LEMMA ObservationStep ==
  TypeOK /\ KindInv /\ OrderInv /\ HeadInv /\ QueueInv /\ LeaseInv /\ FreshInv
    /\ ObservationInv /\ TypeOK' /\ KindInv' /\ [Next]_vars => ObservationInv'
<1> DEFINE
      Seen(q, c) ==
        /\ pc[q] \in {"sweep", "reserve"} => seen[q] <= version[c]
        /\ pc[q] = "reserve" /\ seen[q] = version[c] /\ cleanupState[c] # "deleted" =>
             Observation(q, c)
<1>1. ObservationInv <=> \A q \in Proc : Seen(q, com[q])
  BY DEF ObservationInv, Observation, Provisioning
<1>2. ObservationInv' <=> \A q \in Proc : Seen(q, com[q])'
  BY DEF ObservationInv, Observation, Provisioning
<1> HIDE DEF Seen
<1>3. ASSUME TypeOK, KindInv, OrderInv, HeadInv, QueueInv, LeaseInv, FreshInv,
             ObservationInv, KindInv', TypeOK', NEW p \in Proc, Request(p) \/ Step(p), NEW q \in Proc
      PROVE  Seen(q, com[q])'
  <2>1. CASE pc'[q] \notin {"sweep", "reserve"}
    BY <2>1 DEF Seen
  <2>2. CASE pc'[q] \in {"sweep", "reserve"} /\ q = p
    <3>1. Observed(p)
      BY <1>3, ObservedStep
    <3>2. CASE pc'[p] = "reserve"
      <4>1. PICK c \in Commander : com'[p] = c /\ ~conv'[c] /\ Children(c)' \subseteq swept'[p]
        BY <3>1, <3>2 DEF Observed
      <4>2. Observation(p, c)'
        BY <4>1 DEF Observation
      <4>3. seen'[p] <= version'[c]
        BY <3>1, <3>2, <4>1 DEF Observed
      <4>4. Seen(p, c)'
        BY <4>2, <4>3 DEF Seen
      <4>5. QED
        BY <2>2, <4>1, <4>4 DEF Seen, Observation, Pending, Provisioning, Children, Holds, LeasedP,
           Met, Returning, Before
    <3>3. QED
      BY <2>2, <3>1, <3>2 DEF Observed, Seen
  <2>3. CASE pc'[q] \in {"sweep", "reserve"} /\ q # p
    <3>1. pc'[q] = pc[q] /\ com'[q] = com[q] /\ seen'[q] = seen[q]
      BY <1>3, <2>3, Frame DEF TypeOK, SameLocals
    <3>2. PICK c \in Commander : com[q] = c /\ com'[q] = c
      BY <1>3, <2>3, <3>1 DEF KindInv, KindAt
    <3>3. Seen(q, c)
      BY <1>1, <1>3, <3>2 DEF Seen, Observation, Pending, Provisioning, Children, Holds, LeasedP,
         Met, Returning, Before
    <3>4. version'[c] >= version[c] /\ version[c] \in Nat /\ version'[c] \in Nat /\ seen[q] \in Nat
      BY <1>3, CountersStep, CountersFacts DEF TypeOK, CoordTypes, RequestTypes
    <3>5. seen'[q] <= version'[c]
      BY <2>3, <3>1, <3>3, <3>4 DEF Seen
    <3>6. ASSUME pc'[q] = "reserve", seen'[q] = version'[c], cleanupState'[c] # "deleted"
          PROVE  Observation(q, c)'
      <4>1. version'[c] = version[c] /\ seen[q] = version[c]
        BY <2>3, <3>1, <3>3, <3>4, <3>6 DEF Seen
      <4>2. cleanupState[c] # "deleted"
        BY <1>3, <3>6, TombstoneStays
      <4>3. Observation(q, c)
        BY <3>1, <3>3, <3>6, <4>1, <4>2 DEF Seen
      <4>4. QED
        BY <1>3, <2>3, <3>1, <3>2, <3>6, <4>1, <4>3, ObservationKept
    <3>7. Seen(q, c)'
      BY <3>5, <3>6 DEF Seen
    <3>8. QED
      BY <3>2, <3>7 DEF Seen, Observation, Pending, Provisioning, Children, Holds, LeasedP,
         Met, Returning, Before
  <2>4. QED
    BY <2>1, <2>2, <2>3
<1>4. ASSUME ObservationInv, UNCHANGED vars PROVE ObservationInv'
  BY <1>4 DEF ObservationInv, vars, Pending, Holds, Children, LeasedP, Met, Returning, Before
<1>5. QED
  BY <1>2, <1>3, <1>4 DEF Next

-----------------------------------------------------------------------------
(***************************************************************************)
(* The lease and the tombstone                                             *)
(***************************************************************************)

\* Nothing appears below a commander that another request has leased: a write
\* would hold the lock of a commander that accepts writes, and the seeding of a
\* provisioning would be a second lease.
LEMMA LeasedStaysBare ==
  ASSUME TypeOK, OrderInv, HeadInv, AcceptInv, LeaseInv, NEW p \in Proc,
         Request(p) \/ Step(p), NEW q \in Proc, q # p, LeasedP(q),
         NEW c \in Commander, com[q] = c
  PROVE  ~Grows(c) /\ ~Appears(c)
<1>1. ~Writing(p, c)
  BY DEF Writing, AcceptInv, LockingP, Accepts, LeaseInv
<1>2. ~Seeding(p, c)
  <2>1. SUFFICES ASSUME Seeding(p, c) PROVE FALSE
    OBVIOUS
  <2>2. LeasedP(p) /\ com[p] = c
    BY <2>1 DEF Seeding, LeasedP, LeasePcs
  <2>3. Holds(p, c) /\ Holds(q, c)
    BY <2>2 DEF OrderInv, OrderAt, Holds
  <2>4. QED
    BY <2>3 DEF HeadInv, IsHead
<1>3. QED
  BY <1>1, <1>2, GrowStep DEF GrowsOnly

\* How a request comes to remove children: by a lease on what it observed, or
\* by the rollback of its provisioning; and what has gone when it reports a
\* deletion.
Removes(p) ==
  /\ pc'[p] = "leased" =>
       \/ pc[p] = "leased" /\ conv' = conv
       \/ pc[p] = "reserve" /\ IsHead(p, com[p]) /\ StillAsSeen(p, com[p])
            /\ conv' = conv
  /\ pc'[p] \in {"leased", "rollback"} =>
       \/ swept'[p] = swept[p] /\ com'[p] = com[p] /\ pc[p] # "provisioning"
            /\ \A k \in Automation : owner'[k] = owner[k] \/ owner'[k] = Absent
       \/ pc'[p] = "rollback" /\ swept'[p] = Children(com[p]) /\ owner' = owner
            /\ com'[p] = com[p]
  /\ pc'[p] = "rollback" => pc[p] \in {"rollback", "provisioning"}
  /\ pc'[p] = "closing" /\ outcome'[p] = "deleted" =>
       /\ pc[p] \in {"leased", "rollback"} /\ com'[p] = com[p]
       /\ ChildrenGone(p) /\ (pc[p] = "rollback" => ~conv[com[p]])
       /\ ~session'[com[p]] /\ conv' = conv /\ owner' = owner

\* A request removes children only by a lease on an observation that still holds,
\* or by rolling back what it provisioned itself.
LEMMA RemovesStep ==
  ASSUME TypeOK, KindInv, NEW p \in Proc, Request(p) \/ Step(p)
  PROVE  Removes(p)
<1> USE DEF TypeOK
<1>1. ASSUME NEW k \in Automation, NEW d \in Parent, StartWrite(p, k, d) PROVE Removes(p)
  BY <1>1 DEF StartWrite, AcquireAll, Start, Goto, Removes, RequestTypes, sweep
<1>2. ASSUME NEW e \in Commander, StartLaunch(p, e) PROVE Removes(p)
  BY <1>2 DEF StartLaunch, AwaitLock, Start, Goto, Removes, RequestTypes, sweep
<1>3. ASSUME NEW e \in Commander, StartDelete(p, e) PROVE Removes(p)
  BY <1>3 DEF StartDelete, Start, Goto, Removes, RequestTypes, sweep
<1>4. ASSUME NEW e \in Commander, StartProvision(p, e) PROVE Removes(p)
  BY <1>4 DEF StartProvision, AwaitLock, Start, Goto, Removes, RequestTypes, sweep
<1>5. CASE GrantLock(p)
  BY <1>5 DEF GrantLock, Goto, Removes, RequestTypes, sweep
<1>6. CASE RefuseLock(p)
  BY <1>6 DEF RefuseLock, Goto, Removes, RequestTypes, sweep
<1>7. CASE Unwind(p)
  BY <1>7 DEF Unwind, Removes, RequestTypes, sweep
<1>8. CASE WriteAutomation(p)
  BY <1>8 DEF WriteAutomation, Goto, Removes, RequestTypes, sweep
<1>9. CASE ReturnWrite(p)
  BY <1>9 DEF ReturnWrite, Goto, Finish, Removes, RequestTypes, sweep
<1>10. CASE ObserveAgain(p)
  BY <1>10 DEF ObserveAgain, Goto, Finish, AcquireAll, Removes, RequestTypes, sweep
<1>11. CASE Admit(p)
  BY <1>11 DEF Admit, Goto, Finish, Removes, RequestTypes, sweep
<1>12. CASE RunLaunch(p)
  BY <1>12 DEF RunLaunch, Goto, AwaitLock, AcquireAll, Removes, RequestTypes, sweep
<1>13. CASE ActivateConversation(p)
  BY <1>13 DEF ActivateConversation, Goto, Removes, RequestTypes, sweep
<1>14. CASE ReturnLaunch(p)
  BY <1>14 DEF ReturnLaunch, Goto, AwaitLock, Removes, RequestTypes, sweep
<1>15. CASE CompleteActivity(p)
  BY <1>15 DEF CompleteActivity, Goto, Finish, Removes, RequestTypes, sweep
<1>16. CASE Survey(p)
  BY <1>16 DEF Survey, Goto, Finish, AcquireAll, Capture, Removes, RequestTypes, sweep
<1>17. CASE ArchiveConversation(p)
  BY <1>17 DEF ArchiveConversation, Goto, Removes, RequestTypes, sweep
<1>18. CASE ReturnArchive(p)
  BY <1>18 DEF ReturnArchive, Goto, Finish, Capture, Removes, RequestTypes, sweep
<1>19. CASE Sweep(p)
  BY <1>19 DEF Sweep, Goto, Finish, NextAttempt, SurveyAgain, AwaitLock, Removes,
     RequestTypes, sweep
<1>20. CASE Reserve(p)
  BY <1>20 DEF Reserve, Goto, NextAttempt, SurveyAgain, Finish, Removes, RequestTypes,
     sweep, tree, TreeTypes
<1>21. CASE DeleteSession(p)
  <2>1. com[p] \in Commander
    BY <1>21 DEF DeleteSession, KindInv, KindAt
  <2>2. QED
    BY <1>21, <2>1 DEF DeleteSession, Goto, Removes, RequestTypes, TreeTypes
<1>22. CASE DeletionFails(p)
  BY <1>22 DEF DeletionFails, Goto, Removes, RequestTypes, sweep, tree, TreeTypes
<1>23. CASE CloseLease(p)
  BY <1>23 DEF CloseLease, Goto, Finish, Removes, RequestTypes, sweep
<1>24. CASE Publish(p)
  BY <1>24 DEF Publish, Goto, Finish, Removes, RequestTypes, sweep
<1>25. CASE CreateSession(p)
  BY <1>25 DEF CreateSession, Removes, RequestTypes, sweep
<1>26. CASE CreateConversation(p)
  BY <1>26 DEF CreateConversation, Removes, RequestTypes, sweep
<1>27. CASE EndProvision(p)
  BY <1>27 DEF EndProvision, Goto, Removes, RequestTypes, sweep, tree, TreeTypes
<1>28. CASE RollbackConversation(p)
  BY <1>28 DEF RollbackConversation, Removes, RequestTypes, sweep, tree, TreeTypes
<1>29. ASSUME NEW k \in Automation, DeleteChild(p, k) PROVE Removes(p)
  BY <1>29 DEF DeleteChild, Removes, RequestTypes, sweep, tree, TreeTypes
<1>30. ASSUME NEW k \in Automation, SeedAutomation(p, k) PROVE Removes(p)
  BY <1>30 DEF SeedAutomation, Removes, RequestTypes, sweep
<1>31. QED
  BY <1>1, <1>2, <1>3, <1>4, <1>5, <1>6, <1>7, <1>8, <1>9, <1>10, <1>11, <1>12,
     <1>13, <1>14, <1>15, <1>16, <1>17, <1>18, <1>19, <1>20, <1>21, <1>22, <1>23,
     <1>24, <1>25, <1>26, <1>27, <1>28, <1>29, <1>30 DEF Request, Step

\* The generation, the cleanup state and the lock make the observation of a
\* DELETE a fact at the moment its lease is granted.
LEMMA ReservedAsSeen ==
  ASSUME TypeOK, KindInv, HeadInv, LeaseInv, ActivityInv, ObservationInv, NEW p \in Proc,
         pc[p] = "reserve", NEW c \in Commander, com[p] = c, IsHead(p, c), StillAsSeen(p, c)
  PROVE  ~conv[c] /\ Children(c) \subseteq swept[p]
<1>1. Observation(p, c)
  BY DEF ObservationInv, StillAsSeen, Observation, Provisioning
<1>2. ASSUME NEW r \in Proc, Pending(r, c) PROVE FALSE
  BY <1>2 DEF Pending, HeadInv, IsHead
<1>3. ASSUME NEW r \in Proc, Provisioning(r, c) PROVE FALSE
  BY <1>3 DEF Provisioning, LeaseInv, StillAsSeen
<1>4. ASSUME NEW r \in Proc, Met(p, r, c) PROVE FALSE
  <2>1. r \in Admissions(c)
    BY <1>4 DEF Met, Returning, Admissions
  <2>2. IsFiniteSet(Admissions(c)) /\ Cardinality(Admissions(c)) = 0
    BY DEF ActivityInv, StillAsSeen
  <2>3. QED
    BY <2>1, <2>2, FS_EmptySet
<1>5. QED
  BY <1>1, <1>2, <1>3, <1>4 DEF Observation

\* A deletion under its lease removes everything below the commander.
LEMMA DeletionStep ==
  TypeOK /\ KindInv /\ OrderInv /\ HeadInv /\ AcceptInv /\ LeaseInv /\ ActivityInv
    /\ ObservationInv /\ DeletionInv /\ KindInv' /\ TypeOK' /\ [Next]_vars => DeletionInv'
<1> DEFINE
      Removing(q, c) ==
        /\ pc[q] = "leased" => ~conv[c] /\ Children(c) \subseteq swept[q]
        /\ pc[q] = "rollback" => Children(c) \subseteq swept[q]
        /\ pc[q] = "closing" /\ outcome[q] = "deleted" =>
             ~session[c] /\ ~conv[c] /\ Children(c) = {}
<1>1. DeletionInv <=> \A q \in Proc : Removing(q, com[q])
  BY DEF DeletionInv
<1>2. DeletionInv' <=> \A q \in Proc : Removing(q, com[q])'
  BY DEF DeletionInv
<1> HIDE DEF Removing
<1>3. ASSUME TypeOK, KindInv, OrderInv, HeadInv, AcceptInv, LeaseInv, ActivityInv,
             ObservationInv, DeletionInv, KindInv', TypeOK', NEW p \in Proc, Request(p) \/ Step(p),
             NEW q \in Proc
      PROVE  Removing(q, com[q])'
  <2>1. CASE pc'[q] \notin {"leased", "rollback", "closing"}
    BY <2>1 DEF Removing
  <2>2. CASE pc'[q] \in {"leased", "rollback", "closing"} /\ q # p
    <3>1. /\ pc'[q] = pc[q] /\ com'[q] = com[q]
          /\ swept'[q] = swept[q] /\ outcome'[q] = outcome[q]
      BY <1>3, <2>2, Frame DEF TypeOK, SameLocals
    <3>2. PICK c \in Commander : com[q] = c /\ com'[q] = c
      BY <1>3, <2>2, <3>1 DEF KindInv, KindAt
    <3>3. LeasedP(q)
      BY <2>2, <3>1 DEF LeasedP, LeasePcs
    <3>4. ~Grows(c) /\ ~Appears(c)
      BY <1>3, <2>2, <3>2, <3>3, LeasedStaysBare
    <3>5. Removing(q, c)
      BY <1>1, <1>3, <3>2 DEF Removing, Children
    <3>6. Removing(q, c)'
      BY <1>3, <3>1, <3>4, <3>5 DEF Removing, Grows, Appears, TypeOK, TreeTypes
    <3>7. QED
      BY <3>2, <3>6 DEF Removing, Children
  <2>3. CASE pc'[q] \in {"leased", "rollback", "closing"} /\ q = p
    <3>1. Removes(p)
      BY <1>3, RemovesStep
    <3>2. PICK c \in Commander : com'[p] = c
      BY <1>3, <2>3 DEF KindInv, KindAt
    <3>3. CASE pc'[p] \in {"leased", "rollback"}
      <4>1. com[p] = c
        BY <3>1, <3>2, <3>3 DEF Removes
      <4>2. Removing(p, c)
        BY <1>1, <1>3, <4>1 DEF Removing, Children
      <4>3. pc'[p] = "leased" => ~conv'[c] /\ Children(c) \subseteq swept[p]
        BY <1>3, <3>1, <4>1, <4>2, ReservedAsSeen DEF Removes, Removing
      <4>4. Children(c)' \subseteq swept'[p]
        <5>1. CASE /\ swept'[p] = swept[p] /\ pc[p] # "provisioning"
                   /\ \A k \in Automation : owner'[k] = owner[k] \/ owner'[k] = Absent
          <6>1. Children(c)' \subseteq Children(c)
            BY <5>1, LifecycleAssumption DEF Children
          <6>2. Children(c) \subseteq swept[p]
            BY <3>1, <3>3, <4>2, <4>3, <5>1 DEF Removes, Removing
          <6>3. QED
            BY <5>1, <6>1, <6>2
        <5>2. CASE swept'[p] = Children(com[p]) /\ owner' = owner
          BY <4>1, <5>2 DEF Children
        <5>3. QED
          BY <3>1, <3>3, <5>1, <5>2 DEF Removes
      <4>5. Removing(p, c)'
        BY <3>3, <4>3, <4>4 DEF Removing
      <4>6. QED
        BY <2>3, <3>2, <4>5 DEF Removing, Children
    <3>4. CASE pc'[p] = "closing" /\ outcome'[p] = "deleted"
      <4>1. com[p] = c
        BY <3>1, <3>2, <3>4 DEF Removes
      <4>2. Removing(p, c)
        BY <1>1, <1>3, <4>1 DEF Removing, Children
      <4>3. ~conv[c] /\ Children(c) = {} /\ ~session'[c] /\ conv' = conv /\ owner' = owner
        BY <3>1, <3>4, <4>1, <4>2 DEF Removes, Removing, ChildrenGone, Children
      <4>4. Children(c)' = {}
        BY <4>3 DEF Children
      <4>5. Removing(p, c)'
        BY <3>4, <4>3, <4>4 DEF Removing
      <4>6. QED
        BY <2>3, <3>2, <4>5 DEF Removing, Children
    <3>5. QED
      BY <2>3, <3>3, <3>4 DEF Removing
  <2>4. QED
    BY <2>1, <2>2, <2>3
<1>4. ASSUME DeletionInv, UNCHANGED vars PROVE DeletionInv'
  BY <1>4 DEF DeletionInv, vars, Children
<1>5. QED
  BY <1>2, <1>3, <1>4 DEF Next

\* Only the end of a lease that reports a deletion sets the tombstone.
Entombs(p, c) ==
  cleanupState[c] # "deleted" /\ cleanupState'[c] = "deleted" =>
    /\ pc[p] = "closing" /\ outcome[p] = "deleted" /\ com[p] = c
    /\ UNCHANGED <<session, conv, owner, activities>>

\* A tombstone is set only by closing a lease whose deletion succeeded.
LEMMA EntombsStep ==
  ASSUME TypeOK, KindInv, NEW p \in Proc, Request(p) \/ Step(p), NEW c \in Commander
  PROVE  Entombs(p, c)
<1> USE DEF TypeOK
<1>1. ASSUME NEW k \in Automation, NEW d \in Parent, StartWrite(p, k, d) PROVE Entombs(p, c)
  BY <1>1 DEF StartWrite, Entombs, coord
<1>2. ASSUME NEW e \in Commander, StartLaunch(p, e) PROVE Entombs(p, c)
  BY <1>2 DEF StartLaunch, Entombs, coord
<1>3. ASSUME NEW e \in Commander, StartDelete(p, e) PROVE Entombs(p, c)
  BY <1>3 DEF StartDelete, Entombs, coord
<1>4. ASSUME NEW e \in Commander, StartProvision(p, e) PROVE Entombs(p, c)
  BY <1>4 DEF StartProvision, Entombs, coord
<1>5. CASE GrantLock(p)
  BY <1>5 DEF GrantLock, Entombs, coord
<1>6. CASE RefuseLock(p)
  BY <1>6 DEF RefuseLock, Entombs, coord
<1>7. CASE Unwind(p)
  BY <1>7 DEF Unwind, Entombs, coord
<1>8. CASE WriteAutomation(p)
  BY <1>8 DEF WriteAutomation, Entombs, coord
<1>9. CASE ReturnWrite(p)
  BY <1>9 DEF ReturnWrite, Entombs, coord
<1>10. CASE ObserveAgain(p)
  BY <1>10 DEF ObserveAgain, Entombs, coord
<1>11. CASE Admit(p)
  BY <1>11 DEF Admit, Entombs, coord
<1>12. CASE RunLaunch(p)
  BY <1>12 DEF RunLaunch, Entombs, coord
<1>13. CASE ActivateConversation(p)
  BY <1>13 DEF ActivateConversation, Entombs, coord
<1>14. CASE ReturnLaunch(p)
  BY <1>14 DEF ReturnLaunch, Entombs, coord
<1>15. CASE CompleteActivity(p)
  BY <1>15 DEF CompleteActivity, Entombs, coord
<1>16. CASE Survey(p)
  BY <1>16 DEF Survey, Entombs, coord
<1>17. CASE ArchiveConversation(p)
  BY <1>17 DEF ArchiveConversation, Entombs, coord
<1>18. CASE ReturnArchive(p)
  BY <1>18 DEF ReturnArchive, Entombs, coord
<1>19. CASE Sweep(p)
  BY <1>19 DEF Sweep, Entombs, coord
<1>20. CASE Reserve(p)
  BY <1>20 DEF Reserve, Entombs, CoordTypes, KindInv, KindAt
<1>21. CASE DeleteSession(p)
  BY <1>21 DEF DeleteSession, Entombs, coord
<1>22. CASE DeletionFails(p)
  BY <1>22 DEF DeletionFails, Entombs, coord
<1>23. CASE CloseLease(p)
  BY <1>23 DEF CloseLease, Entombs, CoordTypes, tree, KindInv, KindAt
<1>24. CASE Publish(p)
  BY <1>24 DEF Publish, Entombs, CoordTypes, KindInv, KindAt
<1>25. CASE CreateSession(p)
  BY <1>25 DEF CreateSession, Entombs, coord
<1>26. CASE CreateConversation(p)
  BY <1>26 DEF CreateConversation, Entombs, coord
<1>27. CASE EndProvision(p)
  BY <1>27 DEF EndProvision, Entombs, coord
<1>28. CASE RollbackConversation(p)
  BY <1>28 DEF RollbackConversation, Entombs, coord
<1>29. ASSUME NEW k \in Automation, DeleteChild(p, k) PROVE Entombs(p, c)
  BY <1>29 DEF DeleteChild, Entombs, coord
<1>30. ASSUME NEW k \in Automation, SeedAutomation(p, k) PROVE Entombs(p, c)
  BY <1>30 DEF SeedAutomation, Entombs, coord
<1>31. QED
  BY <1>1, <1>2, <1>3, <1>4, <1>5, <1>6, <1>7, <1>8, <1>9, <1>10, <1>11, <1>12,
     <1>13, <1>14, <1>15, <1>16, <1>17, <1>18, <1>19, <1>20, <1>21, <1>22, <1>23,
     <1>24, <1>25, <1>26, <1>27, <1>28, <1>29, <1>30 DEF Request, Step

\* Only the last step of a deletion or of a rollback drops a record.
Drops(p, c) ==
  session[c] /\ ~session'[c] =>
    /\ com[p] = c /\ pc[p] \in {"leased", "rollback"} /\ ChildrenGone(p)
    /\ pc[p] = "rollback" => ~conv[com[p]]

\* A commander's record is dropped only under a lease with nothing left below.
LEMMA DropsStep ==
  ASSUME TypeOK, KindInv, NEW p \in Proc, Request(p) \/ Step(p), NEW c \in Commander
  PROVE  Drops(p, c)
<1> USE DEF TypeOK
<1>1. ASSUME NEW k \in Automation, NEW d \in Parent, StartWrite(p, k, d) PROVE Drops(p, c)
  BY <1>1 DEF StartWrite, Drops, tree
<1>2. ASSUME NEW e \in Commander, StartLaunch(p, e) PROVE Drops(p, c)
  BY <1>2 DEF StartLaunch, Drops, tree
<1>3. ASSUME NEW e \in Commander, StartDelete(p, e) PROVE Drops(p, c)
  BY <1>3 DEF StartDelete, Drops, tree
<1>4. ASSUME NEW e \in Commander, StartProvision(p, e) PROVE Drops(p, c)
  BY <1>4 DEF StartProvision, Drops, tree
<1>5. CASE GrantLock(p)
  BY <1>5 DEF GrantLock, Drops, tree
<1>6. CASE RefuseLock(p)
  BY <1>6 DEF RefuseLock, Drops, tree
<1>7. CASE Unwind(p)
  BY <1>7 DEF Unwind, Drops, tree
<1>8. CASE WriteAutomation(p)
  BY <1>8 DEF WriteAutomation, Drops, tree
<1>9. CASE ReturnWrite(p)
  BY <1>9 DEF ReturnWrite, Drops, tree
<1>10. CASE ObserveAgain(p)
  BY <1>10 DEF ObserveAgain, Drops, tree
<1>11. CASE Admit(p)
  BY <1>11 DEF Admit, Drops, tree
<1>12. CASE RunLaunch(p)
  BY <1>12 DEF RunLaunch, Drops, tree
<1>13. CASE ActivateConversation(p)
  BY <1>13 DEF ActivateConversation, Drops, tree
<1>14. CASE ReturnLaunch(p)
  BY <1>14 DEF ReturnLaunch, Drops, tree
<1>15. CASE CompleteActivity(p)
  BY <1>15 DEF CompleteActivity, Drops, tree
<1>16. CASE Survey(p)
  BY <1>16 DEF Survey, Drops, tree
<1>17. CASE ArchiveConversation(p)
  BY <1>17 DEF ArchiveConversation, Drops, tree
<1>18. CASE ReturnArchive(p)
  BY <1>18 DEF ReturnArchive, Drops, tree
<1>19. CASE Sweep(p)
  BY <1>19 DEF Sweep, Drops, tree
<1>20. CASE Reserve(p)
  BY <1>20 DEF Reserve, Drops, tree
<1>21. CASE DeleteSession(p)
  BY <1>21 DEF DeleteSession, Drops, TreeTypes, KindInv, KindAt
<1>22. CASE DeletionFails(p)
  BY <1>22 DEF DeletionFails, Drops, tree
<1>23. CASE CloseLease(p)
  BY <1>23 DEF CloseLease, Drops, tree
<1>24. CASE Publish(p)
  BY <1>24 DEF Publish, Drops, tree
<1>25. CASE CreateSession(p)
  BY <1>25 DEF CreateSession, Drops, TreeTypes
<1>26. CASE CreateConversation(p)
  BY <1>26 DEF CreateConversation, Drops, tree
<1>27. CASE EndProvision(p)
  BY <1>27 DEF EndProvision, Drops, tree
<1>28. CASE RollbackConversation(p)
  BY <1>28 DEF RollbackConversation, Drops, tree
<1>29. ASSUME NEW k \in Automation, DeleteChild(p, k) PROVE Drops(p, c)
  BY <1>29 DEF DeleteChild, Drops, tree
<1>30. ASSUME NEW k \in Automation, SeedAutomation(p, k) PROVE Drops(p, c)
  BY <1>30 DEF SeedAutomation, Drops, tree
<1>31. QED
  BY <1>1, <1>2, <1>3, <1>4, <1>5, <1>6, <1>7, <1>8, <1>9, <1>10, <1>11, <1>12,
     <1>13, <1>14, <1>15, <1>16, <1>17, <1>18, <1>19, <1>20, <1>21, <1>22, <1>23,
     <1>24, <1>25, <1>26, <1>27, <1>28, <1>29, <1>30 DEF Request, Step

\* A tombstone is set on a bare commander and nothing is put below it again.
LEMMA TombstoneStep ==
  TypeOK /\ KindInv /\ OrderInv /\ FreshInv /\ AcceptInv /\ LeaseInv /\ DeletionInv
    /\ TombstoneHasNoChildren /\ TypeOK' /\ [Next]_vars => TombstoneHasNoChildren'
<1>1. ASSUME TypeOK, KindInv, OrderInv, FreshInv, AcceptInv, LeaseInv, DeletionInv,
             TombstoneHasNoChildren, TypeOK', NEW p \in Proc, Request(p) \/ Step(p),
             NEW c \in Commander, cleanupState'[c] = "deleted"
      PROVE  ~session'[c] /\ ~conv'[c] /\ activities'[c] = 0 /\ Children(c)' = {}
  <2>1. CASE cleanupState[c] = "deleted"
    <3>1. ~session[c] /\ ~conv[c] /\ activities[c] = 0 /\ Children(c) = {}
      BY <1>1, <2>1 DEF TombstoneHasNoChildren
    <3>2. ~Writing(p, c)
      BY <1>1, <2>1 DEF Writing, AcceptInv, LockingP, Accepts
    <3>3. ~Seeding(p, c)
      BY <1>1, <2>1 DEF Seeding, LeaseInv, LeasedP, LeasePcs
    <3>4. ~Grows(c) /\ ~Appears(c)
      BY <1>1, <3>2, <3>3, GrowStep DEF GrowsOnly
    <3>5. activities'[c] = 0
      BY <1>1, <2>1, <3>1, CountersStep, CountersFacts DEF Accepts
    <3>6. QED
      BY <1>1, <3>1, <3>4, <3>5 DEF Grows, Appears, TypeOK, TreeTypes
  <2>2. CASE cleanupState[c] # "deleted"
    <3>1. /\ pc[p] = "closing" /\ outcome[p] = "deleted" /\ com[p] = c
          /\ UNCHANGED <<session, conv, owner, activities>>
      BY <1>1, <2>2, EntombsStep DEF Entombs
    <3>2. ~session[c] /\ ~conv[c] /\ Children(c) = {}
      BY <1>1, <3>1 DEF DeletionInv
    <3>3. activities[c] = 0
      BY <1>1, <3>1 DEF LeaseInv, LeasedP, LeasePcs
    <3>4. QED
      BY <3>1, <3>2, <3>3 DEF Children
  <2>3. QED
    BY <2>1, <2>2
<1>2. ASSUME TombstoneHasNoChildren, UNCHANGED vars PROVE TombstoneHasNoChildren'
  BY <1>2 DEF TombstoneHasNoChildren, vars, Children
<1>3. QED
  BY <1>1, <1>2 DEF Next, TombstoneHasNoChildren

-----------------------------------------------------------------------------
(***************************************************************************)
(* The theorems                                                            *)
(***************************************************************************)

\* The server starts in a state of the invariant.
LEMMA InvInit == Init => Inv
<1> SUFFICES ASSUME Init PROVE Inv
  OBVIOUS
<1>1. TypeOK
  <2>1. CoordTypes
    BY DEF Init, CoordTypes
  <2>2. TreeTypes
    BY DEF Init, TreeTypes
  <2>3. RequestTypes
    BY LifecycleAssumption
       DEF Init, RequestTypes, Pcs, WaitPcs, LeasePcs, Kinds, Writes, Outcomes, Parent
  <2>4. QED
    BY <2>1, <2>2, <2>3 DEF TypeOK
<1>2. \A p \in Proc : pc[p] = "idle" /\ kind[p] = "none" /\ got[p] = 0 /\ order[p] = <<>>
  BY DEF Init
<1>3. KindInv
  BY <1>2 DEF KindInv, KindAt, Writes, LockingP
<1>4. OrderInv
  <2>1. \A p \in Proc : Len(order[p]) = 0
    <3>1. Len(<<>>) = 0
      OBVIOUS
    <3>2. QED
      BY <1>2, <3>1, Zenon
  <2>2. SUFFICES ASSUME NEW p \in Proc PROVE OrderAt(p)
    BY DEF OrderInv
  <2>3. ~LockingP(p) /\ ~QueuedP(p) /\ ~LeasedP(p) /\ pc[p] = "idle"
    BY <1>2 DEF LockingP, QueuedP, LeasedP, LeasePcs
  <2>4. QED
    BY <1>2, <2>1, <2>3 DEF OrderAt
<1>5. HeadInv
  BY <1>2 DEF HeadInv, Holds
<1>6. AcceptInv
  BY <1>2 DEF AcceptInv, LockingP
<1>7. LeaseInv
  BY <1>2 DEF LeaseInv, LeasedP, LeasePcs, Init
<1>8. FreshInv
  BY <1>2 DEF FreshInv
<1>9. ObservationInv
  BY <1>2 DEF ObservationInv
<1>10. DeletionInv
  BY <1>2 DEF DeletionInv
<1>11. TombstoneHasNoChildren
  BY DEF TombstoneHasNoChildren, Init
<1>12. QueueInv
  <2>1. SUFFICES ASSUME NEW c \in Commander PROVE QueueAt(c)
    BY DEF QueueInv
  <2>2. tail[c] = <<>>
    BY DEF Init
  <2>3. \A i : i \notin 1..Len(tail[c])
    <3>1. Len(<<>>) = 0
      OBVIOUS
    <3>2. QED
      BY <2>2, <3>1
  <2>4. ASSUME NEW p \in Proc PROVE ~InLine(p, c)
    <3>1. pc[p] = "idle" /\ got[p] = 0
      BY <1>2
    <3>2. ~Waits(p, c)
      BY <3>1 DEF Waits, WaitPcs
    <3>3. ~Holds(p, c)
      BY <3>1 DEF Holds
    <3>4. QED
      BY <3>2, <3>3 DEF InLine
  <2>5. QED
    BY <2>3, <2>4 DEF QueueAt, Queued
<1>13. ActivityInv
  <2>1. SUFFICES ASSUME NEW c \in Commander
        PROVE  IsFiniteSet(Admissions(c)) /\ activities[c] = Cardinality(Admissions(c))
    BY DEF ActivityInv
  <2>2. Admissions(c) = {} /\ activities[c] = 0
    BY <1>2 DEF Admissions, Init
  <2>3. QED
    BY <2>2, FS_EmptySet
<1>14. QED
  BY <1>1, <1>3, <1>4, <1>5, <1>6, <1>7, <1>8, <1>9, <1>10, <1>11, <1>12, <1>13 DEF Inv

\* Every step of every request keeps the invariant.
LEMMA InvStep == Inv /\ [Next]_vars => Inv'
<1> SUFFICES ASSUME Inv, [Next]_vars PROVE Inv'
  OBVIOUS
<1> USE DEF Inv
<1>1. TypeOK'
  BY TypeStep
<1>2. KindInv'
  BY KindStep DEF TypeOK
<1>3. OrderInv'
  BY OrderStep
<1>4. HeadInv'
  BY HeadStep
<1>5. AcceptInv'
  BY AcceptStep
<1>6. LeaseInv'
  BY LeaseStep
<1>7. FreshInv'
  BY FreshStep
<1>8. ObservationInv'
  BY <1>1, <1>2, ObservationStep
<1>9. DeletionInv'
  BY <1>1, <1>2, DeletionStep
<1>10. TombstoneHasNoChildren'
  BY <1>1, TombstoneStep
<1>11. QueueInv'
  BY QueueStep
<1>12. ActivityInv'
  BY ActivityStep
<1>13. QED
  BY <1>1, <1>2, <1>3, <1>4, <1>5, <1>6, <1>7, <1>8, <1>9, <1>10, <1>11, <1>12

\* Inv is an invariant for any number of requests, commanders and automations.
THEOREM InvCorrect == Spec => []Inv
<1>1. Init => Inv
  BY InvInit
<1>2. Inv /\ [Next]_vars => Inv'
  BY InvStep
<1>3. QED
  BY <1>1, <1>2, PTL DEF Spec

\* The coordinator's map, the tree and the locals of every request have their
\* types in every reachable state.
THEOREM TypeCorrect == Spec => []TypeOK
<1>1. Inv => TypeOK
  BY DEF Inv
<1>2. QED
  BY <1>1, InvCorrect, PTL

\* While a commander is leased, its leaseholder is the only request that holds
\* its lock and no runtime activity is admitted (child-mutation-coordinator.ts).
THEOREM LeaseCorrect == Spec => []LeaseIsExclusive
<1>1. Inv => LeaseIsExclusive
  <2>1. SUFFICES ASSUME Inv, NEW c \in Commander, cleanupState[c] = "active"
        PROVE  \E p \in Proc :
                 /\ com[p] = c /\ pc[p] \in LeasePcs
                 /\ activities[c] = 0
                 /\ \A q \in Proc : Holds(q, c) => q = p
    BY DEF LeaseIsExclusive
  <2>2. PICK p \in Proc : LeasedP(p) /\ com[p] = c
    BY <2>1 DEF Inv, LeaseInv
  <2>3. activities[c] = 0
    BY <2>1 DEF Inv, LeaseInv
  <2>4. Holds(p, c)
    BY <2>1, <2>2 DEF Inv, OrderInv, OrderAt, Holds
  <2>5. \A q \in Proc : Holds(q, c) => q = p
    BY <2>1, <2>4 DEF Inv, HeadInv, IsHead
  <2>6. QED
    BY <2>2, <2>3, <2>5 DEF LeasedP
<1>2. QED
  BY <1>1, InvCorrect, PTL

\* A tombstoned commander has no record, no open conversation, no automation
\* and no admitted launch (commander-deletion.ts, register-core.ts).
THEOREM TombstoneCorrect == Spec => []TombstoneHasNoChildren
<1>1. Inv => TombstoneHasNoChildren
  BY DEF Inv
<1>2. QED
  BY <1>1, InvCorrect, PTL

\* A commander's record is the last thing a deletion removes, so a crash at any
\* point leaves the anchor to retry from (deleteCommanderStateOwned).
THEOREM AnchorCorrect == Spec => AnchorGoesLast
<1> DEFINE Anchored == \A c \in Commander :
             session[c] /\ ~session'[c] => Children(c) = {} /\ ~conv[c]
<1>1. Inv /\ [Next]_vars => [Anchored]_vars
  <2>1. SUFFICES ASSUME Inv, NEW p \in Proc, Request(p) \/ Step(p), NEW c \in Commander,
                        session[c], ~session'[c]
        PROVE  Children(c) = {} /\ ~conv[c]
    BY DEF Next
  <2>2. Drops(p, c)
    BY <2>1, DropsStep DEF Inv
  <2>3. com[p] = c /\ pc[p] \in {"leased", "rollback"} /\ ChildrenGone(p)
          /\ (pc[p] = "rollback" => ~conv[c])
    BY <2>1, <2>2 DEF Drops
  <2>4. Children(c) \subseteq swept[p] /\ (pc[p] = "leased" => ~conv[c])
    BY <2>1, <2>3 DEF Inv, DeletionInv
  <2>5. QED
    BY <2>3, <2>4 DEF ChildrenGone, Children
<1>2. QED
  BY <1>1, InvCorrect, PTL DEF Spec, AnchorGoesLast

\* A tombstone is final and nothing is put below it again (the "deleted" state
\* of reserve, begin and withCommanderMutation).
THEOREM TombstoneFinalCorrect == Spec => TombstoneIsFinal
<1> DEFINE Final == \A c \in Commander :
             cleanupState[c] = "deleted" =>
               /\ cleanupState'[c] = "deleted"
               /\ Children(c)' \subseteq Children(c)
               /\ ~session'[c]
<1>1. Inv /\ [Next]_vars => [Final]_vars
  <2>1. SUFFICES ASSUME Inv, NEW p \in Proc, Request(p) \/ Step(p), NEW c \in Commander,
                        cleanupState[c] = "deleted"
        PROVE  cleanupState'[c] = "deleted" /\ Children(c)' \subseteq Children(c) /\ ~session'[c]
    BY DEF Next
  <2>2. cleanupState'[c] = "deleted"
    BY <2>1, TombstoneStays DEF Inv
  <2>3. TombstoneHasNoChildren'
    BY <2>1, InvStep DEF Inv, Next
  <2>4. ~session'[c] /\ Children(c)' = {}
    BY <2>2, <2>3 DEF TombstoneHasNoChildren
  <2>5. QED
    BY <2>2, <2>4
<1>2. QED
  BY <1>1, InvCorrect, PTL DEF Spec, TombstoneIsFinal

=============================================================================
