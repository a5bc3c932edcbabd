------------------------ MODULE CommanderLifecycleInv ------------------------
(***************************************************************************)
(* The inductive invariant behind the safety properties of                 *)
(* CommanderLifecycle: checked with TLC, proved in CommanderLifecycleProofs.*)
(***************************************************************************)
EXTENDS CommanderLifecycle, FiniteSets

\* Where a request holds no lock.
LooseP(p) == pc[p] \in {"idle", "observe", "running", "survey", "sweep"}
\* Where it queues for the lock of its commander alone.
QueuedP(p) == pc[p] \in {"admit", "complete", "reserve", "publish"}
LeasedP(p) == pc[p] \in LeasePcs
\* Where it queues for, or holds, the locks of a write.
LockingP(p) == pc[p] \in {"waiting", "write"}

\* Which kind of request can be where, and that it names what it is about.
KindAt(p) ==
  /\ kind[p] \in {"launch", "delete", "provision"} => com[p] \in Commander
  /\ kind[p] \in Writes => item[p] \in Automation
  /\ pc[p] \in {"admit", "running", "complete"} => kind[p] = "launch"
  /\ pc[p] \in {"survey", "sweep", "reserve", "leased"} => kind[p] = "delete"
  /\ pc[p] \in {"publish", "provisioning", "rollback"} => kind[p] = "provision"
  /\ pc[p] = "closing" => kind[p] \in {"delete", "provision"}
  /\ pc[p] = "observe" => kind[p] \in Writes
  /\ LockingP(p) \/ pc[p] = "unwind" => kind[p] \in Writes \cup {"launch", "delete"}
  /\ pc[p] = "idle" => kind[p] = "none"

KindInv == \A p \in Proc : KindAt(p)

\* How many of its locks a request holds, and which they are.
OrderAt(p) ==
  /\ got[p] <= Len(order[p])
  /\ \A i, j \in 1..Len(order[p]) : order[p][i] = order[p][j] => i = j
  /\ LooseP(p) => got[p] = 0
  /\ QueuedP(p) => order[p] = <<com[p]>> /\ got[p] = 0
  /\ LeasedP(p) => order[p] = <<com[p]>> /\ got[p] = 1
  /\ pc[p] = "waiting" => got[p] < Len(order[p])
  /\ pc[p] = "write" => got[p] = Len(order[p])
  /\ LockingP(p) /\ kind[p] \in Writes => order[p] = LockOrder(from[p], dest[p])
  /\ LockingP(p) /\ kind[p] \notin Writes => order[p] = <<com[p]>>

OrderInv == \A p \in Proc : OrderAt(p)

\* A lock that is held is held by the head of its queue, so by one request.
HeadInv == \A p \in Proc, c \in Commander : Holds(p, c) => IsHead(p, c)

\* A request waits for the lock of c, and is in its queue: waiting or at the head.
Waits(p, c)  == pc[p] \in WaitPcs /\ got[p] < Len(order[p]) /\ order[p][got[p] + 1] = c
InLine(p, c) == Waits(p, c) \/ Holds(p, c)
Queued(p, c) == \E i \in 1..Len(tail[c]) : tail[c][i] = p

\* The queue of a lock has those who wait for it or hold it, each of them once.
QueueAt(c) ==
  /\ \A i, j \in 1..Len(tail[c]) : tail[c][i] = tail[c][j] => i = j
  /\ \A p \in Proc : Queued(p, c) <=> InLine(p, c)

QueueInv == \A c \in Commander : QueueAt(c)

\* The launches of c that are admitted and not completed, which is their count.
Admissions(c) == {q \in Proc : kind[q] = "launch" /\ com[q] = c /\ pc[q] # "admit"}

ActivityInv ==
  \A c \in Commander :
    IsFiniteSet(Admissions(c)) /\ activities[c] = Cardinality(Admissions(c))

\* A commander whose lock is held by a write accepts writes.
AcceptInv ==
  \A p \in Proc, c \in Commander : LockingP(p) /\ Holds(p, c) => Accepts(c)

\* The cleanup state says exactly who has a lease.
LeaseInv ==
  /\ \A p \in Proc : LeasedP(p) => cleanupState[com[p]] = "active"
  /\ \A c \in Commander :
       /\ version[c] = 0 => activities[c] = 0
       /\ cleanupState[c] = "active" =>
            activities[c] = 0 /\ \E p \in Proc : LeasedP(p) /\ com[p] = c

\* Nobody but a DELETE that will answer 404 knows an id not yet published.
FreshInv ==
  \A p \in Proc : pc[p] = "publish" =>
    /\ ~session[com[p]]
    /\ activities[com[p]] = 0
    /\ \A q \in Proc : q # p /\ com[q] = com[p] => pc[q] = "survey"

\* A write that returned but has not advanced the generation of c yet.
Pending(q, c) == pc[q] = "unwind" /\ outcome[q] # "fail" /\ Holds(q, c)

\* A launch whose write may have failed with the memory changed, and whose
\* activity p will meet, because it ends behind p in the queue.
Before(p, q, c) ==
  \E i, j \in 1..Len(tail[c]) : i < j /\ tail[c][i] = p /\ tail[c][j] = q
Returning(q, c) == kind[q] = "launch" /\ com[q] = c /\ pc[q] = "unwind"
Met(p, q, c) ==
  \/ Returning(q, c)
  \/ kind[q] = "launch" /\ com[q] = c /\ pc[q] = "complete" /\ Before(p, q, c)

\* What a DELETE observed is what is there, or the generation has moved or is
\* about to: by a write that is unwinding or by a provisioning in progress; or
\* else the lease is refused because of a launch that is still counted.
ObservationInv ==
  \A p \in Proc :
    LET c == com[p] IN
    /\ pc[p] \in {"sweep", "reserve"} => seen[p] <= version[c]
    /\ pc[p] = "reserve" /\ seen[p] = version[c] /\ cleanupState[c] # "deleted" =>
         \/ ~conv[c] /\ Children(c) \subseteq swept[p]
         \/ \E q \in Proc : Pending(q, c)
         \/ \E q \in Proc : Met(p, q, c)
         \/ \E q \in Proc : kind[q] = "provision" /\ LeasedP(q) /\ com[q] = c

\* What a deletion under its lease still has to remove is what it listed.
DeletionInv ==
  \A p \in Proc :
    LET c == com[p] IN
    /\ pc[p] = "leased" => ~conv[c] /\ Children(c) \subseteq swept[p]
    /\ pc[p] = "rollback" => Children(c) \subseteq swept[p]
    /\ pc[p] = "closing" /\ outcome[p] = "deleted" =>
         ~session[c] /\ ~conv[c] /\ Children(c) = {}

\* What every step preserves: who holds which lock, what a lock and a lease
\* exclude, and how long the observation of a DELETE stays true.
Inv ==
  /\ TypeOK /\ KindInv /\ OrderInv /\ HeadInv /\ QueueInv /\ AcceptInv
  /\ LeaseInv /\ ActivityInv /\ FreshInv /\ ObservationInv /\ DeletionInv
  /\ TombstoneHasNoChildren

=============================================================================
