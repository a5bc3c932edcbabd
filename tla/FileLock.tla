-------------------------------- MODULE FileLock --------------------------------
(***************************************************************************)
(* The lock file that keeps one writer at a time on a data directory or on *)
(* a file: processes of several hosts create it exclusively, judge what    *)
(* they find in it, break it when its owner is gone, and remove it when    *)
(* they are done.  Reading, removing and creating are separate steps of    *)
(* the file system, any of which may fail, and a process may die between   *)
(* any two of them.                                                        *)
(***************************************************************************)
EXTENDS Naturals

CONSTANTS
  Proc,    \* processes, each started once
  HostOf,  \* the host of a process
  PidOf,   \* its process id, which a later process of the host may get again
  Absent, None

VARIABLES
  file,     \* the lock file: whose it is and what can be read in it
  pc,       \* where each process is in acquireFileLock and release
  judged,   \* the owner each process that is about to break has judged to be gone
  options,  \* staleMs and handoff of the callers
  rival,    \* history: two processes have judged the same lock to be gone
  misjudged \* history: the lock of a process that was using it was taken for a leftover

vars == <<file, pc, judged, options, rival, misjudged>>

\* "empty" or partly written without a scope, partly written with one, complete.
Content == {"empty", "scoped", "complete"}
File    == [owner : Proc, content : Content, old : BOOLEAN]

ASSUME FileLockAssumption == None \notin Proc /\ Absent \notin File

\* Of withFileMutationLock, and of the store lock off and on a checked volume.
Options == {[staleMs |-> FALSE, handoff |-> FALSE],
            [staleMs |-> TRUE, handoff |-> FALSE],
            [staleMs |-> TRUE, handoff |-> TRUE]}

Init ==
  /\ file = Absent
  /\ pc = [p \in Proc |-> "unborn"]
  /\ judged = [p \in Proc |-> None]
  /\ options \in Options
  /\ rival = FALSE /\ misjudged = FALSE

Alive(p) == pc[p] \notin {"unborn", "dead"}

\* process.kill(pid, 0) on the host of the owner: any process may have its pid.
PidIsAlive(q) == \E r \in Proc : Alive(r) /\ HostOf[r] = HostOf[q] /\ PidOf[r] = PidOf[q]

Goes(p, to) == pc' = [pc EXCEPT ![p] = to]

\* Where the lock file should be the one the process has created.
Owning == {"writing", "holding", "removing"}

--------------------------------------------------------------------------------
\* A pid is free for a new process when its last owner has died; the platform
\* mounts a checked volume on one host at a time.
Start(p) ==
  /\ pc[p] = "unborn"
  /\ \A q \in Proc : Alive(q) =>
       /\ HostOf[q] = HostOf[p] => PidOf[q] # PidOf[p]
       /\ options.handoff => HostOf[q] = HostOf[p]
  /\ Goes(p, "idle")
  /\ UNCHANGED <<file, judged, options, rival, misjudged>>

Die(p) ==
  /\ Alive(p)
  /\ Goes(p, "dead")
  /\ judged' = [judged EXCEPT ![p] = None]
  /\ UNCHANGED <<file, options, rival, misjudged>>

\* open(lockPath, 'wx'): the lock is created, or it is there (EEXIST) and the
\* caller goes to exists, or any other error ends the attempt.
Create(p, exists) ==
  /\ \/ /\ file = Absent
        /\ file' = [owner |-> p, content |-> "empty", old |-> FALSE]
        /\ Goes(p, "writing")
     \/ file # Absent /\ UNCHANGED file /\ Goes(p, exists)
     \/ UNCHANGED file /\ Goes(p, "failed")
  /\ UNCHANGED <<judged, options, rival, misjudged>>

\* Deviation from Acquire: a lock that is there is broken without being judged.
AcquireBreaks(p) == pc[p] \in {"idle", "failed"} /\ Create(p, "breaking")

\* A lock that is there the first time is judged, the second time it is refused.
Acquire(p) == pc[p] \in {"idle", "failed"} /\ Create(p, "judging")
Again(p)   == pc[p] = "again" /\ Create(p, "idle")

\* The metadata reaches the file that was opened, even if it is gone by now.
Write(p) ==
  /\ pc[p] = "writing"
  /\ \/ /\ options.handoff /\ file # Absent /\ file.owner = p /\ file.content = "empty"
        /\ file' = [file EXCEPT !.content = "scoped", !.old = FALSE]
        /\ UNCHANGED pc
     \/ /\ file' = IF file # Absent /\ file.owner = p
                     THEN [file EXCEPT !.content = "complete", !.old = FALSE] ELSE file
        /\ Goes(p, "holding")
     \/ /\ file' \in {Absent, file}   \* the write fails: whatever is there is removed,
        /\ Goes(p, "failed")          \* if that does not fail too
  /\ UNCHANGED <<judged, options, rival, misjudged>>

\* Deviation from OwnerIsGone: the pid of another host is looked up on this one.
PidIsNotHere(p, q) ==
  ~\E r \in Proc : Alive(r) /\ HostOf[r] = HostOf[p] /\ PidOf[r] = PidOf[q]

\* On its own host the pid decides, of another host only a handoff.
OwnerIsGone(p, q) ==
  IF HostOf[q] = HostOf[p] THEN ~PidIsAlive(q) ELSE options.handoff

ToBreaking(p, q) ==
  /\ Goes(p, "breaking")
  /\ judged' = [judged EXCEPT ![p] = q]
  /\ rival' = (rival \/ \E r \in Proc \ {p} : pc[r] = "breaking")
  /\ misjudged' = (misjudged \/ pc[q] \in Owning)

\* shouldBreakLock reads the metadata; a file that is gone reads as an empty one,
\* and so does any file the read of which fails.
Judge(p) ==
  /\ pc[p] = "judging"
  /\ \E found \in {"empty"} \cup (IF file = Absent THEN {} ELSE {file.content}) :
       \/ /\ found = "complete" /\ OwnerIsGone(p, file.owner)
          /\ ToBreaking(p, file.owner)
       \/ /\ \/ found = "complete" /\ ~OwnerIsGone(p, file.owner)
             \/ found = "scoped"
          /\ Goes(p, "idle") /\ UNCHANGED <<judged, rival, misjudged>>
       \/ /\ found = "empty"
          /\ Goes(p, IF options.staleMs THEN "aging" ELSE "failed")
          /\ UNCHANGED <<judged, rival, misjudged>>
  /\ UNCHANGED <<file, options>>

\* shouldBreakLock looks at the time of the last change, which may fail as well.
Age(p) ==
  /\ pc[p] = "aging"
  /\ \/ /\ file # Absent /\ file.old
        /\ ToBreaking(p, file.owner)
     \/ Goes(p, "failed") /\ UNCHANGED <<judged, rival, misjudged>>
  /\ UNCHANGED <<file, options>>

\* rm with force, whatever the file has become, then the second create; an error
\* other than a file that is gone ends the attempt.
Break(p) ==
  /\ pc[p] = "breaking"
  /\ \/ file' = Absent /\ Goes(p, "again")
     \/ file # Absent /\ UNCHANGED file /\ Goes(p, "failed")
  /\ judged' = [judged EXCEPT ![p] = None]
  /\ UNCHANGED <<options, rival, misjudged>>

\* removeLockIfOwned compares the token, then removes the file; either may fail,
\* and nothing is said of it.
Release(p) ==
  /\ pc[p] = "holding"
  /\ \/ /\ file # Absent /\ file.owner = p /\ file.content = "complete"
        /\ Goes(p, "removing")
     \/ Goes(p, "idle")
  /\ UNCHANGED <<file, judged, options, rival, misjudged>>

Remove(p) ==
  /\ pc[p] = "removing"
  /\ file' \in {Absent, file}
  /\ Goes(p, "idle")
  /\ UNCHANGED <<judged, options, rival, misjudged>>

\* An hour passes after the file was last written, whoever has the lock by now.
GrowOld ==
  /\ file # Absent /\ ~file.old
  /\ file' = [file EXCEPT !.old = TRUE]
  /\ UNCHANGED <<pc, judged, options, rival, misjudged>>

--------------------------------------------------------------------------------
Step(p) == Again(p) \/ Write(p) \/ Judge(p) \/ Age(p) \/ Break(p) \/ Remove(p)

Next ==
  \/ \E p \in Proc : Step(p) \/ Start(p) \/ Die(p) \/ Acquire(p) \/ Release(p)
  \/ GrowOld

Spec == Init /\ [][Next]_vars

\* A call that has begun goes on; nobody has to begin one, to release or to die.
FairSpec == Spec /\ \A p \in Proc : WF_vars(Step(p))

--------------------------------------------------------------------------------
(***************************************************************************)
(* Properties                                                              *)
(***************************************************************************)

\* The types; a lock file belongs to a process that was started, and only who has
\* judged breaks.
TypeOK ==
  /\ file \in File \cup {Absent} /\ options \in Options
  /\ rival \in BOOLEAN /\ misjudged \in BOOLEAN
  /\ pc \in [Proc -> {"unborn", "idle", "failed", "judging", "aging", "breaking", "again",
                      "writing", "holding", "removing", "dead"}]
  /\ judged \in [Proc -> Proc \cup {None}]
  /\ file # Absent => pc[file.owner] # "unborn"
  /\ \A p \in Proc : pc[p] = "breaking" => judged[p] # None

\* At most one process holds the lock, through crashes, reused pids, failing calls
\* of the file system, leftovers and handoffs between hosts, until two processes
\* are about to break the same leftover (the second removes the lock the first has
\* taken) or, with staleMs, a failed read lets the lock of a holder be judged by
\* the hour since it was acquired.
Exclusive ==
  rival \/ (options.staleMs /\ misjudged)
    \/ \A p, q \in Proc : pc[p] = "holding" /\ pc[q] = "holding" => p = q

\* A process that holds the lock finds its own record in the file, under the
\* same conditions, so the lock still says whom to wait for.
HolderIsNamed ==
  \A p \in Proc : pc[p] = "holding" =>
    rival \/ (options.staleMs /\ misjudged)
      \/ (file # Absent /\ file.owner = p /\ file.content = "complete")

\* The complete lock of a dead process is gone after one attempt of a process
\* that may judge it, unless that one dies as well, a call of the file system
\* fails it (it could not read the lock or not remove it), or the pid is in use
\* again.
MayJudge(p, q) ==
  /\ pc[q] = "dead" /\ (HostOf[p] = HostOf[q] \/ options.handoff)
  /\ \A r \in Proc \ {q} : HostOf[r] = HostOf[q] => PidOf[r] # PidOf[q]

Recovers ==
  \A p, q \in Proc :
    pc[p] = "judging" /\ file # Absent /\ file.owner = q /\ file.content = "complete" /\ MayJudge(p, q)
      ~> file = Absent \/ file.owner # q \/ pc[p] \in {"dead", "failed"}
================================================================================
