----------------------------- MODULE FileLockProofs -----------------------------
(***************************************************************************)
(* TLAPS proofs of the safety properties of FileLock.                      *)
(***************************************************************************)
EXTENDS FileLock, TLAPS

\* On a checked volume all running processes are on one host.
OneHost ==
  options.handoff => \A p, q \in Proc : Alive(p) /\ Alive(q) => HostOf[p] = HostOf[q]

\* Between its creation and its removal the file is that of its process, with a
\* complete record from the moment the lock is held; who is about to break it
\* has judged a process that does not use it, and the file is still the one it
\* judged.
Ownership(p) ==
  /\ pc[p] \in Owning => file # Absent /\ file.owner = p
  /\ pc[p] \in Owning \ {"writing"} => file.content = "complete"
  /\ pc[p] = "breaking" =>
       file # Absent /\ file.owner = judged[p] /\ pc[judged[p]] \notin Owning

\* No two processes are about to break the file.
OneBreaker == \A p, q \in Proc : pc[p] = "breaking" /\ pc[q] = "breaking" => p = q

\* What every step preserves; only the age of a file lets a lock in use be taken
\* for a leftover, and the owner of the file matters until that happens or two
\* processes have judged the same one to be gone.
Inv ==
  /\ TypeOK /\ OneHost
  /\ misjudged \/ (\E p \in Proc : pc[p] = "aging") => options.staleMs
  /\ ~rival /\ ~misjudged => OneBreaker /\ \A p \in Proc : Ownership(p)

--------------------------------------------------------------------------------
\* Who may be judged gone is dead: its pid is free on its own host, or a handoff
\* has moved the volume and every running process away from it.
LEMMA GoneIsDead ==
  ASSUME TypeOK, OneHost, NEW p \in Proc, NEW q \in Proc,
         Alive(p), pc[q] # "unborn", OwnerIsGone(p, q)
  PROVE  pc[q] = "dead"
<1>1. CASE HostOf[q] = HostOf[p]
  BY <1>1 DEF OwnerIsGone, PidIsAlive, Alive
<1>2. CASE HostOf[q] # HostOf[p]
  BY <1>2 DEF OwnerIsGone, OneHost, Alive
<1>3. QED
  BY <1>1, <1>2

\* The invariant holds in the initial states.
LEMMA InvInit == Init => Inv
  BY FileLockAssumption
  DEF Init, Inv, TypeOK, OneHost, OneBreaker, Ownership, Owning, Options, File, Alive

\* Every step keeps the types.
LEMMA TypeStep == TypeOK /\ [Next]_vars => TypeOK'
<1> SUFFICES ASSUME TypeOK, [Next]_vars PROVE TypeOK'
  OBVIOUS
<1> USE DEF TypeOK, Goes
<1>1. ASSUME NEW p \in Proc, Start(p) PROVE TypeOK'
  BY <1>1, FileLockAssumption DEF Start
<1>2. ASSUME NEW p \in Proc, Die(p) PROVE TypeOK'
  BY <1>2, FileLockAssumption DEF Die, Alive, File
<1>3. ASSUME NEW p \in Proc, NEW to \in {"judging", "idle"}, Create(p, to),
             pc[p] \in {"idle", "failed", "again"}
      PROVE TypeOK'
  <2>1. CASE UNCHANGED file
    BY <1>3, <2>1, FileLockAssumption DEF Create, File
  <2>2. CASE file' = [owner |-> p, content |-> "empty", old |-> FALSE] /\ Goes(p, "writing")
    <3>1. file' \in File /\ file'.owner = p
      BY <2>2 DEF File, Content
    <3>2. QED
      BY <1>3, <2>2, <3>1 DEF Create
  <2>3. QED
    BY <1>3, <2>1, <2>2 DEF Create
<1>5. ASSUME NEW p \in Proc, Write(p) PROVE TypeOK'
  <2>1. /\ file' \in File \cup {Absent}
        /\ file' # Absent => file # Absent /\ file'.owner = file.owner
    <3>1. CASE file' = file \/ file' = Absent
      BY <3>1
    <3>2. ASSUME file # Absent, NEW c \in Content,
                 file' = [file EXCEPT !.content = c, !.old = FALSE]
          PROVE  file' \in File /\ file'.owner = file.owner
      BY <3>2 DEF File
    <3>3. \/ file' = file \/ file' = Absent
          \/ file # Absent /\ file' = [file EXCEPT !.content = "scoped", !.old = FALSE]
          \/ file # Absent /\ file' = [file EXCEPT !.content = "complete", !.old = FALSE]
      BY <1>5 DEF Write
    <3>4. "scoped" \in Content /\ "complete" \in Content
      BY DEF Content
    <3>5. QED
      BY <3>1, <3>2, <3>3, <3>4
  <2>2. UNCHANGED <<judged, options, rival, misjudged>> /\ pc[p] = "writing"
    BY <1>5 DEF Write
  <2>3. pc' = pc \/ Goes(p, "holding") \/ Goes(p, "failed")
    BY <1>5 DEF Write
  <2>4. QED
    BY <2>1, <2>2, <2>3, FileLockAssumption DEF File
<1>6. ASSUME NEW p \in Proc, file # Absent, ToBreaking(p, file.owner), UNCHANGED <<file, options>>,
             pc[p] \in {"judging", "aging"}
      PROVE TypeOK'
  <2>1. file.owner \in Proc /\ file.owner # None
    BY <1>6, FileLockAssumption DEF File
  <2>2. rival' \in BOOLEAN /\ misjudged' \in BOOLEAN
    BY <1>6 DEF ToBreaking
  <2>3. QED
    BY <1>6, <2>1, <2>2 DEF ToBreaking
<1>7. ASSUME NEW p \in Proc, NEW to \in {"idle", "failed", "aging"}, Goes(p, to),
             pc[p] \in {"judging", "aging"}, UNCHANGED <<file, judged, options, rival, misjudged>>
      PROVE TypeOK'
  BY <1>7, FileLockAssumption DEF File
<1>8. ASSUME NEW p \in Proc, Judge(p) PROVE TypeOK'
  <2>1. CASE file # Absent /\ ToBreaking(p, file.owner)
    BY <1>6, <1>8, <2>1 DEF Judge
  <2>2. CASE /\ Goes(p, "idle") \/ Goes(p, "failed") \/ Goes(p, "aging")
             /\ UNCHANGED <<judged, rival, misjudged>>
    BY <1>7, <1>8, <2>2 DEF Judge
  <2>3. QED
    BY <1>8, <2>1, <2>2 DEF Judge
<1>9. ASSUME NEW p \in Proc, Age(p) PROVE TypeOK'
  BY <1>6, <1>7, <1>9 DEF Age
<1>10. ASSUME NEW p \in Proc, Break(p) PROVE TypeOK'
  BY <1>10, FileLockAssumption DEF Break, File
<1>11. ASSUME NEW p \in Proc, Release(p) \/ Remove(p) PROVE TypeOK'
  BY <1>11, FileLockAssumption DEF Release, Remove, File
<1>12. CASE GrowOld
  BY <1>12, FileLockAssumption DEF GrowOld, File
<1>13. CASE UNCHANGED vars
  BY <1>13 DEF vars
<1>14. QED
  BY <1>1, <1>2, <1>3, <1>5, <1>8, <1>9, <1>10, <1>11, <1>12, <1>13
  DEF Next, Step, Acquire, Again

\* Every step keeps the running processes of a checked volume on one host: only
\* a start adds one, and it looks at the others.
LEMMA OneHostStep == TypeOK /\ OneHost /\ [Next]_vars => OneHost'
<1> SUFFICES ASSUME TypeOK, OneHost, [Next]_vars PROVE OneHost'
  OBVIOUS
<1>1. options' = options
  BY DEF Next, Step, Start, Die, Acquire, Again, Create, Write, Judge, Age, Break, Release,
         Remove, GrowOld, vars
<1>2. ASSUME NEW p \in Proc, Start(p) PROVE OneHost'
  BY <1>2 DEF Start, TypeOK, OneHost, Alive, Goes
<1>3. ASSUME ~\E p \in Proc : Start(p), NEW p \in Proc, Alive(p)' PROVE Alive(p)
  BY <1>3 DEF Next, Step, Die, Acquire, Again, Create, Write, Judge, Age, Break, Release,
         Remove, GrowOld, vars, Goes, TypeOK, Alive, ToBreaking
<1>4. QED
  BY <1>1, <1>2, <1>3 DEF OneHost

\* Every step takes a lock in use for a leftover by its age only, and looks at the
\* age only where the caller asks for it.
LEMMA AgeStep == Inv /\ [Next]_vars => (misjudged' \/ (\E p \in Proc : pc'[p] = "aging") => options'.staleMs)
<1> SUFFICES ASSUME Inv, [Next]_vars
             PROVE misjudged' \/ (\E p \in Proc : pc'[p] = "aging") => options'.staleMs
  OBVIOUS
<1> USE DEF Inv, TypeOK, Goes
<1>1. options' = options
  BY DEF Next, Step, Start, Die, Acquire, Again, Create, Write, Judge, Age, Break, Release,
         Remove, GrowOld, vars
<1>2. ASSUME NEW p \in Proc, Judge(p) PROVE misjudged' \/ (\E q \in Proc : pc'[q] = "aging") => options.staleMs
  <2>1. CASE file # Absent /\ OwnerIsGone(p, file.owner) /\ ToBreaking(p, file.owner)
    <3>1. pc[file.owner] = "dead"
      BY <1>2, <2>1, GoneIsDead DEF Judge, Alive, File
    <3>2. misjudged' = misjudged
      BY <2>1, <3>1 DEF ToBreaking, Owning
    <3>3. \A q \in Proc : pc'[q] = "aging" => pc[q] = "aging"
      BY <2>1 DEF ToBreaking
    <3>4. QED
      BY <3>2, <3>3
  <2>2. CASE Goes(p, "idle") /\ UNCHANGED misjudged
    BY <1>2, <2>2
  <2>3. CASE /\ Goes(p, IF options.staleMs THEN "aging" ELSE "failed")
             /\ UNCHANGED misjudged
    BY <1>2, <2>3
  <2>4. QED
    BY <1>2, <2>1, <2>2, <2>3 DEF Judge
<1>3. ASSUME NEW p \in Proc, Age(p) PROVE options.staleMs
  BY <1>3 DEF Age
<1>4. CASE ~\E p \in Proc : Judge(p) \/ Age(p)
  <2>1. misjudged' = misjudged
    BY <1>4 DEF Next, Step, Start, Die, Acquire, Again, Create, Write, Judge, Age, Break, Release,
         Remove, GrowOld, vars
  <2>2. ASSUME NEW p \in Proc, pc'[p] = "aging" PROVE pc[p] = "aging"
    BY <1>4, <2>2 DEF Next, Step, Start, Die, Acquire, Again, Create, Write, Judge, Age, Break, Release,
         Remove, GrowOld, vars
  <2>3. QED
    BY <1>1, <2>1, <2>2
<1>5. QED
  BY <1>1, <1>2, <1>3, <1>4

\* Every step keeps the file with its owner, as long as nobody is overtaken.
LEMMA OwnershipStep ==
  ASSUME Inv, [Next]_vars, ~rival', ~misjudged'
  PROVE  OneBreaker' /\ \A p \in Proc : Ownership(p)'
<1> USE DEF TypeOK, Goes, Owning, OneBreaker, Ownership
<1> ~rival /\ ~misjudged
  BY DEF Next, Step, Start, Die, Acquire, Again, Create, Write, Judge, Age, Break, Release,
         Remove, GrowOld, vars,
         Inv, ToBreaking
<1> TypeOK /\ OneHost /\ OneBreaker /\ \A p \in Proc : Ownership(p)
  BY DEF Inv
<1> DEFINE Goal == OneBreaker' /\ \A p \in Proc : Ownership(p)'
<1>1. ASSUME NEW p \in Proc, Start(p) PROVE Goal
  BY <1>1 DEF Start
<1>2. ASSUME NEW p \in Proc, Die(p) PROVE Goal
  BY <1>2 DEF Die, Alive
<1>3. ASSUME NEW p \in Proc, NEW to \in {"judging", "idle"}, Create(p, to),
             pc[p] \in {"idle", "failed", "again"}
      PROVE Goal
  <2>1. CASE file = Absent /\ file' # file
    <3>1. /\ file' = [owner |-> p, content |-> "empty", old |-> FALSE]
          /\ pc' = [pc EXCEPT ![p] = "writing"]
          /\ UNCHANGED <<judged, rival, misjudged>>
      BY <1>3, <2>1 DEF Create
    <3>2. file' \in File /\ file'.owner = p
      BY <3>1 DEF File, Content
    <3>3. \A q \in Proc : pc[q] \notin Owning \cup {"breaking"}
      BY <2>1
    <3>4. file' # Absent
      BY <3>2, FileLockAssumption
    <3>5. QED
      BY <3>1, <3>2, <3>3, <3>4
  <2>2. CASE file = Absent /\ file' = file
    <3>1. \A q \in Proc : pc[q] \notin Owning \cup {"breaking"}
      BY <2>2
    <3>2. file' = [owner |-> p, content |-> "empty", old |-> FALSE] => file' \in File
      BY DEF File, Content
    <3>3. pc' = [pc EXCEPT ![p] = "failed"]
      BY <1>3, <2>2, <3>2, FileLockAssumption DEF Create
    <3>4. QED
      BY <1>3, <2>2, <3>1, <3>3 DEF Create
  <2>3. CASE file # Absent
    BY <1>3, <2>3 DEF Create
  <2>4. QED
    BY <2>1, <2>2, <2>3
<1>5. ASSUME NEW p \in Proc, Write(p) PROVE Goal
  <2>1. file # Absent /\ file.owner = p /\ file \in File
    BY <1>5 DEF Write
  <2>2. \A q \in Proc \ {p} : pc[q] \notin Owning
    BY <2>1
  <2>3. \A q \in Proc : pc[q] # "breaking"
    BY <2>1, <1>5 DEF Write
  <2>4. CASE file' = [file EXCEPT !.content = "scoped", !.old = FALSE] /\ UNCHANGED <<pc, judged>>
    <3>1. file' \in File /\ file'.owner = p
      BY <2>1, <2>4 DEF File, Content
    <3>2. file' # Absent
      BY <3>1, FileLockAssumption
    <3>3. QED
      BY <1>5, <2>2, <2>3, <2>4, <3>1, <3>2 DEF Write
  <2>5. CASE /\ file' = [file EXCEPT !.content = "complete", !.old = FALSE]
             /\ Goes(p, "holding") /\ UNCHANGED judged
    <3>1. file' \in File /\ file'.owner = p /\ file'.content = "complete"
      BY <2>1, <2>5 DEF File, Content
    <3>2. file' # Absent
      BY <3>1, FileLockAssumption
    <3>3. QED
      BY <1>5, <2>2, <2>3, <2>5, <3>1, <3>2 DEF Write
  <2>6. CASE file' \in {Absent, file} /\ Goes(p, "failed") /\ UNCHANGED judged
    BY <1>5, <2>2, <2>3, <2>6 DEF Write
  <2>7. QED
    BY <1>5, <2>1, <2>4, <2>5, <2>6 DEF Write
<1>6. ASSUME NEW p \in Proc, ToBreaking(p, file.owner), file # Absent, UNCHANGED file,
             pc[p] \in {"judging", "aging"}
      PROVE Goal
  <2>1. \A r \in Proc \ {p} : pc[r] # "breaking"
    BY <1>6 DEF ToBreaking
  <2>2. pc[file.owner] \notin Owning /\ file.owner \in Proc
    BY <1>6 DEF ToBreaking, File
  <2>3. QED
    BY <1>6, <2>1, <2>2 DEF ToBreaking
<1>7. ASSUME NEW p \in Proc, NEW to \in {"idle", "failed", "aging"}, Goes(p, to),
             pc[p] \in {"judging", "aging"}, UNCHANGED <<file, judged>>
      PROVE Goal
  BY <1>7
<1>8. ASSUME NEW p \in Proc, Judge(p) PROVE Goal
  <2>1. CASE file # Absent /\ ToBreaking(p, file.owner)
    BY <1>6, <1>8, <2>1 DEF Judge
  <2>2. CASE /\ Goes(p, "idle") \/ Goes(p, "failed") \/ Goes(p, "aging")
             /\ UNCHANGED <<judged, rival, misjudged>>
    BY <1>7, <1>8, <2>2 DEF Judge
  <2>3. QED
    BY <1>8, <2>1, <2>2 DEF Judge
<1>9. ASSUME NEW p \in Proc, Age(p) PROVE Goal
  BY <1>6, <1>7, <1>9 DEF Age
<1>10. ASSUME NEW p \in Proc, Break(p) PROVE Goal
  <2>1. \A q \in Proc : pc[q] \notin Owning
    BY <1>10 DEF Break
  <2>2. \A q \in Proc \ {p} : pc[q] # "breaking"
    BY <1>10 DEF Break
  <2>3. QED
    BY <1>10, <2>1, <2>2 DEF Break
<1>11. ASSUME NEW p \in Proc, Release(p) PROVE Goal
  BY <1>11 DEF Release
<1>12. ASSUME NEW p \in Proc, Remove(p) PROVE Goal
  <2>1. \A q \in Proc \ {p} : pc[q] \notin Owning
    BY <1>12 DEF Remove
  <2>2. \A q \in Proc : pc[q] # "breaking"
    BY <1>12 DEF Remove
  <2>3. QED
    BY <1>12, <2>1, <2>2 DEF Remove
<1>13. CASE GrowOld
  <2>1. /\ file \in File /\ file' = [file EXCEPT !.old = TRUE] /\ UNCHANGED <<pc, judged>>
    BY <1>13 DEF GrowOld
  <2>2. file' \in File /\ file'.owner = file.owner /\ file'.content = file.content
    BY <2>1 DEF File
  <2>3. file # Absent /\ file' # Absent
    BY <1>13, <2>2, FileLockAssumption DEF GrowOld
  <2>4. QED
    BY <2>1, <2>2, <2>3
<1>14. CASE UNCHANGED vars
  BY <1>14 DEF vars
<1>15. QED
  BY <1>1, <1>2, <1>3, <1>5, <1>8, <1>9, <1>10, <1>11, <1>12, <1>13, <1>14
  DEF Next, Step, Acquire, Again

--------------------------------------------------------------------------------
\* The inductive invariant of the lock holds for any processes, hosts and pids.
THEOREM InvCorrect == Spec => []Inv
<1>1. Inv /\ [Next]_vars => Inv'
  <2> SUFFICES ASSUME Inv, [Next]_vars PROVE Inv'
    OBVIOUS
  <2>1. TypeOK' /\ OneHost'
    BY TypeStep, OneHostStep DEF Inv
  <2>2. (misjudged \/ (\E p \in Proc : pc[p] = "aging") => options.staleMs)'
    BY AgeStep
  <2>3. (~rival /\ ~misjudged => OneBreaker /\ \A p \in Proc : Ownership(p))'
    BY OwnershipStep
  <2>4. QED
    BY <2>1, <2>2, <2>3 DEF Inv
<1>2. QED
  BY InvInit, <1>1, PTL DEF Spec

\* Type correctness of the lock: a lock file belongs to a process that was
\* started, and only who has judged breaks.
THEOREM TypeCorrect == Spec => []TypeOK
<1>1. Inv => TypeOK
  BY DEF Inv
<1>2. QED
  BY InvCorrect, <1>1, PTL

\* At most one process holds the lock, whatever dies, fails, reuses a pid or moves
\* between hosts, until two processes are about to break the same leftover or,
\* with staleMs, a lock in use is judged by its age.
THEOREM ExclusiveCorrect == Spec => []Exclusive
<1>1. Inv => Exclusive
  BY DEF Inv, Exclusive, Ownership, Owning
<1>2. QED
  BY InvCorrect, <1>1, PTL

\* A holder finds its own complete record in the file, under the same conditions.
THEOREM HolderCorrect == Spec => []HolderIsNamed
<1>1. Inv => HolderIsNamed
  BY DEF Inv, HolderIsNamed, Ownership, Owning
<1>2. QED
  BY InvCorrect, <1>1, PTL
================================================================================
