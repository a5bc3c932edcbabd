--------------------------- MODULE AutomationsProofs ---------------------------
(***************************************************************************)
(* TLAPS proofs of the safety properties of Automations.                   *)
(***************************************************************************)
EXTENDS Automations, TLAPS

\* Only clients delete and patch, the tick only completes.
RequestInv ==
  /\ \A r \in Req : want[r] \in Patches \cup {Delete, None}
  /\ want["tick"] \in {Complete, None}

\* What a run in progress asks of the store; it began active or paused.
RunAt(i) ==
  /\ run[i].at # "none" => run[i].seen \in {"active", "paused"}
  /\ run[i].at \in {"none", "working"} => want[i] = None
  /\ run[i].at = "closing" => want[i] = Complete
  /\ run[i].at \in {"appending", "recording"} => want[i] = Append
  /\ run[i].at = "restoring" => want[i] = Patch("status", run[i].seen)

\* A tick or a run is about to write that the limit is reached.
Completing == \E w \in Slot \cup {"tick"} : want[w] = Complete

\* Whoever completes the automation has found it at its limit.
ReachedInv ==
  /\ Completing => reached
  /\ rec # Absent => (AtLimit(rec) => reached)

\* What the limit allows covers the runs made and the one in progress.
Within ==
  rec # Absent /\ rec.limit # 0 =>
    /\ rec.limit <= allowed /\ rec.runs <= allowed
    /\ Counting => rec.runs + 1 <= allowed

\* The file is the record, or was torn or removed by a write that failed.
DiskInv == disk \in {rec, Torn, Absent}

\* What every step preserves.
Inv ==
  /\ TypeOK /\ RequestInv /\ (\A i \in Slot : RunAt(i)) /\ RunLimit /\ DiskInv
  /\ ReachedInv /\ Within /\ ActiveHasJob /\ AcknowledgedStands

--------------------------------------------------------------------------------
\* The invariant holds in the initial states.
LEMMA InvInit == Init => Inv
<1> SUFFICES ASSUME Init PROVE Inv
  OBVIOUS
<1>1. None # Complete
  BY AutomationsAssumption DEF Patches, Complete, Status
<1>2. PICK m \in Limit : rec = [status |-> "active", trigger |-> "schedule", runs |-> 0, limit |-> m]
  BY DEF Init
<1>3. /\ rec \in Record /\ rec.runs = 0 /\ rec.limit = m /\ rec.status = "active"
      /\ rec # Absent /\ m \in Nat
  BY <1>2, AutomationsAssumption DEF Record, Status, Trigger, Limit
<1>4. ~AtLimit(rec)
  BY <1>3 DEF AtLimit
<1>5. TypeOK
  BY <1>3 DEF Init, TypeOK, Status, NoRun
<1>6. RequestInv /\ (\A i \in Slot : RunAt(i)) /\ ~Completing
  BY <1>1 DEF Init, RequestInv, RunAt, NoRun, Writer, Slot, Completing
<1>7. RunLimit /\ DiskInv /\ Within
  <2>1. ~Counting
    BY DEF Init, Counting, NoRun
  <2>2. QED
    BY <1>3, <2>1 DEF Init, RunLimit, DiskInv, NoRun, Within
<1>8. ActiveHasJob /\ AcknowledgedStands /\ ReachedInv
  BY <1>3, <1>4, <1>6 DEF Init, ActiveHasJob, AcknowledgedStands, ReachedInv
<1>9. QED
  BY <1>5, <1>6, <1>7, <1>8 DEF Inv

--------------------------------------------------------------------------------
(***************************************************************************)
(* The runs                                                                *)
(***************************************************************************)

RunTypes  == [at : {"none", "closing", "working", "appending", "restoring", "recording"},
              seen : Status \cup {None}]
WantTypes == Patches \cup {Append, Delete, None}

\* The mutations differ, and none of them is None.
LEMMA Mutations ==
  /\ Complete \in Patches /\ Append # Complete /\ Delete # Complete /\ Append # Delete
  /\ None \notin Patches /\ None # Append /\ None # Delete /\ None # Complete
  /\ \A s \in Status : Patch("status", s) \in Patches /\ Patch("status", s) # Append
  /\ \A s \in Status \ {"completed"} : Patch("status", s) # Complete
  BY AutomationsAssumption
  DEF Complete, Append, Delete, Patch, Patches, Status

\* After a mutation a run is over, or asks for the next one.
LEMMA RunGoesOnFacts ==
  ASSUME TypeOK, NEW i \in Slot, RunAt(i), NEW b \in BOOLEAN, RunGoesOn(i, b)
  PROVE  /\ run' \in [Slot -> RunTypes] /\ want' \in [Writer -> WantTypes]
         /\ \A j \in Slot \ {i} : run'[j] = run[j]
         /\ \A w \in Writer \ {i} : want'[w] = want[w]
         /\ \/ run'[i].at = "none" /\ want'[i] = None
            \/ /\ run'[i].at = "restoring" /\ run[i].at = "appending" /\ ~b
               /\ run'[i].seen = run[i].seen /\ run[i].seen \in {"active", "paused"}
               /\ want'[i] = Patch("status", run[i].seen)
            \/ /\ run'[i].at = "recording" /\ run[i].at = "restoring" /\ b
               /\ run'[i].seen = run[i].seen /\ run[i].seen \in {"active", "paused"}
               /\ want'[i] = Append
<1> i \in Writer
  BY DEF Writer
<1>1. CASE run[i].at = "appending" /\ ~b
  <2>1. /\ run' = [run EXCEPT ![i].at = "restoring"]
        /\ want' = [want EXCEPT ![i] = Patch("status", run[i].seen)]
    BY <1>1 DEF RunGoesOn
  <2>2. run[i].seen \in {"active", "paused"} /\ Patch("status", run[i].seen) \in Patches
    BY <1>1, Mutations DEF RunAt, Status
  <2>3. QED
    BY <1>1, <2>1, <2>2 DEF TypeOK, RunTypes, WantTypes
<1>2. CASE run[i].at = "restoring" /\ b
  <2>1. /\ run' = [run EXCEPT ![i].at = "recording"]
        /\ want' = [want EXCEPT ![i] = Append]
    BY <1>2 DEF RunGoesOn
  <2>2. run[i].seen \in {"active", "paused"}
    BY <1>2 DEF RunAt
  <2>3. QED
    BY <1>2, <2>1, <2>2 DEF TypeOK, RunTypes, WantTypes
<1>3. CASE ~(run[i].at = "appending" /\ ~b) /\ ~(run[i].at = "restoring" /\ b)
  <2>1. /\ run' = [run EXCEPT ![i] = NoRun]
        /\ want' = [want EXCEPT ![i] = None]
    BY <1>3 DEF RunGoesOn
  <2>2. QED
    BY <2>1 DEF TypeOK, RunTypes, WantTypes, NoRun
<1>4. QED
  BY <1>1, <1>2, <1>3

\* Only one run asks for anything; it is the only one in progress.
LEMMA RunIsAlone ==
  ASSUME Inv, NEW i \in Slot, run[i].at # "none"
  PROVE  \A j \in Slot \ {i} : run[j].at = "none" /\ want[j] = None
  BY DEF Inv, RunLimit, RunAt

\* A run that goes on leaves the requests alone and is still the only one; one
\* that was appended is over.
LEMMA RunGoesOnStep ==
  ASSUME Inv, NEW i \in Slot, NEW b \in BOOLEAN, RunGoesOn(i, b), want[i] # None
  PROVE  /\ run' \in [Slot -> RunTypes] /\ want' \in [Writer -> WantTypes]
         /\ RequestInv' /\ \A j \in Slot : RunAt(j)'
         /\ \A j, k \in Slot : run'[j].at # "none" /\ run'[k].at # "none" => j = k
         /\ \A r \in Req : want'[r] = want[r]
         /\ Completing' => Completing
         /\ Counting' => Counting /\ ~(b /\ run[i].at \in {"appending", "recording"})
<1>1. RunAt(i) /\ TypeOK
  BY DEF Inv
<1>2. run[i].at # "none"
  BY <1>1 DEF RunAt
<1>3. \A j \in Slot \ {i} : run[j].at = "none" /\ want[j] = None
  BY <1>2, RunIsAlone
<1>4. i \notin Req /\ i # "tick" /\ Req \subseteq Writer /\ "tick" \in Writer /\ Slot \subseteq Writer
  BY AutomationsAssumption DEF Slot, Writer
<1>5. /\ run' \in [Slot -> RunTypes] /\ want' \in [Writer -> WantTypes]
      /\ \A j \in Slot \ {i} : run'[j] = run[j]
      /\ \A w \in Writer \ {i} : want'[w] = want[w]
  BY <1>1, RunGoesOnFacts
<1>6. RequestInv' /\ \A r \in Req : want'[r] = want[r]
  BY <1>4, <1>5 DEF RequestInv, Inv
<1>7. /\ RunAt(i)' /\ want'[i] # Complete
      /\ run'[i].at # "none" => run[i].at \in {"appending", "restoring"}
      /\ run'[i].at # "none" => ~(b /\ run[i].at \in {"appending", "recording"})
  <2>1. CASE run'[i].at = "none" /\ want'[i] = None
    BY <2>1, Mutations DEF RunAt
  <2>2. CASE /\ run'[i].at = "restoring" /\ run[i].at = "appending" /\ ~b
             /\ run'[i].seen = run[i].seen /\ run[i].seen \in {"active", "paused"}
             /\ want'[i] = Patch("status", run[i].seen)
    <3>1. want'[i] # Complete
      BY <2>2, Mutations DEF Status
    <3>2. QED
      BY <2>2, <3>1 DEF RunAt
  <2>3. CASE /\ run'[i].at = "recording" /\ run[i].at = "restoring" /\ b
             /\ run'[i].seen = run[i].seen /\ run[i].seen \in {"active", "paused"}
             /\ want'[i] = Append
    BY <2>3, Mutations DEF RunAt
  <2>4. QED
    BY <1>1, <2>1, <2>2, <2>3, RunGoesOnFacts
<1>8. \A j \in Slot \ {i} : RunAt(j)'
  BY <1>3, <1>4, <1>5 DEF RunAt
<1>9. Completing' => Completing
  BY <1>4, <1>5, <1>7 DEF Completing
<1>10. Counting' => Counting /\ ~(b /\ run[i].at \in {"appending", "recording"})
  BY <1>3, <1>5, <1>7 DEF Counting
<1>11. QED
  BY <1>3, <1>5, <1>6, <1>7, <1>8, <1>9, <1>10

\* A run begins only when none is in progress, and below the limit unless it is
\* only to complete the automation.
LEMMA ExecuteStep ==
  ASSUME Inv, NEW source, Execute(source), UNCHANGED rec
  PROVE  /\ run' \in [Slot -> RunTypes] /\ want' \in [Writer -> WantTypes]
         /\ RequestInv' /\ \A j \in Slot : RunAt(j)'
         /\ \A j, k \in Slot : run'[j].at # "none" /\ run'[k].at # "none" => j = k
         /\ \A w \in Writer : want[w] # None => want'[w] = want[w]
         /\ Completing' => Completing \/ (rec # Absent /\ AtLimit(rec))
         /\ Counting' => Counting \/ ~AtLimit(rec)
<1> TypeOK /\ RequestInv /\ \A j \in Slot : RunAt(j)
  BY DEF Inv
<1>1. CASE UNCHANGED <<run, want>>
  BY <1>1 DEF Inv, TypeOK, RunTypes, WantTypes, RequestInv, RunAt, RunLimit, Completing, Counting
<1>2. CASE ~Running /\ rec # Absent /\ rec.status \in {"active", "paused"}
  <2> DEFINE i == CHOOSE i \in Slot : run[i].at = "none"
  <2>1. i \in Slot /\ \A j \in Slot : run[j].at = "none" /\ want[j] = None
    BY <1>2 DEF Running, RunAt, Slot
  <2>2. i \in Writer /\ i \notin Req /\ i # "tick" /\ Slot \subseteq Writer
    BY <2>1, AutomationsAssumption DEF Slot, Writer
  <2>3. rec.status \in Status
    BY <1>2 DEF Status
  <2>4. CASE /\ AtLimit(rec)
             /\ run' = [run EXCEPT ![i] = [at |-> "closing", seen |-> rec.status]]
             /\ want' = [want EXCEPT ![i] = Complete]
    <3>1. RequestInv'
      BY <2>2, <2>4 DEF RequestInv, TypeOK, Writer
    <3>2. \A j \in Slot : RunAt(j)'
      BY <1>2, <2>1, <2>2, <2>3, <2>4 DEF RunAt, TypeOK
    <3>3. ~Counting'
      BY <2>1, <2>4 DEF Counting, TypeOK
    <3>4. QED
      BY <1>2, <2>1, <2>2, <2>3, <2>4, <3>1, <3>2, <3>3, Mutations
      DEF TypeOK, RunTypes, WantTypes
  <2>5. CASE /\ ~AtLimit(rec) /\ UNCHANGED want
             /\ run' = [run EXCEPT ![i] = [at |-> "working", seen |-> rec.status]]
    <3>1. RequestInv' /\ (Completing' => Completing)
      BY <2>5 DEF RequestInv, Completing
    <3>2. \A j \in Slot : RunAt(j)'
      BY <1>2, <2>1, <2>2, <2>3, <2>5 DEF RunAt, TypeOK
    <3>3. QED
      BY <2>1, <2>2, <2>3, <2>5, <3>1, <3>2 DEF TypeOK, RunTypes, WantTypes
  <2>6. QED
    BY <1>1, <1>2, <2>4, <2>5 DEF Execute
<1>3. QED
  BY <1>1, <1>2 DEF Execute

--------------------------------------------------------------------------------
(***************************************************************************)
(* The steps                                                               *)
(***************************************************************************)

\* What a mutation makes of the record: one more run, or the wanted status, trigger
\* or limit, or nothing.
LEMMA PatchedFacts ==
  ASSUME Inv, NEW w \in Writer, want[w] # None, rec # Absent
  PROVE  \/ /\ want[w] = Append /\ w \in Slot /\ run[w].at \in {"appending", "recording"}
            /\ Patched(w, rec) \in Record /\ Patched(w, rec) # Absent
            /\ Patched(w, rec).runs = rec.runs + 1 /\ Patched(w, rec).trigger = rec.trigger
            /\ Patched(w, rec).limit = rec.limit
            /\ \/ Patched(w, rec).status = rec.status
               \/ Patched(w, rec).status = "completed" /\ AtLimit(Patched(w, rec))
         \/ \E s \in Status :
              /\ want[w] = Patch("status", s)
              /\ Patched(w, rec) \in Record /\ Patched(w, rec) # Absent
              /\ Patched(w, rec) = [rec EXCEPT !.status = s]
         \/ \E t \in Trigger :
              /\ want[w] = Patch("trigger", t) /\ w \in Req
              /\ Patched(w, rec) \in Record /\ Patched(w, rec) # Absent
              /\ Patched(w, rec) = [rec EXCEPT !.trigger = t]
         \/ \E m \in Limit :
              /\ want[w] = Patch("limit", m) /\ w \in Req
              /\ Patched(w, rec) \in Record /\ Patched(w, rec) # Absent
              /\ Patched(w, rec) = [rec EXCEPT !.limit = m]
         \/ want[w] = Delete /\ w \in Req /\ Patched(w, rec) = Absent
<1> TypeOK /\ RequestInv /\ \A j \in Slot : RunAt(j)
  BY DEF Inv
<1> DEFINE r == Patched(w, rec)
<1>0. rec \in Record /\ \A x \in Record : x # Absent
  BY AutomationsAssumption DEF TypeOK
<1>1. CASE w \in Slot /\ run[w].at \in {"appending", "recording"}
  <2>1. want[w] = Append
    BY <1>1 DEF RunAt
  <2>2. r = [rec EXCEPT !.runs = rec.runs + 1,
                        !.status = IF rec.limit # 0 /\ rec.runs + 1 >= rec.limit
                                     THEN "completed" ELSE rec.status]
    <3>1. want[w].field = "runs"
      BY <2>1 DEF Append, Patch
    <3>2. QED
      BY <2>1, <3>1 DEF Patched
  <2>3. rec.runs + 1 \in Nat
    BY <1>0 DEF Record
  <2>4. /\ r \in Record /\ r.runs = rec.runs + 1 /\ r.trigger = rec.trigger /\ r.limit = rec.limit
        /\ r.status = IF rec.limit # 0 /\ rec.runs + 1 >= rec.limit THEN "completed" ELSE rec.status
    BY <1>0, <2>2, <2>3 DEF Record, Status
  <2>5. QED
    BY <1>0, <1>1, <2>1, <2>4 DEF AtLimit
<1>2. CASE \E s \in Status : want[w] = Patch("status", s)
  <2>1. PICK s \in Status : want[w] = Patch("status", s)
    BY <1>2
  <2>2. want[w] # Append /\ want[w].field = "status" /\ want[w].to = s
    BY <2>1, Mutations DEF Patch
  <2>3. r = [rec EXCEPT !.status = s]
    BY <2>2 DEF Patched
  <2>4. r \in Record
    BY <1>0, <2>3 DEF Record
  <2>5. QED
    BY <1>0, <2>1, <2>3, <2>4
<1>3. CASE w \in Req /\ \E t \in Trigger : want[w] = Patch("trigger", t)
  <2>1. PICK t \in Trigger : want[w] = Patch("trigger", t)
    BY <1>3
  <2>2. want[w] # Append /\ want[w].field = "trigger" /\ want[w].to = t
    BY <2>1 DEF Patch, Append
  <2>3. r = [rec EXCEPT !.trigger = t]
    BY <2>2 DEF Patched
  <2>4. r \in Record
    BY <1>0, <2>3 DEF Record
  <2>5. QED
    BY <1>0, <1>3, <2>1, <2>3, <2>4
<1>30. CASE w \in Req /\ \E m \in Limit : want[w] = Patch("limit", m)
  <2>1. PICK m \in Limit : want[w] = Patch("limit", m)
    BY <1>30
  <2>2. want[w] # Append /\ want[w].field = "limit" /\ want[w].to = m
    BY <2>1 DEF Patch, Append
  <2>3. r = [rec EXCEPT !.limit = m]
    BY <2>2 DEF Patched
  <2>4. r \in Record
    BY <1>0, <2>3 DEF Record
  <2>5. QED
    BY <1>0, <1>30, <2>1, <2>3, <2>4
<1>4. CASE w \in Req /\ want[w] = Delete
  <2>1. want[w] # Append /\ want[w].field = "record"
    BY <1>4, Mutations DEF Delete, Patch
  <2>2. QED
    BY <1>4, <2>1 DEF Patched
<1>5. CASE w \in Slot /\ run[w].at \notin {"appending", "recording"}
  BY <1>2, <1>5 DEF RunAt, Complete, Status, TypeOK
<1>6. CASE w = "tick"
  BY <1>2, <1>6 DEF RequestInv, Complete, Status
<1>7. CASE w \in Req
  BY <1>2, <1>3, <1>30, <1>4, <1>7 DEF RequestInv, Patches
<1>8. QED
  BY <1>1, <1>5, <1>6, <1>7 DEF Writer

\* A step that leaves the record and its history alone keeps what the limit has to
\* do with them, when a run that begins has found room and one that completes the
\* automation has found none.
LEMMA QuietStep ==
  ASSUME Inv, UNCHANGED <<rec, said, undone, reached, allowed>>,
         Counting' => Counting \/ ~AtLimit(rec),
         Completing' => Completing \/ (rec # Absent /\ AtLimit(rec))
  PROVE  ReachedInv' /\ Within' /\ AcknowledgedStands'
<1> TypeOK /\ ReachedInv /\ Within /\ AcknowledgedStands
  BY DEF Inv
<1>1. ReachedInv'
  BY DEF ReachedInv, AtLimit
<1>2. Within'
  <2> SUFFICES ASSUME rec # Absent, rec.limit # 0
               PROVE  /\ rec.limit <= allowed /\ rec.runs <= allowed
                      /\ Counting' => rec.runs + 1 <= allowed
    BY DEF Within
  <2>1. rec.limit \in Nat /\ rec.runs \in Nat /\ allowed \in Nat
    BY AutomationsAssumption DEF TypeOK, Record, Limit
  <2>2. ~AtLimit(rec) => rec.runs + 1 <= rec.limit
    BY <2>1 DEF AtLimit
  <2>3. rec.limit <= allowed /\ rec.runs <= allowed /\ (Counting => rec.runs + 1 <= allowed)
    BY DEF Within
  <2>4. QED
    BY <2>1, <2>2, <2>3
<1>3. AcknowledgedStands'
  BY DEF AcknowledgedStands
<1>4. QED
  BY <1>1, <1>2, <1>3

\* The steps that change neither the record nor the file.
LEMMA ClientStep ==
  ASSUME Inv,
         \/ \E r \in Req : DeleteAutomation(r) \/ \E p \in Asked[r] : Update(r, p)
         \/ EnsureScheduled
         \/ \E i \in Slot : SessionEnds(i)
  PROVE  Inv'
<1> TypeOK /\ RequestInv /\ (\A i \in Slot : RunAt(i)) /\ RunLimit /\ DiskInv
      /\ ReachedInv /\ Within /\ ActiveHasJob /\ AcknowledgedStands
  BY DEF Inv
<1>1. ASSUME NEW r \in Req, NEW p \in Patches \cup {Delete}, want[r] = None,
             want' = [want EXCEPT ![r] = p], UNCHANGED <<rec, disk, writer, run, listed, hist>>,
             job' \in BOOLEAN, job' = job \/ p = Delete
      PROVE Inv'
  <2>1. r \in Writer /\ r \notin Slot /\ r # "tick" /\ Slot \subseteq Writer /\ "tick" \in Writer
    BY AutomationsAssumption DEF Writer
  <2> UNCHANGED <<said, undone, jobless, reached, allowed>>
    BY <1>1 DEF hist
  <2>2. TypeOK'
    BY <1>1, <2>1 DEF TypeOK
  <2>3. /\ RequestInv' /\ (\A i \in Slot : RunAt(i)')
        /\ (Completing' => Completing) /\ (Counting' => Counting)
    <3>1. /\ want'["tick"] = want["tick"] /\ \A i \in Slot : want'[i] = want[i]
          /\ \A q \in Req : want'[q] \in Patches \cup {Delete, None}
      BY <1>1, <2>1 DEF TypeOK, RequestInv, Writer
    <3>2. QED
      BY <1>1, <3>1 DEF RequestInv, RunAt, Completing, Counting
  <2>4. RunLimit' /\ DiskInv'
    BY <1>1 DEF RunLimit, DiskInv
  <2>5. ActiveHasJob'
    <3>1. \A q \in Req : want[q] = Delete => want'[q] = Delete
      BY <1>1, <2>1, Mutations DEF TypeOK, Writer
    <3>2. p = Delete => want'[r] = Delete
      BY <1>1, <2>1 DEF TypeOK
    <3>3. QED
      BY <1>1, <3>1, <3>2 DEF ActiveHasJob, Schedulable
  <2>6. QED
    BY <1>1, <2>2, <2>3, <2>4, <2>5, QuietStep DEF Inv
<1>2. ASSUME NEW r \in Req, DeleteAutomation(r) PROVE Inv'
  BY <1>1, <1>2 DEF DeleteAutomation, TypeOK
<1>3. ASSUME NEW r \in Req, NEW p \in Asked[r], Update(r, p) PROVE Inv'
  <2>1. p \in Patches
    BY AutomationsAssumption
  <2>2. QED
    BY <1>1, <1>3, <2>1 DEF Update, TypeOK
<1>4. CASE EnsureScheduled
  <2>1. /\ UNCHANGED <<rec, disk, want, writer, run, listed, said, undone, reached, allowed>>
        /\ job' = Schedulable(rec) /\ jobless' = FALSE
    BY <1>4 DEF EnsureScheduled
  <2>2. (Completing' => Completing) /\ (Counting' => Counting)
    BY <2>1 DEF Completing, Counting
  <2>3. ReachedInv' /\ Within' /\ AcknowledgedStands'
    BY <2>1, <2>2, QuietStep
  <2>4. QED
    BY <2>1, <2>3 DEF Inv, TypeOK, RequestInv, RunAt, RunLimit, DiskInv, ActiveHasJob, Schedulable
<1>5. ASSUME NEW i \in Slot, SessionEnds(i) PROVE Inv'
  <2>1. /\ run[i].at = "working" /\ run[i].seen \in {"active", "paused"}
        /\ UNCHANGED <<rec, disk, job, writer, listed, said, undone, jobless, reached, allowed>>
    BY <1>5 DEF SessionEnds, RunAt, hist
  <2>2. i \in Writer /\ i \notin Req /\ i # "tick" /\ Slot \subseteq Writer /\ "tick" \in Writer
    BY AutomationsAssumption DEF Writer, Slot
  <2>20. /\ Patch("status", run[i].seen) \in Patches /\ Patch("status", run[i].seen) # Complete
         /\ Append # Complete /\ None # Complete
    BY <2>1, Mutations DEF Status
  <2>3. /\ run' \in [Slot -> RunTypes] /\ want' \in [Writer -> WantTypes]
        /\ \A w \in Writer \ {i} : want'[w] = want[w]
        /\ \A j \in Slot \ {i} : run'[j] = run[j]
    BY <1>5, <2>1, <2>2, <2>20 DEF SessionEnds, TypeOK, RunTypes, WantTypes, NoRun
  <2>4. RunAt(i)' /\ want'[i] # Complete
    BY <1>5, <2>1, <2>2, <2>20 DEF SessionEnds, RunAt, NoRun, TypeOK
  <2>5. TypeOK'
    <3>1. writer # None => want'[writer] # None
      BY <1>5, <2>1, <2>2, <2>3 DEF TypeOK, RunAt
    <3>2. QED
      BY <2>1, <2>3, <3>1 DEF TypeOK, RunTypes, WantTypes
  <2>6. RequestInv'
    BY <2>1, <2>2, <2>3 DEF RequestInv, Writer
  <2>7. \A j \in Slot : RunAt(j)'
    BY <2>1, <2>2, <2>3, <2>4 DEF RunAt
  <2>8. RunLimit' /\ DiskInv'
    BY <2>1, <2>3 DEF RunLimit, DiskInv
  <2>9. ActiveHasJob'
    BY <2>1, <2>2, <2>3 DEF ActiveHasJob, Schedulable, Writer
  <2>10. (Completing' => Completing) /\ (Counting' => Counting)
    BY <2>1, <2>2, <2>3, <2>4 DEF Completing, Counting
  <2>11. QED
    BY <2>1, <2>4, <2>5, <2>6, <2>7, <2>8, <2>9, <2>10, QuietStep DEF Inv
<1>6. QED
  BY <1>2, <1>3, <1>4, <1>5

\* The tick and whoever starts a run.
LEMMA StartStep ==
  ASSUME Inv, Tick \/ QuestCompleted \/ RunListed \/ RunAutomation
  PROVE  Inv'
<1> TypeOK /\ RequestInv /\ (\A i \in Slot : RunAt(i)) /\ RunLimit /\ DiskInv
      /\ ReachedInv /\ Within /\ ActiveHasJob /\ AcknowledgedStands
  BY DEF Inv
<1>1. ASSUME NEW source, Execute(source), UNCHANGED <<rec, disk, job, writer, hist>>,
             listed' \in BOOLEAN
      PROVE Inv'
  <2> UNCHANGED <<said, undone, jobless, reached, allowed>>
    BY <1>1 DEF hist
  <2>1. /\ run' \in [Slot -> RunTypes] /\ want' \in [Writer -> WantTypes]
        /\ RequestInv' /\ \A j \in Slot : RunAt(j)'
        /\ \A j, k \in Slot : run'[j].at # "none" /\ run'[k].at # "none" => j = k
        /\ \A w \in Writer : want[w] # None => want'[w] = want[w]
        /\ Completing' => Completing \/ (rec # Absent /\ AtLimit(rec))
        /\ Counting' => Counting \/ ~AtLimit(rec)
    BY <1>1, ExecuteStep
  <2>2. TypeOK'
    BY <1>1, <2>1 DEF TypeOK, RunTypes, WantTypes
  <2>3. RunLimit' /\ DiskInv'
    BY <1>1, <2>1 DEF RunLimit, DiskInv
  <2>4. ActiveHasJob'
    BY <1>1, <2>1, Mutations DEF ActiveHasJob, Schedulable, Writer
  <2>5. ReachedInv' /\ Within' /\ AcknowledgedStands'
    BY <1>1, <2>1, QuietStep
  <2>6. QED
    BY <2>1, <2>2, <2>3, <2>4, <2>5 DEF Inv
<1>2. ASSUME (job' = FALSE /\ ~Schedulable(rec)) \/ UNCHANGED job, listed' \in BOOLEAN,
             UNCHANGED <<rec, disk, want, writer, run, hist>>
      PROVE Inv'
  <2> UNCHANGED <<said, undone, jobless, reached, allowed>>
    BY <1>2 DEF hist
  <2>1. (Completing' => Completing) /\ (Counting' => Counting)
    BY <1>2 DEF Completing, Counting
  <2>2. ReachedInv' /\ Within' /\ AcknowledgedStands'
    BY <1>2, <2>1, QuietStep
  <2>3. job' \in BOOLEAN
    BY <1>2 DEF TypeOK
  <2>4. TypeOK'
    BY <1>2, <2>3 DEF TypeOK
  <2>5. ActiveHasJob'
    BY <1>2 DEF ActiveHasJob, Schedulable
  <2>6. QED
    BY <1>2, <2>2, <2>4, <2>5 DEF Inv, RequestInv, RunAt, RunLimit, DiskInv
<1>3. CASE /\ Schedulable(rec) /\ AtLimit(rec) /\ want["tick"] = None
           /\ want' = [want EXCEPT !["tick"] = Complete]
           /\ UNCHANGED <<rec, disk, job, writer, run, listed, hist>>
  <2> UNCHANGED <<said, undone, jobless, reached, allowed>>
    BY <1>3 DEF hist
  <2>1. "tick" \in Writer /\ "tick" \notin Req /\ "tick" \notin Slot /\ Slot \subseteq Writer
    BY AutomationsAssumption DEF Writer, Slot
  <2>2. /\ want'["tick"] = Complete /\ \A w \in Writer \ {"tick"} : want'[w] = want[w]
        /\ want' \in [Writer -> WantTypes]
    BY <1>3, <2>1, Mutations DEF TypeOK, WantTypes
  <2>3. TypeOK'
    BY <1>3, <2>2, Mutations DEF TypeOK, WantTypes
  <2>4. RequestInv' /\ \A i \in Slot : RunAt(i)'
    BY <1>3, <2>1, <2>2 DEF RequestInv, RunAt, Writer
  <2>5. RunLimit' /\ DiskInv'
    BY <1>3 DEF RunLimit, DiskInv
  <2>6. ActiveHasJob'
    BY <1>3, <2>1, <2>2 DEF ActiveHasJob, Schedulable, Writer
  <2>7. ReachedInv' /\ Within' /\ AcknowledgedStands'
    <3>1. Counting' => Counting
      BY <1>3 DEF Counting
    <3>2. rec # Absent /\ AtLimit(rec)
      BY <1>3 DEF Schedulable
    <3>3. QED
      BY <1>3, <3>1, <3>2, QuietStep
  <2>8. QED
    BY <2>3, <2>4, <2>5, <2>6, <2>7 DEF Inv
<1>4. CASE Tick
  <2>1. listed' \in BOOLEAN
    BY <1>4 DEF Tick, TypeOK
  <2>2. CASE ~Schedulable(rec) /\ job' = FALSE /\ UNCHANGED <<want, run>>
    BY <1>2, <1>4, <2>1, <2>2 DEF Tick
  <2>3. CASE Execute("schedule") /\ UNCHANGED job
    BY <1>1, <1>4, <2>1, <2>3 DEF Tick
  <2>4. CASE /\ Schedulable(rec) /\ AtLimit(rec)
             /\ want' = [want EXCEPT !["tick"] = Complete] /\ UNCHANGED <<job, run>>
    BY <1>3, <1>4, <2>4 DEF Tick
  <2>5. QED
    BY <1>4, <2>2, <2>3, <2>4 DEF Tick
<1>5. CASE QuestCompleted
  BY <1>2, <1>5 DEF QuestCompleted
<1>6. CASE RunListed
  BY <1>1, <1>6 DEF RunListed
<1>7. CASE RunAutomation
  <2>1. listed' \in BOOLEAN
    BY <1>7 DEF RunAutomation, TypeOK
  <2>2. QED
    BY <1>1, <1>7, <2>1 DEF RunAutomation
<1>8. QED
  BY <1>4, <1>5, <1>6, <1>7

\* The end of a mutation of a client or of the tick.
LEMMA AnsweredStep ==
  ASSUME Inv, NEW w \in Writer \ Slot, want' = [want EXCEPT ![w] = None], UNCHANGED run
  PROVE  /\ run' \in [Slot -> RunTypes] /\ want' \in [Writer -> WantTypes]
         /\ RequestInv' /\ \A j \in Slot : RunAt(j)'
         /\ \A j, k \in Slot : run'[j].at # "none" /\ run'[k].at # "none" => j = k
         /\ \A v \in Writer \ {w} : want'[v] = want[v]
         /\ Completing' => Completing
         /\ Counting' => Counting
<1> TypeOK /\ RequestInv /\ (\A i \in Slot : RunAt(i)) /\ RunLimit
  BY DEF Inv
<1>1. Slot \subseteq Writer /\ "tick" \in Writer /\ Req \subseteq Writer
  BY DEF Writer
<1>2. /\ want' \in [Writer -> WantTypes] /\ want'[w] = None
      /\ \A v \in Writer \ {w} : want'[v] = want[v]
  BY DEF TypeOK, WantTypes
<1>3. RequestInv'
  BY <1>1, <1>2, Mutations DEF RequestInv
<1>4. \A j \in Slot : RunAt(j)'
  BY <1>1, <1>2 DEF RunAt
<1>5. (Completing' => Completing) /\ (Counting' => Counting)
  BY <1>1, <1>2, Mutations DEF Completing, Counting
<1>6. QED
  BY <1>2, <1>3, <1>4, <1>5 DEF TypeOK, RunTypes, RunLimit

\* A write that reaches the file and the memory.
LEMMA CommitStep ==
  ASSUME Inv, NEW w \in Writer, CommitWrite(w)
  PROVE  Inv'
<1> TypeOK /\ RequestInv /\ (\A i \in Slot : RunAt(i)) /\ RunLimit /\ DiskInv
      /\ ReachedInv /\ Within /\ ActiveHasJob /\ AcknowledgedStands
  BY DEF Inv
<1> DEFINE r == Patched(w, rec)
           clientStatus == w \in Req /\ want[w].field = "status"
           clientLimit  == w \in Req /\ want[w].field = "limit"
<1>1. /\ writer = w /\ want[w] # None /\ rec # Absent /\ rec \in Record
      /\ writer' = None /\ rec' = r /\ disk' = r /\ UNCHANGED listed
  BY AutomationsAssumption DEF CommitWrite, TypeOK
<1>2. /\ \A v \in Slot : v \notin Req
      /\ "tick" \notin Req /\ "tick" \notin Slot /\ Slot \subseteq Writer /\ Req \subseteq Writer
      /\ Writer = Req \cup Slot \cup {"tick"}
  BY AutomationsAssumption DEF Writer, Slot
<1>3. /\ \A x \in Record : x # Absent /\ x # Torn /\ x.status \in Status /\ x.runs \in Nat /\ x.limit \in Nat
      /\ allowed \in Nat
  BY AutomationsAssumption DEF Record, Limit, TypeOK
\* Whoever wrote goes on, or is answered.
<1>4. /\ run' \in [Slot -> RunTypes] /\ want' \in [Writer -> WantTypes]
      /\ RequestInv' /\ (\A j \in Slot : RunAt(j)')
      /\ \A j, k \in Slot : run'[j].at # "none" /\ run'[k].at # "none" => j = k
      /\ \A q \in Req \ {w} : want'[q] = want[q]
      /\ Completing' => Completing
      /\ Counting' => Counting /\ ~(w \in Slot /\ run[w].at \in {"appending", "recording"})
  <2>1. CASE w \in Slot
    <3>1. RunGoesOn(w, TRUE)
      BY <2>1 DEF CommitWrite
    <3>2. QED
      BY <1>1, <2>1, <3>1, RunGoesOnStep
  <2>2. CASE w \notin Slot
    <3>1. want' = [want EXCEPT ![w] = None] /\ UNCHANGED run
      BY <2>2 DEF CommitWrite
    <3>2. QED
      BY <1>2, <2>2, <3>1, AnsweredStep
  <2>3. QED
    BY <2>1, <2>2
\* The history of the write.
<1>5. /\ clientStatus => said' = want[w].to
      /\ ~clientStatus => said' = said
      /\ w \in Slot => job' = job
      /\ w \notin Slot /\ want[w] # Delete => job' = Schedulable(r)
      /\ want[w] = Delete => job' = job
  BY DEF CommitWrite, JobAfter
<1>6. /\ w \in Slot /\ run[w].at = "restoring" => undone' = (undone \/ r.status # rec.status)
      /\ ~(w \in Slot /\ run[w].at = "restoring") /\ ~clientStatus => undone' = undone
      /\ undone' \in BOOLEAN
  <2>1. CASE w \in Slot /\ run[w].at = "restoring"
    <3>2. ~clientStatus
      BY <1>2, <2>1
    <3>1. undone' = (undone \/ r.status # rec.status)
      BY <2>1, <3>2 DEF CommitWrite
    <3>3. undone' \in BOOLEAN
      <4>1. undone \in BOOLEAN /\ (r.status # rec.status) \in BOOLEAN
        BY DEF TypeOK
      <4>2. QED
        BY <3>1, <4>1
    <3>4. QED
      BY <2>1, <3>1, <3>2, <3>3
  <2>2. CASE clientStatus
    <3>1. w \notin Slot
      BY <1>2, <2>2
    <3>2. undone' = FALSE
      BY <2>2, <3>1 DEF CommitWrite
    <3>3. QED
      BY <2>2, <3>1, <3>2
  <2>3. CASE ~(w \in Slot /\ run[w].at = "restoring") /\ ~clientStatus
    <3>1. undone' = undone
      BY <2>3 DEF CommitWrite
    <3>2. QED
      BY <2>3, <3>1 DEF TypeOK
  <2>4. QED
    BY <2>1, <2>2, <2>3
<1>7. /\ jobless' \in BOOLEAN
      /\ w \in Slot \/ want[w] = Delete => jobless' = jobless
  <2>1. jobless' = (jobless /\ (w \in Slot \/ want[w] = Delete))
    BY DEF CommitWrite
  <2>2. jobless \in BOOLEAN
    BY DEF TypeOK
  <2>3. CASE w \in Slot \/ want[w] = Delete
    BY <2>1, <2>2, <2>3
  <2>4. CASE ~(w \in Slot \/ want[w] = Delete)
    BY <2>1, <2>4
  <2>5. QED
    BY <2>3, <2>4
<1>8. /\ reached' \in BOOLEAN
      /\ r = Absent => reached' = reached
      /\ r # Absent /\ AtLimit(r) => reached'
      /\ Completing' => reached'
      /\ ~clientStatus => (reached => reached')
  <2>1. CASE clientStatus
    <3>1. reached' = StillReached(w, r)
      BY <2>1 DEF CommitWrite
    <3>2. Completing => \E v \in Writer \ (Req \cup {w}) : want[v] = Complete
      BY <1>2, <2>1 DEF Completing
    <3>3. r # Absent
      <4>1. want[w].field = "status"
        BY <2>1
      <4>2. want[w] # Delete
        BY <4>1 DEF Delete, Patch
      <4>3. QED
        BY <1>1, <4>2, PatchedFacts
    <3>4. QED
      BY <1>4, <2>1, <3>1, <3>2, <3>3 DEF StillReached, AtLimit
  <2>2. CASE ~clientStatus
    <3>1. reached' = (reached \/ (r # Absent /\ AtLimit(r)))
      BY <2>2 DEF CommitWrite
    <3>2. AtLimit(r) \in BOOLEAN /\ reached \in BOOLEAN /\ (Completing => reached)
      BY DEF AtLimit, TypeOK, ReachedInv
    <3>3. QED
      BY <1>4, <2>2, <3>1, <3>2
  <2>3. QED
    BY <2>1, <2>2
<1>9. /\ clientLimit => allowed' = AllowedAfter(r)
      /\ ~clientLimit => allowed' = allowed
  BY DEF CommitWrite
\* What the record may become.
<1>10. CASE r = Absent /\ want[w] = Delete /\ w \in Req
  <2>1. ~clientStatus /\ ~clientLimit /\ w \notin Slot
    BY <1>2, <1>10 DEF Delete, Patch
  <2>2. TypeOK'
    <3>1. /\ said' = said /\ job' = job /\ jobless' = jobless /\ undone' = undone
          /\ reached' \in BOOLEAN /\ allowed' = allowed
      BY <1>5, <1>6, <1>7, <1>8, <1>9, <1>10, <2>1
    <3>2. QED
      BY <1>1, <1>4, <1>10, <3>1 DEF TypeOK, RunTypes, WantTypes
  <2>3. RunLimit' /\ DiskInv' /\ Within' /\ ActiveHasJob' /\ AcknowledgedStands'
    BY <1>1, <1>4, <1>10 DEF RunLimit, DiskInv, Within, ActiveHasJob, AcknowledgedStands, Schedulable
  <2>4. ReachedInv'
    BY <1>1, <1>8, <1>10 DEF ReachedInv
  <2>5. QED
    BY <1>4, <2>2, <2>3, <2>4 DEF Inv
<1>11. ASSUME r \in Record, allowed' \in Nat, said' \in Status, job' \in BOOLEAN,
              Within', ActiveHasJob', AcknowledgedStands'
       PROVE Inv'
  <2>1. r # Absent /\ r # Torn
    BY <1>3, <1>11
  <2>2. TypeOK'
    BY <1>1, <1>4, <1>6, <1>7, <1>8, <1>11 DEF TypeOK, RunTypes, WantTypes
  <2>3. ReachedInv'
    BY <1>1, <1>8, <2>1 DEF ReachedInv
  <2>4. RunLimit' /\ DiskInv'
    BY <1>1, <1>4, <1>11 DEF RunLimit, DiskInv, Within
  <2>5. QED
    BY <1>4, <1>11, <2>2, <2>3, <2>4 DEF Inv
<1>12. ASSUME r \in Record, r.limit = rec.limit, r.runs = rec.runs, ~clientLimit
       PROVE  Within' /\ allowed' \in Nat
  BY <1>1, <1>3, <1>4, <1>9, <1>12 DEF Within
<1>13. ASSUME want[w] = Append, w \in Slot, run[w].at \in {"appending", "recording"},
              r \in Record, r.runs = rec.runs + 1, r.trigger = rec.trigger, r.limit = rec.limit,
              r.status = rec.status \/ (r.status = "completed" /\ AtLimit(r))
       PROVE  Inv'
  <2>1. ~clientStatus /\ ~clientLimit /\ run[w].at # "restoring" /\ r # Absent
    BY <1>2, <1>3, <1>13
  <2>2. /\ said' = said /\ job' = job /\ undone' = undone /\ jobless' = jobless /\ allowed' = allowed
        /\ reached => reached'
    BY <1>5, <1>6, <1>7, <1>8, <1>9, <1>13, <2>1
  <2>3. Within'
    <3>1. Counting /\ ~Counting'
      BY <1>4, <1>13 DEF Counting
    <3>2. QED
      BY <1>1, <1>3, <1>13, <2>2, <3>1 DEF Within
  <2>4. ActiveHasJob'
    BY <1>1, <1>2, <1>4, <1>13, <2>1, <2>2 DEF ActiveHasJob, Schedulable
  <2>5. AcknowledgedStands'
    BY <1>1, <1>8, <1>13, <2>1, <2>2 DEF AcknowledgedStands
  <2>6. allowed' \in Nat /\ said' \in Status /\ job' \in BOOLEAN
    BY <2>2 DEF TypeOK
  <2>7. QED
    BY <1>11, <1>13, <2>3, <2>4, <2>5, <2>6
<1>14. ASSUME NEW s \in Status, want[w] = Patch("status", s), r \in Record,
              r = [rec EXCEPT !.status = s]
       PROVE  Inv'
  <2>1. r.status = s /\ r.runs = rec.runs /\ r.trigger = rec.trigger /\ r.limit = rec.limit /\ r # Absent
    BY <1>1, <1>3, <1>14 DEF Record
  <2>2. want[w].field = "status" /\ want[w].to = s /\ want[w] # Delete /\ ~clientLimit
    BY <1>14 DEF Patch, Delete
  <2>3. Within' /\ allowed' \in Nat
    BY <1>12, <1>14, <2>1, <2>2
  <2>4. CASE w \in Slot
    <3>1. ~clientStatus
      BY <1>2, <2>4
    <3>2. /\ said' = said /\ job' = job /\ jobless' = jobless /\ (reached => reached')
      BY <1>5, <1>7, <1>8, <2>4, <3>1
    <3>3. run[w].at \in {"closing", "restoring"}
      <4>1. want[w] # Append /\ want[w] # None
        BY <1>1, <1>14, Mutations
      <4>2. QED
        BY <2>4, <4>1 DEF RunAt, TypeOK
    <3>4. CASE run[w].at = "restoring"
      <4>1. undone' = (undone \/ r.status # rec.status)
        BY <1>6, <2>4, <3>4
      <4>2. ActiveHasJob'
        <5>1. CASE r.status = rec.status
          BY <1>1, <1>2, <1>4, <2>1, <2>4, <3>2, <4>1, <5>1 DEF ActiveHasJob, Schedulable
        <5>2. CASE r.status # rec.status
          BY <4>1, <5>2 DEF ActiveHasJob
        <5>3. QED
          BY <5>1, <5>2
      <4>3. AcknowledgedStands'
        <5>1. CASE r.status = rec.status
          BY <1>1, <2>1, <3>2, <4>1, <5>1 DEF AcknowledgedStands
        <5>2. CASE r.status # rec.status
          BY <4>1, <5>2 DEF AcknowledgedStands
        <5>3. QED
          BY <5>1, <5>2
      <4>4. QED
        BY <1>11, <1>14, <2>3, <3>2, <4>2, <4>3 DEF TypeOK
    <3>5. CASE run[w].at = "closing"
      <4>1. want[w] = Complete
        BY <2>4, <3>5 DEF RunAt
      <4>2. s = "completed"
        BY <2>2, <4>1 DEF Complete, Patch
      <4>3. reached'
        BY <2>4, <3>2, <4>1 DEF ReachedInv, Completing
      <4>4. ActiveHasJob' /\ AcknowledgedStands'
        BY <1>1, <2>1, <4>2, <4>3 DEF ActiveHasJob, AcknowledgedStands, Schedulable
      <4>5. QED
        BY <1>11, <1>14, <2>3, <3>2, <4>4 DEF TypeOK
    <3>6. QED
      BY <3>3, <3>4, <3>5
  <2>5. CASE w = "tick"
    <3>1. ~clientStatus /\ w \notin Slot
      BY <1>2, <2>5
    <3>2. want[w] = Complete
      BY <1>1, <2>5 DEF RequestInv
    <3>3. s = "completed"
      BY <2>2, <3>2 DEF Complete, Patch
    <3>4. reached'
      BY <1>8, <2>5, <3>1, <3>2 DEF ReachedInv, Completing
    <3>5. said' = said /\ job' = Schedulable(r)
      BY <1>5, <2>2, <3>1
    <3>6. ActiveHasJob' /\ AcknowledgedStands'
      BY <1>1, <2>1, <3>3, <3>4 DEF ActiveHasJob, AcknowledgedStands, Schedulable
    <3>7. said' \in Status /\ job' \in BOOLEAN
      BY <3>5 DEF TypeOK, Schedulable
    <3>8. QED
      BY <1>11, <1>14, <2>3, <3>6, <3>7
  <2>6. CASE w \in Req
    <3>1. clientStatus /\ w \notin Slot
      BY <1>2, <2>2, <2>6
    <3>2. said' = s /\ job' = Schedulable(r)
      BY <1>5, <2>2, <3>1
    <3>3. ActiveHasJob' /\ AcknowledgedStands'
      BY <1>1, <2>1, <3>2 DEF ActiveHasJob, AcknowledgedStands
    <3>4. said' \in Status /\ job' \in BOOLEAN
      BY <3>2 DEF Schedulable
    <3>5. QED
      BY <1>11, <1>14, <2>3, <3>3, <3>4
  <2>7. QED
    BY <1>2, <2>4, <2>5, <2>6
<1>15. ASSUME w \in Req, want[w].field # "status", want[w] # Delete, r \in Record,
              r.status = rec.status, Within', allowed' \in Nat
       PROVE  Inv'
  <2>1. ~clientStatus /\ w \notin Slot /\ r # Absent
    BY <1>2, <1>3, <1>15
  <2>2. said' = said /\ job' = Schedulable(r) /\ undone' = undone /\ (reached => reached')
    BY <1>5, <1>6, <1>8, <1>15, <2>1
  <2>3. ActiveHasJob' /\ AcknowledgedStands'
    BY <1>1, <1>15, <2>1, <2>2 DEF ActiveHasJob, AcknowledgedStands
  <2>4. said' \in Status /\ job' \in BOOLEAN
    BY <2>2 DEF TypeOK, Schedulable
  <2>5. QED
    BY <1>11, <1>15, <2>3, <2>4
<1>16. ASSUME NEW t \in Trigger, want[w] = Patch("trigger", t), w \in Req, r \in Record,
              r = [rec EXCEPT !.trigger = t]
       PROVE  Inv'
  <2>1. r.runs = rec.runs /\ r.status = rec.status /\ r.limit = rec.limit
    BY <1>1, <1>16 DEF Record
  <2>2. want[w].field # "status" /\ want[w] # Delete /\ ~clientLimit
    BY <1>16 DEF Patch, Delete
  <2>3. QED
    BY <1>12, <1>15, <1>16, <2>1, <2>2
<1>17. ASSUME NEW m \in Limit, want[w] = Patch("limit", m), w \in Req, r \in Record,
              r = [rec EXCEPT !.limit = m]
       PROVE  Inv'
  <2>1. r.runs = rec.runs /\ r.status = rec.status /\ r.limit = m
    BY <1>1, <1>17 DEF Record
  <2>2. want[w].field # "status" /\ want[w] # Delete /\ clientLimit
    BY <1>17 DEF Patch, Delete
  <2>3. allowed' = AllowedAfter(r)
    BY <1>9, <2>2
  <2>4. r.runs \in Nat /\ r.limit \in Nat
    BY <1>3, <1>17
  <2>5. /\ allowed' \in Nat
        /\ r.limit # 0 => /\ r.limit <= allowed' /\ r.runs <= allowed'
                          /\ Counting => r.runs + 1 <= allowed'
    BY <2>3, <2>4 DEF AllowedAfter
  <2>6. Within'
    BY <1>1, <1>4, <2>5 DEF Within
  <2>7. QED
    BY <1>15, <1>17, <2>1, <2>2, <2>5, <2>6
<1>18. QED
  BY <1>1, <1>10, <1>13, <1>14, <1>16, <1>17, PatchedFacts

\* A mutation that fails, is refused or finds no record leaves the record alone.
LEMMA FailStep ==
  ASSUME Inv, NEW w \in Writer, FailWrite(w) \/ Refuse(w)
  PROVE  Inv'
<1> TypeOK /\ RequestInv /\ (\A i \in Slot : RunAt(i)) /\ RunLimit /\ DiskInv
      /\ ReachedInv /\ Within /\ ActiveHasJob /\ AcknowledgedStands
  BY DEF Inv
<1>1. /\ want[w] # None /\ UNCHANGED <<rec, job, listed, said, undone, reached, allowed>>
      /\ writer' = None \/ (writer' = writer /\ writer # w)
      /\ disk' = disk \/ disk' \in {rec, Torn, Absent}
      /\ w \in Slot => RunGoesOn(w, FALSE) \/ (rec = Absent /\ RunGoesOn(w, TRUE))
      /\ w \notin Slot => want' = [want EXCEPT ![w] = None] /\ UNCHANGED run
  BY AutomationsAssumption DEF FailWrite, Refuse, TypeOK
<1>2. /\ jobless' \in BOOLEAN /\ (jobless => jobless')
      /\ want[w] = Delete => jobless' \/ rec = Absent
  BY DEF FailWrite, Refuse, TypeOK
<1>3. Slot \subseteq Writer
  BY DEF Writer
<1>4. /\ run' \in [Slot -> RunTypes] /\ want' \in [Writer -> WantTypes]
      /\ RequestInv' /\ (\A j \in Slot : RunAt(j)')
      /\ \A j, k \in Slot : run'[j].at # "none" /\ run'[k].at # "none" => j = k
      /\ \A q \in Req \ {w} : want'[q] = want[q]
      /\ (Completing' => Completing) /\ (Counting' => Counting)
  <2>1. ASSUME NEW b \in BOOLEAN, w \in Slot, RunGoesOn(w, b)
        PROVE /\ run' \in [Slot -> RunTypes] /\ want' \in [Writer -> WantTypes]
              /\ RequestInv' /\ (\A j \in Slot : RunAt(j)')
              /\ \A j, k \in Slot : run'[j].at # "none" /\ run'[k].at # "none" => j = k
              /\ \A q \in Req \ {w} : want'[q] = want[q]
              /\ (Completing' => Completing) /\ (Counting' => Counting)
    BY <1>1, <2>1, RunGoesOnStep
  <2>2. CASE w \in Slot
    BY <1>1, <2>1, <2>2
  <2>3. CASE w \notin Slot
    BY <1>1, <2>3, AnsweredStep DEF Writer
  <2>4. QED
    BY <2>2, <2>3
<1>5. writer' # None => want'[writer'] # None /\ rec # Absent
  <2>1. \A v \in Writer \ {w} : want'[v] = want[v]
    <3>1. CASE w \in Slot
      BY <1>1, <3>1, RunGoesOnFacts
    <3>2. CASE w \notin Slot
      BY <1>1, <3>2 DEF TypeOK
    <3>3. QED
      BY <3>1, <3>2
  <2>2. QED
    BY <1>1, <2>1 DEF TypeOK
<1>6. TypeOK'
  BY <1>1, <1>2, <1>4, <1>5 DEF TypeOK, RunTypes, WantTypes
<1>7. RunLimit' /\ DiskInv'
  BY <1>1, <1>4 DEF RunLimit, DiskInv
<1>8. ActiveHasJob'
  BY <1>1, <1>2, <1>4 DEF ActiveHasJob, Schedulable
<1>9. ReachedInv' /\ Within' /\ AcknowledgedStands'
  BY <1>1, <1>4, QuietStep
<1>10. QED
  BY <1>4, <1>6, <1>7, <1>8, <1>9 DEF Inv

\* A write that begins tears the file, a restart takes what the file still holds.
LEMMA FileStep ==
  ASSUME Inv, Restart \/ \E w \in Writer : BeginWrite(w)
  PROVE  Inv'
<1> TypeOK /\ RequestInv /\ (\A i \in Slot : RunAt(i)) /\ RunLimit /\ DiskInv
      /\ ReachedInv /\ Within /\ ActiveHasJob /\ AcknowledgedStands
  BY DEF Inv
<1>1. ASSUME NEW w \in Writer, BeginWrite(w) PROVE Inv'
  <2>1. /\ want[w] # None /\ rec # Absent /\ writer' = w /\ disk' \in {disk, Torn}
        /\ UNCHANGED <<rec, job, want, run, listed, said, undone, jobless, reached, allowed>>
    BY <1>1 DEF BeginWrite, hist
  <2>2. (Completing' => Completing) /\ (Counting' => Counting)
    BY <2>1 DEF Completing, Counting
  <2>3. ReachedInv' /\ Within' /\ AcknowledgedStands'
    BY <2>1, <2>2, QuietStep
  <2>4. QED
    BY <2>1, <2>3 DEF Inv, TypeOK, RequestInv, RunAt, RunLimit, DiskInv, ActiveHasJob, Schedulable
<1>2. CASE Restart
  <2>1. /\ rec' \in {rec, Absent} /\ disk' = rec' /\ job' = Schedulable(rec')
        /\ want' = [w \in Writer |-> None] /\ writer' = None
        /\ run' = [i \in Slot |-> NoRun] /\ jobless' = FALSE /\ listed' = FALSE
        /\ UNCHANGED <<said, undone, reached, allowed>>
    BY <1>2 DEF Restart, DiskInv
  <2>2. Slot \subseteq Writer /\ "tick" \in Writer /\ Req \subseteq Writer
    BY DEF Writer
  <2>3. TypeOK'
    BY <2>1 DEF TypeOK, NoRun, Schedulable
  <2>4. RequestInv' /\ (\A i \in Slot : RunAt(i)') /\ ~Completing' /\ ~Counting'
    BY <2>1, <2>2, Mutations DEF RequestInv, RunAt, NoRun, Completing, Counting
  <2>5. RunLimit' /\ DiskInv'
    BY <2>1 DEF RunLimit, DiskInv, NoRun
  <2>6. ActiveHasJob'
    BY <2>1 DEF ActiveHasJob
  <2>7. AcknowledgedStands' /\ ReachedInv' /\ Within'
    <3>1. CASE rec' = rec
      BY <2>1, <2>4, <3>1, QuietStep
    <3>2. CASE rec' = Absent
      BY <2>4, <3>2 DEF AcknowledgedStands, ReachedInv, Within
    <3>3. QED
      BY <2>1, <3>1, <3>2
  <2>8. QED
    BY <2>3, <2>4, <2>5, <2>6, <2>7 DEF Inv
<1>3. QED
  BY <1>1, <1>2

\* Every step keeps the invariant.
LEMMA InvStep == Inv /\ [Next]_vars => Inv'
<1> SUFFICES ASSUME Inv, [Next]_vars PROVE Inv'
  OBVIOUS
<1>1. CASE \E w \in Writer : StoreStep(w)
  BY <1>1, CommitStep, FailStep, FileStep DEF StoreStep
<1>2. CASE Tick \/ QuestCompleted \/ RunListed \/ RunAutomation
  BY <1>2, StartStep
<1>3. CASE Restart
  BY <1>3, FileStep
<1>4. CASE \/ \E r \in Req : DeleteAutomation(r) \/ \E p \in Asked[r] : Update(r, p)
           \/ EnsureScheduled
           \/ \E i \in Slot : SessionEnds(i)
  BY <1>4, ClientStep
<1>5. CASE UNCHANGED vars
  <2>1. UNCHANGED <<rec, disk, job, want, writer, run, listed, said, undone, jobless, reached, allowed>>
    BY <1>5 DEF vars, hist
  <2>2. (Completing' => Completing) /\ (Counting' => Counting)
    BY <2>1 DEF Completing, Counting
  <2>3. ReachedInv' /\ Within' /\ AcknowledgedStands'
    BY <2>1, <2>2, QuietStep
  <2>4. QED
    BY <2>1, <2>3 DEF Inv, TypeOK, RequestInv, RunAt, RunLimit, DiskInv, ActiveHasJob, Schedulable
<1>6. QED
  BY <1>1, <1>2, <1>3, <1>4, <1>5 DEF Next

--------------------------------------------------------------------------------
\* The inductive invariant of an automation holds for any requests and limits.
THEOREM InvCorrect == Spec => []Inv
  BY InvInit, InvStep, PTL DEF Spec

\* Type correctness of the automation, its file, its job and its runs.
THEOREM TypeCorrect == Spec => []TypeOK
<1>1. Inv => TypeOK
  BY DEF Inv
<1>2. QED
  BY InvCorrect, <1>1, PTL

\* At most one run at a time and never more runs than the limit, or than were made
\* or begun when it was lowered, however many ticks, quest events, manual runs,
\* patches, failed writes and restarts come together.
THEOREM RunLimitCorrect == Spec => []RunLimit
<1>1. Inv => RunLimit
  BY DEF Inv
<1>2. QED
  BY InvCorrect, <1>1, PTL

\* An active scheduled automation has its job, but for a failed run that writes
\* "active" over a pause and a deletion that does not go through.
THEOREM JobCorrect == Spec => []ActiveHasJob
<1>1. Inv => ActiveHasJob
  BY DEF Inv
<1>2. QED
  BY InvCorrect, <1>1, PTL

\* The status a client was told stands until the next request or until the runs
\* reach the limit, but for a failed run that writes another one back.
THEOREM StatusCorrect == Spec => []AcknowledgedStands
<1>1. Inv => AcknowledgedStands
  BY DEF Inv
<1>2. QED
  BY InvCorrect, <1>1, PTL
================================================================================
