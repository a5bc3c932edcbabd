------------------------------ MODULE Automations ------------------------------
(***************************************************************************)
(* One automation: its record in the store, the cron job the scheduler     *)
(* keeps for it, the runs of the executor, and the requests that update,   *)
(* delete and run it.  The scheduler and the executor both read the record *)
(* at one time and write it at another; every write waits for the mutation *)
(* lock of the store, reaches the file, and only then the memory.          *)
(***************************************************************************)
EXTENDS Naturals

CONSTANTS
  Req,      \* requests that update or delete the automation
  Asked,    \* the patches each of them may ask for
  MaxRuns,  \* the largest maxRuns a client gives
  RunBound, \* runs begun at most; the bound of the runs without a limit
  Absent, None, Torn

VARIABLES
  rec,       \* the record in the memory of the store
  disk,      \* the file: a record, Torn or Absent
  job,       \* activeJobs has a job
  want,      \* the mutation each writer has asked the store for
  writer,    \* who is inside withMutationLock
  run,       \* the runs in progress, with the status each read at its start
  listed,    \* a quest event has listed the automation and has still to run it
  said,      \* history: the status last acknowledged to a client
  undone,    \* history: a failed run has written back the status it read
  jobless,   \* history: a deletion took the job and failed
  reached,   \* history: the runs have been at the limit since said was last acknowledged
  allowed    \* history: the limit, or the runs made or begun by the time it was lowered

hist == <<said, undone, jobless, reached, allowed>>
vars == <<rec, disk, job, want, writer, run, listed, hist>>

Status  == {"active", "paused", "completed", "cancelled"}
Trigger == {"schedule", "quest"}
Limit   == 0..MaxRuns    \* maxRuns, 0 when there is none
Record  == [status : Status, trigger : Trigger, runs : Nat, limit : Limit]

\* Two runs at once are possible in the state space; the executor prevents them.
Slot   == {"run1", "run2"}
Writer == Req \cup Slot \cup {"tick"}
NoRun  == [at |-> "none", seen |-> None]

Patch(field, v) == [field |-> field, to |-> v]
Append  == Patch("runs", None)
Delete  == Patch("record", Absent)
Complete == Patch("status", "completed")
Patches == {Patch("status", s) : s \in Status} \cup {Patch("trigger", t) : t \in Trigger}
             \cup {Patch("limit", m) : m \in Limit}

ASSUME AutomationsAssumption ==
  /\ MaxRuns \in Nat /\ RunBound \in Nat /\ Asked \in [Req -> SUBSET Patches]
  /\ Req \cap (Slot \cup {"tick"}) = {}
  /\ None \notin Writer /\ None \notin Patches \cup {Append, Delete}
  /\ {Absent, Torn} \cap Record = {}

Schedulable(r) == r # Absent /\ r.status = "active" /\ r.trigger = "schedule"
\* Deviation from AtLimit: one run more.
PastLimit(r) == r.limit # 0 /\ r.runs > r.limit

AtLimit(r) == r.limit # 0 /\ r.runs >= r.limit

\* createAutomation: the record is written, then the job registered.
Init ==
  /\ \E m \in Limit : rec = [status |-> "active", trigger |-> "schedule", runs |-> 0, limit |-> m]
  /\ disk = rec
  /\ job = TRUE
  /\ want = [w \in Writer |-> None]
  /\ writer = None
  /\ run = [i \in Slot |-> NoRun]
  /\ listed = FALSE
  /\ said = "active" /\ undone = FALSE /\ jobless = FALSE
  /\ reached = FALSE /\ allowed = rec.limit

--------------------------------------------------------------------------------
(***************************************************************************)
(* The executor                                                            *)
(***************************************************************************)

\* inFlightByAutomationId: a caller joins the run in progress.
Running == \E i \in Slot : run[i].at # "none"

\* executeAutomationInternal up to its first long wait.  source is "schedule",
\* "quest" or "manual".
Execute(source) ==
  \/ /\ Running \/ rec = Absent
     /\ UNCHANGED <<run, want>>
  \/ /\ ~Running /\ rec # Absent
     /\ \/ source # "manual" /\ rec.status # "active"
        \/ rec.status \in {"completed", "cancelled"}
     /\ UNCHANGED <<run, want>>
  \/ /\ ~Running /\ rec # Absent
     /\ rec.status = "active" \/ (source = "manual" /\ rec.status = "paused")
     /\ LET i == CHOOSE i \in Slot : run[i].at = "none" IN
        IF AtLimit(rec)
          THEN /\ run' = [run EXCEPT ![i] = [at |-> "closing", seen |-> rec.status]]
               /\ want' = [want EXCEPT ![i] = Complete]
          ELSE /\ rec.runs < RunBound
               /\ run' = [run EXCEPT ![i] = [at |-> "working", seen |-> rec.status]]
               /\ UNCHANGED want

\* The session completes, or one of the steps up to that throws, or so does the
\* writing of the metadata of the failed run, which ends the run at once.
SessionEnds(i) ==
  /\ run[i].at = "working"
  /\ \/ /\ run' = [run EXCEPT ![i].at = "appending"]
        /\ want' = [want EXCEPT ![i] = Append]
     \/ /\ run' = [run EXCEPT ![i].at = "restoring"]
        /\ want' = [want EXCEPT ![i] = Patch("status", run[i].seen)]
     \/ /\ run' = [run EXCEPT ![i] = NoRun]
        /\ UNCHANGED want
  /\ UNCHANGED <<rec, disk, job, writer, listed, hist>>

\* What follows a mutation the run asked for: a success that could not be
\* appended becomes a failure, a failure restores the status and is appended.
RunGoesOn(i, written) ==
  CASE run[i].at = "appending" /\ ~written ->
         /\ run' = [run EXCEPT ![i].at = "restoring"]
         /\ want' = [want EXCEPT ![i] = Patch("status", run[i].seen)]
    [] run[i].at = "restoring" /\ written ->
         /\ run' = [run EXCEPT ![i].at = "recording"]
         /\ want' = [want EXCEPT ![i] = Append]
    [] OTHER ->
         /\ run' = [run EXCEPT ![i] = NoRun]
         /\ want' = [want EXCEPT ![i] = None]

--------------------------------------------------------------------------------
(***************************************************************************)
(* The store: update, appendHistory and delete under the mutation lock     *)
(***************************************************************************)

\* Deviation from Patched: a run appends to the record it read at its start.
PatchedStale(w, r) ==
  CASE want[w] = Append -> [r EXCEPT !.runs = @ + 1, !.status = run[w].seen]
    [] want[w].field = "status" -> [r EXCEPT !.status = want[w].to]
    [] want[w].field = "trigger" -> [r EXCEPT !.trigger = want[w].to]
    [] want[w].field = "limit" -> [r EXCEPT !.limit = want[w].to]
    [] OTHER -> Absent

\* The record a mutation makes of the current one; the run that reaches the
\* limit completes the automation.
Patched(w, r) ==
  CASE want[w] = Append ->
         [r EXCEPT !.runs = @ + 1,
                   !.status = IF r.limit # 0 /\ r.runs + 1 >= r.limit THEN "completed" ELSE @]
    [] want[w].field = "status" -> [r EXCEPT !.status = want[w].to]
    [] want[w].field = "trigger" -> [r EXCEPT !.trigger = want[w].to]
    [] want[w].field = "limit" -> [r EXCEPT !.limit = want[w].to]
    [] OTHER -> Absent

\* writeFile truncates the file before it writes; rm removes it.
BeginWrite(w) ==
  /\ want[w] # None /\ writer = None /\ rec # Absent
  /\ writer' = w
  /\ disk' = IF want[w] = Delete THEN disk ELSE Torn
  /\ UNCHANGED <<rec, job, want, run, listed, hist>>

\* Deviation from JobAfter: an update that activates again registers no job.
JobAfterOnce(w, r) == job /\ Schedulable(r)

\* updateAutomation replaces the job right after its write; the executor writes
\* past the scheduler, and a deletion has unregistered the job before.
JobAfter(w, r) ==
  IF w \in Slot \/ want[w] = Delete THEN job ELSE Schedulable(r)

\* A run in progress that will be counted, whatever becomes of the limit.
Counting == \E i \in Slot : run[i].at \in {"working", "appending", "restoring", "recording"}

\* A new limit does not undo what was made or begun under the old one.
AllowedAfter(r) ==
  LET begun == r.runs + (IF Counting THEN 1 ELSE 0) IN
  IF r.limit = 0 THEN 0 ELSE IF r.limit >= begun THEN r.limit ELSE begun

\* Whether the limit has been reached since the client was told the status; a
\* tick or a run that found it so may still have to write that.
StillReached(w, r) ==
  AtLimit(r) \/ \E v \in Writer \ (Req \cup {w}) : want[v] = Complete

CommitWrite(w) ==
  LET r == Patched(w, rec) IN
  /\ writer = w
  /\ writer' = None
  /\ rec' = r /\ disk' = r
  /\ job' = JobAfter(w, r)
  /\ IF w \in Slot THEN RunGoesOn(w, TRUE)
                   ELSE want' = [want EXCEPT ![w] = None] /\ UNCHANGED run
  /\ said' = IF w \in Req /\ want[w].field = "status" THEN want[w].to ELSE said
  /\ undone' = CASE w \in Slot /\ run[w].at = "restoring" -> undone \/ r.status # rec.status
                 [] w \in Req /\ want[w].field = "status" -> FALSE
                 [] OTHER -> undone
  /\ jobless' = (jobless /\ (w \in Slot \/ want[w] = Delete))
  /\ reached' = IF w \in Req /\ want[w].field = "status" THEN StillReached(w, r)
                ELSE reached \/ (r # Absent /\ AtLimit(r))
  /\ allowed' = IF w \in Req /\ want[w].field = "limit" THEN AllowedAfter(r) ELSE allowed
  /\ UNCHANGED listed

\* The write fails, at its start or half-way; of a deletion, the removal of the
\* record or of the automation's directory after it.
FailWrite(w) ==
  /\ writer = w
  /\ writer' = None
  /\ disk' \in IF want[w] = Delete THEN {disk, Absent} ELSE {rec, Torn}
  /\ IF w \in Slot THEN RunGoesOn(w, FALSE)
                   ELSE want' = [want EXCEPT ![w] = None] /\ UNCHANGED run
  /\ jobless' = (jobless \/ want[w] = Delete)
  /\ UNCHANGED <<rec, job, listed, said, undone, reached, allowed>>

\* There is no record, or the commander that owns it is being deleted and
\* refuses: a run is told by null, which it takes as written, or by an error.
Refuse(w) ==
  /\ want[w] # None /\ writer # w
  /\ LET missing == rec = Absent IN
       /\ IF w \in Slot THEN RunGoesOn(w, missing)
                        ELSE want' = [want EXCEPT ![w] = None] /\ UNCHANGED run
       /\ jobless' = (jobless \/ (want[w] = Delete /\ ~missing))
  /\ UNCHANGED <<rec, disk, job, writer, listed, said, undone, reached, allowed>>

--------------------------------------------------------------------------------
(***************************************************************************)
(* The scheduler and its clients                                           *)
(***************************************************************************)

Update(r, p) ==
  /\ want[r] = None /\ rec # Absent
  /\ want' = [want EXCEPT ![r] = p]
  /\ UNCHANGED <<rec, disk, job, writer, run, listed, hist>>

\* deleteAutomation takes the job first.
DeleteAutomation(r) ==
  /\ want[r] = None
  /\ job' = FALSE
  /\ want' = [want EXCEPT ![r] = Delete]
  /\ UNCHANGED <<rec, disk, writer, run, listed, hist>>

\* Deviation from Tick: a tick that finds nothing to run keeps its job.
TickKeeps ==
  /\ job /\ want["tick"] = None
  /\ \/ ~Schedulable(rec) /\ UNCHANGED <<job, want, run>>
     \/ Schedulable(rec) /\ UNCHANGED job /\ Execute("schedule")
  /\ UNCHANGED <<rec, disk, writer, listed, hist>>

\* handleScheduledTick; a tick during the update of another is left out.
Tick ==
  /\ job /\ want["tick"] = None
  /\ \/ /\ ~Schedulable(rec)
        /\ job' = FALSE
        /\ UNCHANGED <<want, run>>
     \/ /\ Schedulable(rec) /\ AtLimit(rec)
        /\ want' = [want EXCEPT !["tick"] = Complete]
        /\ UNCHANGED <<job, run>>
     \/ /\ Schedulable(rec) /\ ~AtLimit(rec)
        /\ Execute("schedule")
        /\ UNCHANGED job
  /\ UNCHANGED <<rec, disk, writer, listed, hist>>

\* handleQuestCompleted lists the automations with a quest trigger once and then
\* runs one after the other, this one perhaps much later; another event may have
\* listed it meanwhile.
QuestCompleted ==
  /\ rec # Absent /\ rec.trigger = "quest" /\ rec.status = "active"
  /\ ~listed /\ listed' = TRUE
  /\ UNCHANGED <<rec, disk, job, want, writer, run, hist>>

RunListed ==
  /\ listed
  /\ Execute("quest")
  /\ listed' \in BOOLEAN
  /\ UNCHANGED <<rec, disk, job, writer, hist>>

\* ensureAutomationScheduled, when the default automations are provisioned again.
EnsureScheduled ==
  /\ rec # Absent
  /\ job' = Schedulable(rec)
  /\ jobless' = FALSE
  /\ UNCHANGED <<rec, disk, want, writer, run, listed, said, undone, reached, allowed>>

RunAutomation ==
  /\ Execute("manual")
  /\ UNCHANGED <<rec, disk, job, writer, listed, hist>>

\* The server stops and starts: readFromDisk sets a file it cannot parse aside,
\* initialize registers the jobs.
Restart ==
  LET r == IF disk = Torn THEN Absent ELSE disk IN
  /\ rec' = r /\ disk' = r
  /\ job' = Schedulable(r)
  /\ want' = [w \in Writer |-> None]
  /\ writer' = None
  /\ run' = [i \in Slot |-> NoRun]
  /\ listed' = FALSE
  /\ jobless' = FALSE
  /\ UNCHANGED <<said, undone, reached, allowed>>

--------------------------------------------------------------------------------
StoreStep(w) == BeginWrite(w) \/ CommitWrite(w) \/ FailWrite(w) \/ Refuse(w)

Next ==
  \/ \E w \in Writer : StoreStep(w)
  \/ \E i \in Slot : SessionEnds(i)
  \/ \E r \in Req : DeleteAutomation(r) \/ \E p \in Asked[r] : Update(r, p)
  \/ Tick \/ QuestCompleted \/ RunListed \/ RunAutomation \/ EnsureScheduled \/ Restart

Spec == Init /\ [][Next]_vars

\* The file system answers, the mutation lock is a queue, cron fires again and again.
FairSpec == Spec /\ SF_vars(Tick) /\ \A w \in Writer : WF_vars(StoreStep(w))

--------------------------------------------------------------------------------
(***************************************************************************)
(* Properties                                                              *)
(***************************************************************************)

\* The types; whoever is inside the mutation lock has asked for a mutation of a
\* record that is there.
TypeOK ==
  /\ rec \in Record \cup {Absent}
  /\ disk \in Record \cup {Torn, Absent}
  /\ job \in BOOLEAN
  /\ want \in [Writer -> Patches \cup {Append, Delete, None}]
  /\ writer \in Writer \cup {None}
  /\ writer # None => want[writer] # None /\ rec # Absent
  /\ run \in [Slot -> [at : {"none", "closing", "working", "appending", "restoring",
                             "recording"}, seen : Status \cup {None}]]
  /\ listed \in BOOLEAN /\ said \in Status /\ allowed \in Nat
  /\ undone \in BOOLEAN /\ jobless \in BOOLEAN /\ reached \in BOOLEAN

\* However ticks, quest events, manual runs and new limits come together, at most
\* one run is in progress, and the automation never has more runs than its limit
\* or, when that was lowered, than were made by then and the one in progress.
RunLimit ==
  /\ rec # Absent /\ rec.limit # 0 => rec.runs <= allowed
  /\ \A i, j \in Slot : run[i].at # "none" /\ run[j].at # "none" => i = j

\* An active automation with a schedule has its job, through updates, runs,
\* restarts and ticks that came too late; the two ways to lose it are a failed
\* run that writes "active" over a pause and a deletion that does not go through.
ActiveHasJob ==
  Schedulable(rec) => job \/ undone \/ jobless \/ \E r \in Req : want[r] = Delete

\* The status a client was told stands until the next request, or until the runs
\* have reached the limit (a tick or a run that found it so may write that after
\* the limit was raised); only a failed run writes another back.
AcknowledgedStands ==
  rec # Absent => rec.status = said \/ undone \/ (rec.status = "completed" /\ reached)

\* The job of an automation that was deleted, completed or triggered otherwise
\* meanwhile does not stay: its next tick removes it.
StaleJobGoes == job /\ ~Schedulable(rec) ~> ~job \/ Schedulable(rec)
================================================================================
