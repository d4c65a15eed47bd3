---------------------------- MODULE TaskManager ----------------------------
(***************************************************************************)
(* pkg/task/manager.go over the file storage of pkg/task/storage.go.       *)
(*                                                                         *)
(* Every mutating operation runs under Manager.mu, changes the cached      *)
(* context first and writes it to disk after: the parts of a context are   *)
(* separate files, so a write can fail, or the process can die, between    *)
(* two of them or inside one (os.WriteFile truncates before it writes).    *)
(* A failed write returns an error and leaves the change in memory.        *)
(***************************************************************************)
EXTENDS TaskContext, FiniteSets

CONSTANTS
    Tasks,      \* task identifiers; CreateTask takes a new UUID each time
    Corrupt,    \* a file that was truncated and not written
    MaxLog,     \* bound on the lengths of all logs of a task together
    MaxFaults   \* bound on failed writes, panics and process deaths

ASSUME ManagerAssumption ==
    /\ MaxLog \in Nat
    /\ MaxFaults \in Nat
    /\ Corrupt \notin Task \cup Findings \cup Progress \cup {Nil}
    /\ Nil \notin Context

VARIABLES
    cache,      \* Manager.activeTasks; Nil when the task is not in the map
    disk,       \* task.json, findings.json, progress.json of each task
    viewCount,  \* Manager.viewActionCount
    (* What callers were told, for the properties: *)
    life,       \* what CreateTask and DeleteTask answered
    unsaved,    \* parts with a change that no answer reported saved
    acked,      \* RecordError calls that returned no error
    faults      \* failed writes, panics and process deaths so far

vars == <<cache, disk, viewCount, life, unsaved, acked, faults>>

Parts == {"task", "findings", "progress"}
Files == [task: Task \cup {Nil, Corrupt}, findings: Findings \cup {Nil, Corrupt},
          progress: Progress \cup {Nil, Corrupt}]
Lives == {"unborn", "created", "orphan", "deleting", "deleted"}

TypeOK ==
    /\ cache \in [Tasks -> Context \cup {Nil}]
    /\ disk \in [Tasks -> Files]
    /\ viewCount \in [Tasks -> 0..1]
    /\ life \in [Tasks -> Lives]
    /\ unsaved \in [Tasks -> SUBSET Parts]
    /\ acked \in [Tasks -> Nat]
    /\ faults \in 0..MaxFaults

Init ==
    /\ cache = [t \in Tasks |-> Nil]
    /\ disk = [t \in Tasks |-> EmptyContext]
    /\ viewCount = [t \in Tasks |-> 0]
    /\ life = [t \in Tasks |-> "unborn"]
    /\ unsaved = [t \in Tasks |-> {}]
    /\ acked = [t \in Tasks |-> 0]
    /\ faults = 0
-----------------------------------------------------------------------------
(* Saving a context: SaveTask, SaveFindings, SaveProgress in this order.    *)

Part(ctx, p) == IF p = "task" THEN ctx.task
                ELSE IF p = "findings" THEN ctx.findings ELSE ctx.progress
Missing(ctx) == {p \in Parts : Part(ctx, p) = Nil}

\* The files of a save of the parts S that can be complete when it stops.
WrittenFirst(S) == {{}, S \cap {"task"}, S \cap {"task", "findings"}, S}
\* The file being written when only those of W are complete.
NextFile(S, W) ==
    LET left == S \ W
    IN  IF "task" \in left THEN {"task"}
        ELSE IF "findings" \in left THEN {"findings"} ELSE left

SaveOK(S) == [written |-> S, torn |-> {}]

\* What a save that did not finish can leave behind.
PartialSaves(S) ==
    UNION {{[written |-> W, torn |-> T] : T \in {{}, NextFile(S, W)}} : W \in WrittenFirst(S)}

FileAfter(old, new, p, o) ==
    IF p \in o.torn THEN Corrupt ELSE IF p \in o.written THEN new ELSE old

FilesAfter(files, ctx, o) ==
    [task |-> FileAfter(files.task, ctx.task, "task", o),
     findings |-> FileAfter(files.findings, ctx.findings, "findings", o),
     progress |-> FileAfter(files.progress, ctx.progress, "progress", o)]

Fault == faults < MaxFaults /\ faults' = faults + 1

(* The process dies: both maps of the manager are gone. *)
Restart ==
    /\ cache' = [t \in Tasks |-> Nil]
    /\ viewCount' = [t \in Tasks |-> 0]
    /\ unsaved' = [t \in Tasks |-> {}]
-----------------------------------------------------------------------------
(* getOrLoadContext.  LoadContext fails on a file that does not parse and   *)
(* answers a missing file with a nil part, so a task that does not exist    *)
(* loads as an empty context and never as "task not found".                 *)

Loadable(t) == cache[t] # Nil \/ \A p \in Parts : Part(disk[t], p) # Corrupt
Handle(t) == IF cache[t] # Nil THEN cache[t] ELSE disk[t]

\* The parts a handler has changed.
Changed(t, edited) == {p \in Parts : Part(edited, p) # Part(Handle(t), p)}

\* The shape all mutators share.  `edited` is the context once the handler
\* has changed what it can; `touched` are the parts it dereferences, `saves`
\* the parts it writes.  A nil part it dereferences ends the handler with a
\* panic that the HTTP router recovers: the context stays cached, edited up
\* to that point and not saved.
Panics(t, touched, edited) ==
    /\ Fault
    /\ touched \cap Missing(edited) # {}
    /\ cache' = [cache EXCEPT ![t] = edited]
    /\ unsaved' = [unsaved EXCEPT ![t] = @ \cup Changed(t, edited)]
    /\ UNCHANGED <<disk, viewCount, acked>>

\* The answer is nil: the caller takes the change for saved, and `credit`
\* errors more for recorded.
Saved(t, edited, saves, credit) ==
    /\ cache' = [cache EXCEPT ![t] = edited]
    /\ disk' = [disk EXCEPT ![t] = FilesAfter(@, edited, SaveOK(saves))]
    /\ unsaved' = [unsaved EXCEPT ![t] = @ \ (saves \cup Changed(t, edited))]
    /\ acked' = [acked EXCEPT ![t] = @ + credit]
    /\ UNCHANGED <<viewCount, faults>>

SaveFails(t, edited, saves) ==
    /\ Fault
    /\ \E o \in PartialSaves(saves) :
        /\ o.written # saves
        /\ disk' = [disk EXCEPT ![t] = FilesAfter(@, edited, o)]
        /\ unsaved' = [unsaved EXCEPT ![t] =
                (@ \cup Changed(t, edited) \cup o.torn) \ o.written]
    /\ cache' = [cache EXCEPT ![t] = edited]
    /\ UNCHANGED <<viewCount, acked>>

DiesSaving(t, edited, saves) ==
    /\ Fault
    /\ \E o \in PartialSaves(saves) :
        disk' = [disk EXCEPT ![t] = FilesAfter(@, edited, o)]
    /\ Restart
    /\ UNCHANGED acked

Mutate(t, touched, edited, saves, credit) ==
    LET written == saves \ Missing(edited)
    IN  /\ life[t] # "unborn"
        /\ Loadable(t)
        /\ UNCHANGED life
        /\ \/ Panics(t, touched, edited)
           \/ /\ touched \cap Missing(edited) = {}
              /\ \/ Saved(t, edited, written, credit)
                 \/ SaveFails(t, edited, written)
                 \/ DiesSaving(t, edited, written)

\* Handlers that change one part, and those that change the task and then
\* append to the progress log.
EditTask(ctx, task) == IF ctx.task = Nil THEN ctx ELSE [ctx EXCEPT !.task = task]
EditFindings(ctx, findings) ==
    IF ctx.findings = Nil THEN ctx ELSE [ctx EXCEPT !.findings = findings]
EditProgress(ctx, progress) ==
    IF ctx.progress = Nil THEN ctx ELSE [ctx EXCEPT !.progress = progress]
EditTaskThenLog(ctx, task, progress) ==
    IF ctx.task = Nil THEN ctx ELSE EditProgress([ctx EXCEPT !.task = task], progress)

\* The lengths of all logs of a context; a handler that appends needs room.
LogLength(c) ==
    (IF c.task \in {Nil, Corrupt} THEN 0 ELSE c.task.errors + c.task.decisions)
    + (IF c.findings \in {Nil, Corrupt} THEN 0
       ELSE c.findings.findings + c.findings.resources)
    + (IF c.progress \in {Nil, Corrupt} THEN 0
       ELSE c.progress.entries + c.progress.errorLog + c.progress.testResults)
Room(t) == LogLength(Handle(t)) < MaxLog
-----------------------------------------------------------------------------
\* Variants with a seeded fault, one per property, stand before the
\* definitions they are variants of.
FaultyCreateTask(t) ==  \* writes task.json only
    /\ life[t] = "unborn"
    /\ disk' = [disk EXCEPT ![t].task = NewContext.task]
    /\ cache' = [cache EXCEPT ![t] = NewContext]
    /\ life' = [life EXCEPT ![t] = "created"]
    /\ UNCHANGED <<viewCount, unsaved, acked, faults>>

CreateTask(t) ==
    /\ life[t] = "unborn"
    /\ \/ /\ disk' = [disk EXCEPT ![t] = NewContext]
          /\ cache' = [cache EXCEPT ![t] = NewContext]
          /\ life' = [life EXCEPT ![t] = "created"]
          /\ UNCHANGED <<viewCount, unsaved, faults>>
       \/ /\ Fault
          /\ \E o \in PartialSaves(Parts) :
                /\ disk' = [disk EXCEPT ![t] = FilesAfter(@, NewContext, o)]
                /\ \/ o.written # Parts /\ UNCHANGED <<cache, viewCount, unsaved>>
                   \/ Restart
          /\ life' = [life EXCEPT ![t] = "orphan"]
    /\ UNCHANGED acked

UpdatePhaseStatus(t, p, s) ==
    LET c == Handle(t)
    IN  /\ Room(t)
        /\ Mutate(t, {"task", "progress"},
                  EditTaskThenLog(c, WithPhaseStatus(c.task, p, s), WithEntry(c.progress)),
                  Parts, 0)

CompleteStep(t, p, k) ==
    LET c == Handle(t)
    IN  /\ Room(t)
        /\ Mutate(t, {"task", "progress"},
                  EditTaskThenLog(c, WithStepCompleted(c.task, p, k), WithEntry(c.progress)),
                  Parts, 0)

FaultyRecordError(t) ==  \* SaveTask instead of SaveContext
    LET c == Handle(t)
    IN  /\ Room(t)
        /\ Mutate(t, {"task", "progress"},
                  EditTaskThenLog(c, WithError(c.task), WithLoggedError(c.progress)),
                  {"task"}, 1)

RecordError(t) ==
    LET c == Handle(t)
    IN  /\ Room(t)
        /\ Mutate(t, {"task", "progress"},
                  EditTaskThenLog(c, WithError(c.task), WithLoggedError(c.progress)),
                  Parts, 1)

AddDecision(t) ==
    LET c == Handle(t)
    IN  /\ Room(t)
        /\ Mutate(t, {"task"}, EditTask(c, WithDecision(c.task)), Parts, 0)

AddFinding(t) ==
    LET c == Handle(t)
    IN  /\ Room(t)
        /\ Mutate(t, {"findings"}, EditFindings(c, WithFinding(c.findings)), Parts, 0)

IncrementToolCallCount(t) ==
    LET c == Handle(t)
    IN  Mutate(t, {"task"}, EditTask(c, WithToolCall(c.task)), {"task"}, 0)

MarkNeedsReread(t) ==
    LET c == Handle(t)
    IN  Mutate(t, {"task"}, EditTask(c, WithReread(c.task, TRUE)), {"task"}, 0)

ClearNeedsReread(t) ==
    LET c == Handle(t)
    IN  Mutate(t, {"task"}, EditTask(c, WithReread(c.task, FALSE)), {"task"}, 0)

AddResource(t) ==
    LET c == Handle(t)
    IN  /\ Room(t)
        /\ Mutate(t, {"findings"}, EditFindings(c, WithResource(c.findings)),
                  {"findings"}, 0)

AddTestResult(t) ==
    LET c == Handle(t)
    IN  /\ Room(t)
        /\ Mutate(t, {"progress"}, EditProgress(c, WithTestResult(c.progress)),
                  {"progress"}, 0)

(* RecordViewAction counts in memory only, and does not ask whether the     *)
(* task exists.                                                             *)
FaultyRecordViewAction(t) ==  \* does not start over at two
    /\ life[t] # "unborn"
    /\ viewCount' = [viewCount EXCEPT ![t] = @ + 1]
    /\ UNCHANGED <<cache, disk, life, unsaved, acked, faults>>

RecordViewAction(t) ==
    /\ life[t] # "unborn"
    /\ viewCount' = [viewCount EXCEPT ![t] = IF @ + 1 >= 2 THEN 0 ELSE @ + 1]
    /\ UNCHANGED <<cache, disk, life, unsaved, acked, faults>>

(* DeleteTask forgets the task before it removes the directory; RemoveAll   *)
(* can fail, or the process die, with some of the files removed.            *)
Removed(files, gone) ==
    [task |-> IF "task" \in gone THEN Nil ELSE files.task,
     findings |-> IF "findings" \in gone THEN Nil ELSE files.findings,
     progress |-> IF "progress" \in gone THEN Nil ELSE files.progress]

FaultyDeleteTask(t) ==  \* leaves the task in activeTasks
    /\ life[t] # "unborn"
    /\ disk' = [disk EXCEPT ![t] = EmptyContext]
    /\ life' = [life EXCEPT ![t] = "deleted"]
    /\ UNCHANGED <<cache, viewCount, unsaved, acked, faults>>

DeleteTask(t) ==
    /\ life[t] # "unborn"
    /\ \/ /\ disk' = [disk EXCEPT ![t] = EmptyContext]
          /\ life' = [life EXCEPT ![t] = "deleted"]
          /\ cache' = [cache EXCEPT ![t] = Nil]
          /\ viewCount' = [viewCount EXCEPT ![t] = 0]
          /\ unsaved' = [unsaved EXCEPT ![t] = {}]
          /\ UNCHANGED faults
       \/ /\ Fault
          /\ \E gone \in SUBSET Parts : disk' = [disk EXCEPT ![t] = Removed(@, gone)]
          /\ life' = [life EXCEPT ![t] = IF @ = "deleted" THEN @ ELSE "deleting"]
          /\ \/ /\ cache' = [cache EXCEPT ![t] = Nil]
                /\ viewCount' = [viewCount EXCEPT ![t] = 0]
                /\ unsaved' = [unsaved EXCEPT ![t] = {}]
             \/ Restart
    /\ UNCHANGED acked

(* The process dies between two operations. *)
Crash == Fault /\ Restart /\ UNCHANGED <<disk, life, acked>>

PhaseIds == 1..(NPhases + 1)   \* one more than the plan has: an unknown id
StepIds == 1..(NSteps + 1)

Next ==
    \/ \E t \in Tasks :
        \/ CreateTask(t) \/ DeleteTask(t) \/ RecordViewAction(t)
        \/ \E p \in PhaseIds : \/ \E s \in PhaseStatus : UpdatePhaseStatus(t, p, s)
                               \/ \E k \in StepIds : CompleteStep(t, p, k)
        \/ RecordError(t) \/ AddDecision(t) \/ AddFinding(t)
        \/ IncrementToolCallCount(t) \/ MarkNeedsReread(t) \/ ClearNeedsReread(t)
        \/ AddResource(t) \/ AddTestResult(t)
    \/ Crash

Spec == Init /\ [][Next]_vars
-----------------------------------------------------------------------------
(* A part whose last change was reported saved is on disk as it is in       *)
(* memory, whatever other writes failed and whatever process died before:   *)
(* every mutator writes at least the parts it changes.                      *)
SavedPartsMatchMemory ==
    \A t \in Tasks : cache[t] # Nil =>
        \A p \in Parts \ unsaved[t] : Part(disk[t], p) = Part(cache[t], p)

(* "Log ALL errors": an error whose RecordError was answered without error  *)
(* stays in the task and in the progress log, in memory and on disk, until  *)
(* someone deletes the task or a write of the file itself is cut off.       *)
AckedErrorsKept ==
    \A t \in Tasks : life[t] = "created" =>
        /\ disk[t].task # Corrupt =>
            disk[t].task # Nil /\ disk[t].task.errors >= acked[t]
        /\ disk[t].progress # Corrupt =>
            disk[t].progress # Nil /\ disk[t].progress.errorLog >= acked[t]
        /\ cache[t] # Nil =>
            /\ cache[t].task # Nil /\ cache[t].task.errors >= acked[t]
            /\ cache[t].progress # Nil /\ cache[t].progress.errorLog >= acked[t]

(* A task whose creation was reported never lacks a part, so no handler     *)
(* panics on it: only tasks whose creation or deletion failed half way, and *)
(* ids that were never tasks, load as contexts with nil parts.              *)
CreatedTasksAreWhole ==
    \A t \in Tasks : life[t] = "created" =>
        /\ Missing(disk[t]) = {}
        /\ cache[t] # Nil => Missing(cache[t]) = {}

(* Once DeleteTask has answered without error, no later operation of the    *)
(* manager brings a file of the task back, although an operation on its id  *)
(* caches a context again.                                                  *)
DeletedStaysDeleted ==
    \A t \in Tasks : life[t] = "deleted" =>
        /\ disk[t] = EmptyContext
        /\ cache[t] \in {Nil, EmptyContext}

(* A task becomes completed only by a step that leaves every phase of it    *)
(* complete; in particular the step that completes one phase and so reopens *)
(* the next one does not complete the task.                                 *)
CompletedWithAllPhases ==
    [][\A t \in Tasks :
        (/\ cache[t] # Nil /\ cache[t].task # Nil
         /\ cache'[t] # Nil /\ cache'[t].task # Nil
         /\ cache[t].task.status # "completed" /\ cache'[t].task.status = "completed")
        => AllComplete(cache'[t].task.phases)]_vars
=============================================================================
