------------------------- MODULE TaskManagerProofs -------------------------
(***************************************************************************)
(* Proofs about TaskManager, for every plan, every set of tasks and every  *)
(* bound.  An operation is first described by what it hands to Mutate      *)
(* (SoundEdit); one lemma then shows that Mutate keeps the invariant under *)
(* any sound edit.                                                         *)
(***************************************************************************)
EXTENDS TaskManager, SequenceTheorems, TLAPS

(* What the handlers' edits do to the plan is again a plan. *)
LEMMA SequenceByElements ==
    ASSUME NEW S, NEW n \in Nat, NEW f, f = [i \in 1..n |-> f[i]],
           \A i \in 1..n : f[i] \in S
    PROVE  f \in Seq(S)
  <1>1. f \in [1..n -> S]
    OBVIOUS
  <1> QED BY <1>1, SeqDef

LEMMA StatusPhasesType ==
    ASSUME NEW phases \in Seq(Phase), NEW p \in Nat, NEW s \in PhaseStatus
    PROVE  /\ PhasesAfterStatus(phases, p, s) \in Seq(Phase)
           /\ DOMAIN PhasesAfterStatus(phases, p, s) = DOMAIN phases
  <1> DEFINE after == PhasesAfterStatus(phases, p, s)
  <1>1. DOMAIN phases = 1..Len(phases) /\ Len(phases) \in Nat
    OBVIOUS
  <1>2. ASSUME NEW i \in 1..Len(phases) PROVE after[i] \in Phase
    <2>1. phases[i] \in Phase
      OBVIOUS
    <2>2. after[i] = [phases[i] EXCEPT !.status =
                        IF Opened(phases, p, s, i) THEN "in_progress"
                        ELSE IF IsFirst(phases, p, i) THEN s ELSE @]
      BY <1>1 DEF PhasesAfterStatus
    <2> QED BY <2>1, <2>2 DEF Phase, PhaseStatus
  <1>3. after = [i \in 1..Len(phases) |-> after[i]]
    BY <1>1 DEF PhasesAfterStatus
  <1> HIDE DEF after
  <1>4. after \in Seq(Phase)
    BY <1>1, <1>2, <1>3, SequenceByElements
  <1>5. DOMAIN after = DOMAIN phases
    BY <1>1, <1>3
  <1> QED BY <1>4, <1>5 DEF after

LEMMA WithPhaseStatusType ==
    ASSUME NEW task \in Task, NEW p \in Nat, NEW s \in PhaseStatus
    PROVE  /\ WithPhaseStatus(task, p, s) \in Task
           /\ WithPhaseStatus(task, p, s).errors = task.errors
  <1> DEFINE phases == PhasesAfterStatus(task.phases, p, s)
             opened == {i \in DOMAIN phases : Opened(task.phases, p, s, i)}
             current == IF opened = {} THEN task.currentPhase
                        ELSE phases[CHOOSE i \in opened : TRUE].id
             status == IF AllComplete(phases) THEN "completed" ELSE task.status
  <1>1. phases \in Seq(Phase)
    BY StatusPhasesType DEF Task
  <1>2. current \in Nat
    <2>1. ASSUME opened # {} PROVE (CHOOSE i \in opened : TRUE) \in DOMAIN phases
      BY <2>1
    <2>2. ASSUME NEW i \in DOMAIN phases PROVE phases[i].id \in Nat
      <3> HIDE DEF phases
      <3>1. phases[i] \in Phase
        BY <1>1, <2>2
      <3> QED BY <3>1 DEF Phase
    <2>3. task.currentPhase \in Nat
      BY DEF Task
    <2> QED BY <2>1, <2>2, <2>3
  <1>3. status \in TaskStatus
    BY DEF Task, TaskStatus
  <1>4. WithPhaseStatus(task, p, s)
            = [task EXCEPT !.phases = phases, !.currentPhase = current, !.status = status]
    BY DEF WithPhaseStatus, Task
  <1> HIDE DEF phases, current, status
  <1> QED BY <1>1, <1>2, <1>3, <1>4 DEF Task

LEMMA WithToolCallType ==
    ASSUME NEW task \in Task
    PROVE  /\ WithToolCall(task) \in Task
           /\ WithToolCall(task).errors = task.errors
  <1>1. CASE task.toolCalls + 1 >= Threshold
    <2> DEFINE counted == [task EXCEPT !.toolCalls = 0]
    <2>1. counted \in Task /\ counted.errors = task.errors
      BY DEF Task
    <2>2. WithToolCall(task) = [counted EXCEPT !.needsReread = TRUE]
      BY <1>1 DEF WithToolCall
    <2> HIDE DEF counted
    <2>3. ASSUME NEW flag \in BOOLEAN
          PROVE  /\ [counted EXCEPT !.needsReread = flag] \in Task
                 /\ [counted EXCEPT !.needsReread = flag].errors = counted.errors
      BY <2>1 DEF Task
    <2> QED BY <2>1, <2>2, <2>3
  <1>2. CASE ~ (task.toolCalls + 1 >= Threshold)
    <2>1. WithToolCall(task) = [task EXCEPT !.toolCalls = task.toolCalls + 1]
      BY <1>2 DEF WithToolCall
    <2> QED BY <2>1 DEF Task
  <1> QED BY <1>1, <1>2

LEMMA WithStepCompletedType ==
    ASSUME NEW task \in Task, NEW p \in Nat, NEW k \in Nat
    PROVE  /\ WithStepCompleted(task, p, k) \in Task
           /\ WithStepCompleted(task, p, k).errors = task.errors
  <1> DEFINE phaseAfter(i) ==
        IF ~ IsFirst(task.phases, p, i) THEN task.phases[i]
        ELSE LET steps == StepsAfterCompletion(task.phases[i].steps, k)
             IN  [task.phases[i] EXCEPT
                    !.steps = steps,
                    !.status = IF AllStepsDone(steps) THEN "complete" ELSE @]
  <1>1. ASSUME NEW steps \in Seq(Step)
        PROVE  StepsAfterCompletion(steps, k) \in Seq(Step)
    <2> DEFINE after == StepsAfterCompletion(steps, k)
    <2>1. DOMAIN steps = 1..Len(steps) /\ Len(steps) \in Nat
      BY <1>1
    <2>2. after = [j \in 1..Len(steps) |-> after[j]]
      BY <2>1 DEF StepsAfterCompletion
    <2>3. ASSUME NEW j \in 1..Len(steps) PROVE after[j] \in Step
      <3>1. steps[j] \in Step
        BY <1>1
      <3>2. after[j] = [steps[j] EXCEPT !.completed = @ \/ IsFirst(steps, k, j)]
        BY <2>1 DEF StepsAfterCompletion
      <3> QED BY <3>1, <3>2, ZenonT(20) DEF Step
    <2> HIDE DEF after
    <2>4. after \in Seq(Step)
      BY <2>1, <2>2, <2>3, SequenceByElements
    <2> QED BY <2>4 DEF after
  <1>2. ASSUME NEW i \in DOMAIN task.phases PROVE phaseAfter(i) \in Phase
    <2>1. task.phases[i] \in Phase
      BY <1>2 DEF Task
    <2>2. StepsAfterCompletion(task.phases[i].steps, k) \in Seq(Step)
      BY <2>1, <1>1 DEF Phase
    <2> QED BY <2>1, <2>2 DEF Phase, PhaseStatus
  <1>3. [i \in DOMAIN task.phases |-> phaseAfter(i)] \in Seq(Phase)
    <2> HIDE DEF phaseAfter
    <2> QED BY <1>2 DEF Task
  <1>4. WithStepCompleted(task, p, k)
            = [task EXCEPT !.phases = [i \in DOMAIN task.phases |-> phaseAfter(i)]]
    BY DEF WithStepCompleted
  <1> HIDE DEF phaseAfter
  <1> QED BY <1>3, <1>4 DEF Task
-----------------------------------------------------------------------------

(* An identifier CreateTask has not drawn yet is in no map.                 *)
UnbornUntouched == \A t \in Tasks : life[t] = "unborn" => cache[t] = Nil /\ acked[t] = 0

(* What is inductive: the safety invariants of TaskManager together.        *)
IInv ==
    /\ TypeOK
    /\ SavedPartsMatchMemory
    /\ AckedErrorsKept
    /\ CreatedTasksAreWhole
    /\ DeletedStaysDeleted
    /\ UnbornUntouched

(* An edit of the context c is sound when it keeps the type and the missing *)
(* parts, loses no error, records `credit` errors when the handler did not  *)
(* panic, and changes only parts that are saved.                            *)
SoundEdit(c, edited, saves, credit) ==
    /\ edited \in Context
    /\ saves \subseteq Parts
    /\ credit \in Nat
    /\ Missing(edited) = Missing(c)
    /\ \A p \in Parts : Part(edited, p) # Part(c, p) => p \in saves
    /\ edited.task # Nil => edited.task.errors >= c.task.errors
    /\ edited.progress # Nil => edited.progress.errorLog >= c.progress.errorLog
    /\ Missing(edited) = {} =>
            /\ edited.task.errors >= c.task.errors + credit
            /\ edited.progress.errorLog >= c.progress.errorLog + credit
-----------------------------------------------------------------------------
(* The edits of the handlers are sound. *)
LEMMA EditTaskThenLogSound ==
    ASSUME NEW c \in Context, NEW task, NEW progress, NEW credit \in Nat,
           c.task # Nil => task \in Task /\ task.errors = c.task.errors + credit,
           c.progress # Nil => /\ progress \in Progress
                               /\ progress.errorLog = c.progress.errorLog + credit
    PROVE  SoundEdit(c, EditTaskThenLog(c, task, progress), Parts, credit)
  <1> DEFINE edited == EditTaskThenLog(c, task, progress)
  <1>0. Nil \notin Task /\ Nil \notin Progress
    BY DataAssumption
  <1>1. /\ edited \in Context
        /\ edited.findings = c.findings
        /\ edited.task = IF c.task = Nil THEN Nil ELSE task
        /\ edited.progress = IF c.task = Nil \/ c.progress = Nil THEN c.progress ELSE progress
    BY DEF EditTaskThenLog, EditProgress, Context
  <1>2. /\ c.task # Nil => c.task.errors \in Nat
        /\ c.progress # Nil => c.progress.errorLog \in Nat
    BY DEF Context, Task, Progress
  <1> HIDE DEF edited
  <1>3. Missing(edited) = Missing(c)
    BY <1>0, <1>1 DEF Missing, Part, Parts
  <1>4. /\ edited.task # Nil => edited.task.errors >= c.task.errors
        /\ edited.progress # Nil => edited.progress.errorLog >= c.progress.errorLog
    BY <1>1, <1>2
  <1>5. Missing(edited) = {} => /\ edited.task.errors >= c.task.errors + credit
                                /\ edited.progress.errorLog >= c.progress.errorLog + credit
    <2> SUFFICES ASSUME Missing(edited) = {}
                 PROVE  c.task # Nil /\ c.progress # Nil
      BY <1>1, <1>2
    <2> QED BY <1>3 DEF Missing, Part, Parts
  <1> QED BY <1>1, <1>3, <1>4, <1>5 DEF SoundEdit, edited

LEMMA EditTaskSound ==
    ASSUME NEW c \in Context, NEW task, NEW saves \in SUBSET Parts, "task" \in saves,
           c.task # Nil => task \in Task /\ task.errors = c.task.errors
    PROVE  SoundEdit(c, EditTask(c, task), saves, 0)
  <1> DEFINE edited == EditTask(c, task)
  <1>0. Nil \notin Task
    BY DataAssumption
  <1>1. /\ edited \in Context
        /\ edited.findings = c.findings
        /\ edited.progress = c.progress
        /\ edited.task = IF c.task = Nil THEN Nil ELSE task
    BY DEF EditTask, Context
  <1>2. /\ c.task # Nil => c.task.errors \in Nat
        /\ c.progress # Nil => c.progress.errorLog \in Nat
    BY DEF Context, Task, Progress
  <1> HIDE DEF edited
  <1>3. Missing(edited) = Missing(c)
    BY <1>0, <1>1 DEF Missing, Part, Parts
  <1>4. Missing(edited) = {} => c.task # Nil /\ c.progress # Nil
    BY <1>3 DEF Missing, Part, Parts
  <1>5. \A p \in Parts : Part(edited, p) # Part(c, p) => p \in saves
    BY <1>1 DEF Part, Parts
  <1>6. /\ edited.task # Nil => edited.task.errors >= c.task.errors
        /\ edited.progress # Nil => edited.progress.errorLog >= c.progress.errorLog
        /\ Missing(edited) = {} => /\ edited.task.errors >= c.task.errors + 0
                                   /\ edited.progress.errorLog >= c.progress.errorLog + 0
    BY <1>1, <1>2, <1>4
  <1> QED BY <1>1, <1>3, <1>5, <1>6 DEF SoundEdit, edited

LEMMA EditFindingsSound ==
    ASSUME NEW c \in Context, NEW findings, NEW saves \in SUBSET Parts,
           "findings" \in saves, c.findings # Nil => findings \in Findings
    PROVE  SoundEdit(c, EditFindings(c, findings), saves, 0)
  <1> DEFINE edited == EditFindings(c, findings)
  <1>0. Nil \notin Findings
    BY DataAssumption
  <1>1. /\ edited \in Context
        /\ edited.task = c.task
        /\ edited.progress = c.progress
        /\ edited.findings = IF c.findings = Nil THEN Nil ELSE findings
    BY DEF EditFindings, Context
  <1>2. /\ c.task # Nil => c.task.errors \in Nat
        /\ c.progress # Nil => c.progress.errorLog \in Nat
    BY DEF Context, Task, Progress
  <1> HIDE DEF edited
  <1>3. Missing(edited) = Missing(c)
    BY <1>0, <1>1 DEF Missing, Part, Parts
  <1>4. Missing(edited) = {} => c.task # Nil /\ c.progress # Nil
    BY <1>3 DEF Missing, Part, Parts
  <1>5. \A p \in Parts : Part(edited, p) # Part(c, p) => p \in saves
    BY <1>1 DEF Part, Parts
  <1>6. /\ edited.task # Nil => edited.task.errors >= c.task.errors
        /\ edited.progress # Nil => edited.progress.errorLog >= c.progress.errorLog
        /\ Missing(edited) = {} => /\ edited.task.errors >= c.task.errors + 0
                                   /\ edited.progress.errorLog >= c.progress.errorLog + 0
    BY <1>1, <1>2, <1>4
  <1> QED BY <1>1, <1>3, <1>5, <1>6 DEF SoundEdit, edited

LEMMA EditProgressSound ==
    ASSUME NEW c \in Context, NEW progress, NEW saves \in SUBSET Parts,
           "progress" \in saves,
           c.progress # Nil => /\ progress \in Progress
                               /\ progress.errorLog = c.progress.errorLog
    PROVE  SoundEdit(c, EditProgress(c, progress), saves, 0)
  <1> DEFINE edited == EditProgress(c, progress)
  <1>0. Nil \notin Progress
    BY DataAssumption
  <1>1. /\ edited \in Context
        /\ edited.task = c.task
        /\ edited.findings = c.findings
        /\ edited.progress = IF c.progress = Nil THEN Nil ELSE progress
    BY DEF EditProgress, Context
  <1>2. /\ c.task # Nil => c.task.errors \in Nat
        /\ c.progress # Nil => c.progress.errorLog \in Nat
    BY DEF Context, Task, Progress
  <1> HIDE DEF edited
  <1>3. Missing(edited) = Missing(c)
    BY <1>0, <1>1 DEF Missing, Part, Parts
  <1>4. Missing(edited) = {} => c.task # Nil /\ c.progress # Nil
    BY <1>3 DEF Missing, Part, Parts
  <1>5. \A p \in Parts : Part(edited, p) # Part(c, p) => p \in saves
    BY <1>1 DEF Part, Parts
  <1>6. /\ edited.task # Nil => edited.task.errors >= c.task.errors
        /\ edited.progress # Nil => edited.progress.errorLog >= c.progress.errorLog
        /\ Missing(edited) = {} => /\ edited.task.errors >= c.task.errors + 0
                                   /\ edited.progress.errorLog >= c.progress.errorLog + 0
    BY <1>1, <1>2, <1>4
  <1> QED BY <1>1, <1>3, <1>5, <1>6 DEF SoundEdit, edited
-----------------------------------------------------------------------------
(* A save that stops early has written some of its files and torn at most   *)
(* one of the others.                                                       *)
LEMMA PartialSavesShape ==
    ASSUME NEW S \in SUBSET Parts, NEW o \in PartialSaves(S)
    PROVE  o.written \subseteq S /\ o.torn \subseteq S \ o.written
  <1>1. PICK W \in WrittenFirst(S) :
            o \in {[written |-> W, torn |-> T] : T \in {{}, NextFile(S, W)}}
    BY DEF PartialSaves
  <1>2. PICK T \in {{}, NextFile(S, W)} : o = [written |-> W, torn |-> T]
    BY <1>1
  <1>3. W \subseteq S
    BY <1>1 DEF WrittenFirst
  <1>4. T \subseteq S \ W
    BY <1>2 DEF NextFile
  <1> QED BY <1>2, <1>3, <1>4

LEMMA HandleType ==
    ASSUME TypeOK, NEW t \in Tasks, Loadable(t)
    PROVE  Handle(t) \in Context
  <1>1. CASE cache[t] # Nil
    BY <1>1 DEF TypeOK, Handle
  <1>2. CASE cache[t] = Nil
    <2>1. disk[t] \in Files
      BY DEF TypeOK
    <2>2. disk[t].task # Corrupt /\ disk[t].findings # Corrupt /\ disk[t].progress # Corrupt
      BY <1>2 DEF Loadable, Part, Parts
    <2> QED BY <1>2, <2>1, <2>2 DEF Handle, Files, Context
  <1> QED BY <1>1, <1>2

LEMMA FilesAfterType ==
    ASSUME NEW files \in Files, NEW ctx \in Context, NEW o
    PROVE  FilesAfter(files, ctx, o) \in Files
  BY DEF Files, Context, FilesAfter, FileAfter

(* The process dies: nothing is cached, so only the files matter. *)
LEMMA RestartType ==
    ASSUME TypeOK, Restart
    PROVE  /\ cache' \in [Tasks -> Context \cup {Nil}]
           /\ viewCount' \in [Tasks -> 0..1]
           /\ unsaved' \in [Tasks -> SUBSET Parts]
           /\ \A t \in Tasks : cache'[t] = Nil
  BY DEF Restart

LEMMA FaultType ==
    ASSUME TypeOK, Fault
    PROVE  faults' \in 0..MaxFaults
  BY ManagerAssumption DEF TypeOK, Fault

LEMMA MutateType ==
    ASSUME TypeOK, NEW t \in Tasks, NEW touched, NEW edited, NEW saves, NEW credit,
           SoundEdit(Handle(t), edited, saves, credit),
           Mutate(t, touched, edited, saves, credit)
    PROVE  TypeOK'
  <1> DEFINE written == saves \ Missing(edited)
  <1>1. /\ edited \in Context /\ written \subseteq Parts /\ credit \in Nat
        /\ Changed(t, edited) \subseteq Parts
    BY DEF SoundEdit, Changed
  <1>2. life' = life
    BY DEF Mutate
  <1>3. CASE Panics(t, touched, edited)
    BY <1>1, <1>2, <1>3, FaultType DEF TypeOK, Panics
  <1>4. CASE Saved(t, edited, written, credit)
    BY <1>1, <1>2, <1>4, FilesAfterType DEF TypeOK, Saved
  <1>5. CASE SaveFails(t, edited, written)
    <2>1. PICK o \in PartialSaves(written) :
            /\ disk' = [disk EXCEPT ![t] = FilesAfter(@, edited, o)]
            /\ unsaved' = [unsaved EXCEPT ![t] =
                    (@ \cup Changed(t, edited) \cup o.torn) \ o.written]
      BY <1>5 DEF SaveFails
    <2>2. o.torn \subseteq Parts
      BY <1>1, PartialSavesShape
    <2> QED BY <1>1, <1>2, <1>5, <2>1, <2>2, FaultType, FilesAfterType DEF TypeOK, SaveFails
  <1>6. CASE DiesSaving(t, edited, written)
    <2>1. PICK o \in PartialSaves(written) : disk' = [disk EXCEPT ![t] = FilesAfter(@, edited, o)]
      BY <1>6 DEF DiesSaving
    <2> QED BY <1>1, <1>2, <1>6, <2>1, FaultType, FilesAfterType, RestartType
            DEF TypeOK, DiesSaving
  <1> QED BY <1>3, <1>4, <1>5, <1>6 DEF Mutate

LEMMA ChangedAreWritten ==
    ASSUME NEW t, NEW edited, NEW saves, NEW credit,
           SoundEdit(Handle(t), edited, saves, credit)
    PROVE  Changed(t, edited) \subseteq saves \ Missing(edited)
  <1>1. \A p \in Changed(t, edited) : p \in saves /\ p \in Parts
    BY DEF SoundEdit, Changed
  <1>2. \A p \in Missing(edited) : Part(edited, p) = Nil /\ Part(Handle(t), p) = Nil
    BY DEF SoundEdit, Missing
  <1> QED BY <1>1, <1>2 DEF Changed

LEMMA PartOfFilesAfter ==
    ASSUME NEW files, NEW ctx, NEW o, NEW p \in Parts
    PROVE  Part(FilesAfter(files, ctx, o), p) = FileAfter(Part(files, p), Part(ctx, p), p, o)
  BY DEF FilesAfter, Part, Parts

(* The four ways a call to Mutate ends, as equations on its own task. *)
LEMMA MutateCases ==
    ASSUME TypeOK, NEW t \in Tasks, NEW touched, NEW edited, NEW saves, NEW credit,
           SoundEdit(Handle(t), edited, saves, credit),
           Mutate(t, touched, edited, saves, credit)
    PROVE  LET written == saves \ Missing(edited) IN
           \/ /\ cache'[t] = edited /\ disk'[t] = disk[t] /\ acked'[t] = acked[t]
              /\ unsaved'[t] = unsaved[t] \cup Changed(t, edited)
           \/ /\ cache'[t] = edited /\ acked'[t] = acked[t] + credit
              /\ disk'[t] = FilesAfter(disk[t], edited, SaveOK(written))
              /\ unsaved'[t] = unsaved[t] \ (written \cup Changed(t, edited))
           \/ \E o \in PartialSaves(written) :
              /\ cache'[t] = edited /\ acked'[t] = acked[t]
              /\ disk'[t] = FilesAfter(disk[t], edited, o)
              /\ unsaved'[t] = (unsaved[t] \cup Changed(t, edited) \cup o.torn) \ o.written
           \/ \E o \in PartialSaves(written) :
              /\ cache'[t] = Nil /\ acked'[t] = acked[t]
              /\ disk'[t] = FilesAfter(disk[t], edited, o)
  <1> DEFINE written == saves \ Missing(edited)
  <1>1. CASE Panics(t, touched, edited)
    BY <1>1 DEF Panics, TypeOK
  <1>2. CASE Saved(t, edited, written, credit)
    BY <1>2 DEF Saved, TypeOK
  <1>3. CASE SaveFails(t, edited, written)
    BY <1>3 DEF SaveFails, TypeOK
  <1>4. CASE DiesSaving(t, edited, written)
    BY <1>4 DEF DiesSaving, Restart, TypeOK
  <1> QED BY <1>1, <1>2, <1>3, <1>4 DEF Mutate

(* ... and what it leaves alone. *)
LEMMA MutateOthers ==
    ASSUME TypeOK, NEW t \in Tasks, NEW touched, NEW edited, NEW saves, NEW credit,
           Mutate(t, touched, edited, saves, credit), NEW u \in Tasks, u # t
    PROVE  /\ disk'[u] = disk[u] /\ acked'[u] = acked[u]
           /\ \/ cache'[u] = Nil
              \/ cache'[u] = cache[u] /\ unsaved'[u] = unsaved[u]
  <1> DEFINE written == saves \ Missing(edited)
  <1>1. CASE Panics(t, touched, edited)
    BY <1>1 DEF Panics, TypeOK
  <1>2. CASE Saved(t, edited, written, credit)
    BY <1>2 DEF Saved, TypeOK
  <1>3. CASE SaveFails(t, edited, written)
    BY <1>3 DEF SaveFails, TypeOK
  <1>4. CASE DiesSaving(t, edited, written)
    BY <1>4 DEF DiesSaving, Restart, TypeOK
  <1> QED BY <1>1, <1>2, <1>3, <1>4 DEF Mutate
-----------------------------------------------------------------------------
LEMMA MutateSavedParts ==
    ASSUME TypeOK, SavedPartsMatchMemory,
           NEW t \in Tasks, NEW touched, NEW edited, NEW saves, NEW credit,
           SoundEdit(Handle(t), edited, saves, credit),
           Mutate(t, touched, edited, saves, credit)
    PROVE  SavedPartsMatchMemory'
  <1> DEFINE written == saves \ Missing(edited)
  <1>1. Changed(t, edited) \subseteq written /\ written \subseteq Parts
    BY ChangedAreWritten DEF SoundEdit
  <1>2. ASSUME NEW p \in Parts, p \notin unsaved[t], p \notin Changed(t, edited)
        PROVE  Part(disk[t], p) = Part(edited, p)
    <2>1. Part(edited, p) = Part(Handle(t), p)
      BY <1>2 DEF Changed
    <2>2. CASE cache[t] = Nil
      BY <2>1, <2>2 DEF Handle
    <2>3. CASE cache[t] # Nil
      BY <1>2, <2>1, <2>3 DEF Handle, SavedPartsMatchMemory
    <2> QED BY <2>2, <2>3
  <1>3. SUFFICES ASSUME NEW u \in Tasks, cache'[u] # Nil,
                        NEW p \in Parts \ unsaved'[u]
                 PROVE  Part(disk'[u], p) = Part(cache'[u], p)
    BY DEF SavedPartsMatchMemory, Part
  <1>4. CASE u # t
    BY <1>3, <1>4, MutateOthers DEF SavedPartsMatchMemory
  <1>5. CASE u = t
    <2>1. CASE /\ cache'[t] = edited /\ disk'[t] = disk[t]
               /\ unsaved'[t] = unsaved[t] \cup Changed(t, edited)
      BY <1>2, <1>3, <1>5, <2>1
    <2>2. CASE /\ cache'[t] = edited
               /\ disk'[t] = FilesAfter(disk[t], edited, SaveOK(written))
               /\ unsaved'[t] = unsaved[t] \ (written \cup Changed(t, edited))
      <3>1. Part(disk'[t], p) = FileAfter(Part(disk[t], p), Part(edited, p), p, SaveOK(written))
        BY <2>2, PartOfFilesAfter
      <3>2. CASE p \in written
        BY <1>5, <2>2, <3>1, <3>2 DEF FileAfter, SaveOK
      <3>3. CASE p \notin written
        <4>1. p \notin unsaved[t] /\ p \notin Changed(t, edited)
          BY <1>1, <1>3, <1>5, <2>2, <3>3
        <4> QED BY <1>2, <1>5, <2>2, <3>1, <3>3, <4>1 DEF FileAfter, SaveOK
      <3> QED BY <3>2, <3>3
    <2>3. ASSUME NEW o \in PartialSaves(written),
                 cache'[t] = edited, disk'[t] = FilesAfter(disk[t], edited, o),
                 unsaved'[t] = (unsaved[t] \cup Changed(t, edited) \cup o.torn) \ o.written
          PROVE  Part(disk'[t], p) = Part(cache'[t], p)
      <3>1. Part(disk'[t], p) = FileAfter(Part(disk[t], p), Part(edited, p), p, o)
        BY <2>3, PartOfFilesAfter
      <3>2. o.torn \subseteq written \ o.written
        BY <1>1, PartialSavesShape
      <3>3. CASE p \in o.written
        BY <2>3, <3>1, <3>2, <3>3 DEF FileAfter
      <3>4. CASE p \notin o.written
        <4>1. p \notin unsaved[t] /\ p \notin Changed(t, edited) /\ p \notin o.torn
          BY <1>3, <1>5, <2>3, <3>4
        <4> QED BY <1>2, <2>3, <3>1, <3>4, <4>1 DEF FileAfter
      <3> QED BY <3>3, <3>4
    <2> QED BY <1>3, <1>5, <2>1, <2>2, <2>3, MutateCases
  <1> QED BY <1>4, <1>5

LEMMA MutateKeepsErrors ==
    ASSUME TypeOK, AckedErrorsKept, CreatedTasksAreWhole,
           NEW t \in Tasks, NEW touched, NEW edited, NEW saves, NEW credit,
           SoundEdit(Handle(t), edited, saves, credit),
           Mutate(t, touched, edited, saves, credit)
    PROVE  AckedErrorsKept'
  <1> DEFINE written == saves \ Missing(edited)
             Kept(task, progress, n) == /\ task # Nil /\ task.errors >= n
                                        /\ progress # Nil /\ progress.errorLog >= n
             TaskKept(task, n) == task # Corrupt => task # Nil /\ task.errors >= n
             LogKept(progress, n) ==
                progress # Corrupt => progress # Nil /\ progress.errorLog >= n
  <1>1. life' = life
    BY DEF Mutate
  <1>2. SUFFICES ASSUME NEW u \in Tasks, life[u] = "created"
                 PROVE  /\ TaskKept(disk'[u].task, acked'[u])
                        /\ LogKept(disk'[u].progress, acked'[u])
                        /\ cache'[u] # Nil =>
                            Kept(cache'[u].task, cache'[u].progress, acked'[u])
    BY <1>1 DEF AckedErrorsKept
  <1>3. /\ TaskKept(disk[u].task, acked[u]) /\ LogKept(disk[u].progress, acked[u])
        /\ cache[u] # Nil => Kept(cache[u].task, cache[u].progress, acked[u])
    BY <1>2 DEF AckedErrorsKept
  <1>4. CASE u # t
    BY <1>3, <1>4, MutateOthers
  <1>5. CASE u = t
    <2>1. Loadable(t)
      BY DEF Mutate
    <2>2. Handle(t) \in Context /\ Kept(Handle(t).task, Handle(t).progress, acked[t])
      <3>1. CASE cache[t] # Nil
        BY <1>3, <1>5, <2>1, <3>1, HandleType DEF Handle
      <3>2. CASE cache[t] = Nil
        <4>1. disk[t].task # Corrupt /\ disk[t].progress # Corrupt
          BY <2>1, <3>2 DEF Loadable, Part, Parts
        <4> QED BY <1>3, <1>5, <2>1, <3>2, <4>1, HandleType DEF Handle
      <3> QED BY <3>1, <3>2
    <2>3. Missing(Handle(t)) = {}
      <3>1. CASE cache[t] # Nil
        BY <1>2, <1>5, <3>1 DEF CreatedTasksAreWhole, Handle
      <3>2. CASE cache[t] = Nil
        BY <1>2, <1>5, <3>2 DEF CreatedTasksAreWhole, Handle
      <3> QED BY <3>1, <3>2
    <2>4. /\ edited \in Context /\ Missing(edited) = {}
          /\ credit \in Nat /\ written = saves /\ saves \subseteq Parts
          /\ edited.task.errors >= Handle(t).task.errors + credit
          /\ edited.progress.errorLog >= Handle(t).progress.errorLog + credit
      BY <2>3 DEF SoundEdit
    <2>5. /\ edited.task \in Task /\ edited.progress \in Progress
          /\ Handle(t).task \in Task /\ Handle(t).progress \in Progress
      <3>1. edited.task # Nil /\ edited.progress # Nil
        BY <2>4 DEF Missing, Part, Parts
      <3> QED BY <2>2, <2>4, <3>1 DEF Context
    <2>6. acked[t] \in Nat
      BY DEF TypeOK
    <2>7. /\ edited.task.errors \in Nat /\ edited.progress.errorLog \in Nat
          /\ Handle(t).task.errors \in Nat /\ Handle(t).progress.errorLog \in Nat
      BY <2>5 DEF Task, Progress
    <2>8. /\ Kept(edited.task, edited.progress, acked[t])
          /\ Kept(edited.task, edited.progress, acked[t] + credit)
      BY <2>2, <2>4, <2>5, <2>6, <2>7, DataAssumption
    <2>9. ASSUME NEW o, disk'[t] = FilesAfter(disk[t], edited, o)
          PROVE  /\ disk'[t].task \in {disk[t].task, edited.task, Corrupt}
                 /\ disk'[t].progress \in {disk[t].progress, edited.progress, Corrupt}
      BY <2>9 DEF FilesAfter, FileAfter
    <2>10. CASE acked'[t] = acked[t] + credit
                /\ cache'[t] = edited
                /\ disk'[t] = FilesAfter(disk[t], edited, SaveOK(written))
      <3>1. CASE credit = 0
        BY <1>3, <1>5, <2>6, <2>8, <2>9, <2>10, <3>1
      <3>2. CASE credit > 0
        <4>1. edited.task # Handle(t).task /\ edited.progress # Handle(t).progress
          BY <2>4, <2>7, <3>2
        <4>2. "task" \in saves /\ "progress" \in saves
          BY <4>1 DEF SoundEdit, Part, Parts
        <4>3. disk'[t].task = edited.task /\ disk'[t].progress = edited.progress
          BY <2>4, <2>10, <4>2 DEF FilesAfter, FileAfter, SaveOK
        <4> QED BY <1>5, <2>8, <2>10, <4>3
      <3> QED BY <2>4, <3>1, <3>2
    <2>11. CASE /\ acked'[t] = acked[t] /\ cache'[t] \in {Nil, edited}
                /\ \/ disk'[t] = disk[t]
                   \/ \E o \in PartialSaves(written) : disk'[t] = FilesAfter(disk[t], edited, o)
      BY <1>3, <1>5, <2>8, <2>9, <2>11
    <2> QED BY <2>10, <2>11, MutateCases
  <1> QED BY <1>4, <1>5

LEMMA HandleOfCreated ==
    ASSUME CreatedTasksAreWhole, NEW t \in Tasks, life[t] = "created"
    PROVE  Missing(Handle(t)) = {}
  BY DEF CreatedTasksAreWhole, Handle

LEMMA MutateWhole ==
    ASSUME TypeOK, CreatedTasksAreWhole,
           NEW t \in Tasks, NEW touched, NEW edited, NEW saves, NEW credit,
           SoundEdit(Handle(t), edited, saves, credit),
           Mutate(t, touched, edited, saves, credit)
    PROVE  CreatedTasksAreWhole'
  <1>1. life' = life
    BY DEF Mutate
  <1>2. SUFFICES ASSUME NEW u \in Tasks, life[u] = "created"
                 PROVE  /\ Missing(disk'[u]) = {}
                        /\ cache'[u] # Nil => Missing(cache'[u]) = {}
    BY <1>1 DEF CreatedTasksAreWhole, Missing, Part
  <1>3. Missing(disk[u]) = {} /\ (cache[u] # Nil => Missing(cache[u]) = {})
    BY <1>2 DEF CreatedTasksAreWhole
  <1>4. CASE u # t
    BY <1>3, <1>4, MutateOthers
  <1>5. CASE u = t
    <2>1. Missing(edited) = {}
      BY <1>2, <1>5, HandleOfCreated DEF SoundEdit
    <2>2. ASSUME NEW o, disk'[t] = FilesAfter(disk[t], edited, o)
          PROVE  Missing(disk'[t]) = {}
      <3>1. \A p \in Parts : Part(disk[t], p) # Nil /\ Part(edited, p) # Nil
        BY <1>3, <1>5, <2>1 DEF Missing
      <3>2. \A p \in Parts : Part(disk'[t], p) # Nil
        BY <2>2, <3>1, PartOfFilesAfter, ManagerAssumption DEF FileAfter
      <3> QED BY <3>2 DEF Missing
    <2>3. cache'[t] \in {Nil, edited}
      BY MutateCases
    <2>4. disk'[t] = disk[t] \/ \E o : disk'[t] = FilesAfter(disk[t], edited, o)
      BY MutateCases
    <2> QED BY <1>3, <1>5, <2>1, <2>2, <2>3, <2>4
  <1> QED BY <1>4, <1>5

(* A context with no part left has nothing to edit and nothing to write.    *)
LEMMA AllMissing ==
    ASSUME NEW c \in Context, Missing(c) = Parts
    PROVE  c = EmptyContext
  BY DEF Missing, Part, Parts, Context, EmptyContext

LEMMA MutateDeleted ==
    ASSUME TypeOK, DeletedStaysDeleted,
           NEW t \in Tasks, NEW touched, NEW edited, NEW saves, NEW credit,
           SoundEdit(Handle(t), edited, saves, credit),
           Mutate(t, touched, edited, saves, credit)
    PROVE  DeletedStaysDeleted'
  <1> DEFINE written == saves \ Missing(edited)
  <1>1. life' = life
    BY DEF Mutate
  <1>2. SUFFICES ASSUME NEW u \in Tasks, life[u] = "deleted"
                 PROVE  disk'[u] = EmptyContext /\ cache'[u] \in {Nil, EmptyContext}
    BY <1>1 DEF DeletedStaysDeleted
  <1>3. disk[u] = EmptyContext /\ cache[u] \in {Nil, EmptyContext}
    BY <1>2 DEF DeletedStaysDeleted
  <1>4. CASE u # t
    BY <1>3, <1>4, MutateOthers
  <1>5. CASE u = t
    <2>1. Handle(t) = EmptyContext
      BY <1>3, <1>5 DEF Handle
    <2>2. Missing(edited) = Parts
      BY <2>1 DEF SoundEdit, Missing, Part, Parts, EmptyContext
    <2>3. edited = EmptyContext
      BY <2>2, AllMissing DEF SoundEdit
    <2>4. written = {}
      BY <2>2 DEF SoundEdit
    <2>5. ASSUME NEW o, o.written = {}, o.torn = {}
          PROVE  FilesAfter(disk[t], edited, o) = EmptyContext
      BY <1>3, <1>5, <2>5 DEF FilesAfter, FileAfter, EmptyContext
    <2>6. ASSUME NEW o \in PartialSaves(written)
          PROVE  FilesAfter(disk[t], edited, o) = EmptyContext
      BY <2>4, <2>5, PartialSavesShape
    <2>7. FilesAfter(disk[t], edited, SaveOK(written)) = EmptyContext
      BY <2>4, <2>5 DEF SaveOK
    <2>8. cache'[t] \in {Nil, edited}
      BY MutateCases
    <2>9. \/ disk'[t] = disk[t]
          \/ disk'[t] = FilesAfter(disk[t], edited, SaveOK(written))
          \/ \E o \in PartialSaves(written) : disk'[t] = FilesAfter(disk[t], edited, o)
      BY MutateCases
    <2> QED BY <1>3, <1>5, <2>3, <2>6, <2>7, <2>8, <2>9
  <1> QED BY <1>4, <1>5

LEMMA MutateInvariant ==
    ASSUME IInv, NEW t \in Tasks, NEW touched, NEW edited, NEW saves, NEW credit,
           Loadable(t) => SoundEdit(Handle(t), edited, saves, credit),
           Mutate(t, touched, edited, saves, credit)
    PROVE  IInv'
  <1>1. SoundEdit(Handle(t), edited, saves, credit)
    BY DEF Mutate
  <1>2. UnbornUntouched'
    <2>1. life' = life /\ life[t] # "unborn"
      BY DEF Mutate
    <2> QED BY <2>1, MutateOthers DEF IInv, UnbornUntouched
  <1> QED BY <1>1, <1>2, MutateType, MutateSavedParts, MutateKeepsErrors, MutateWhole,
             MutateDeleted DEF IInv
-----------------------------------------------------------------------------
(* Every handler that goes through Mutate hands it a sound edit.            *)
LEMMA HandlersInvariant ==
    ASSUME IInv, NEW t \in Tasks,
           \/ \E p \in PhaseIds : \/ \E s \in PhaseStatus : UpdatePhaseStatus(t, p, s)
                                  \/ \E k \in StepIds : CompleteStep(t, p, k)
           \/ RecordError(t) \/ AddDecision(t) \/ AddFinding(t)
           \/ IncrementToolCallCount(t) \/ MarkNeedsReread(t) \/ ClearNeedsReread(t)
           \/ AddResource(t) \/ AddTestResult(t)
    PROVE  IInv'
  <1> DEFINE c == Handle(t)
  <1>1. PhaseIds \subseteq Nat /\ StepIds \subseteq Nat
    BY DataAssumption DEF PhaseIds, StepIds
  <1>2. Loadable(t) => c \in Context
    BY HandleType DEF IInv
  <1>3. Loadable(t) => /\ c.task # Nil => c.task \in Task
                       /\ c.findings # Nil => c.findings \in Findings
                       /\ c.progress # Nil => c.progress \in Progress
    BY <1>2 DEF Context
  <1> HIDE DEF c
  <1>4. ASSUME NEW p \in PhaseIds, NEW s \in PhaseStatus, UpdatePhaseStatus(t, p, s)
        PROVE  IInv'
    <2> DEFINE task == WithPhaseStatus(c.task, p, s)
               progress == WithEntry(c.progress)
    <2>1. Loadable(t) /\ c.task # Nil => task \in Task /\ task.errors = c.task.errors + 0
      <3> SUFFICES ASSUME Loadable(t), c.task # Nil
                   PROVE  task \in Task /\ task.errors = c.task.errors + 0
        OBVIOUS
      <3>1. task \in Task /\ task.errors = c.task.errors
        BY <1>1, <1>3, WithPhaseStatusType
      <3> HIDE DEF task
      <3> QED BY <1>3, <3>1 DEF Task
    <2>2. Loadable(t) /\ c.progress # Nil =>
            progress \in Progress /\ progress.errorLog = c.progress.errorLog + 0
      BY <1>3 DEF WithEntry, Progress
    <2>3. Mutate(t, {"task", "progress"}, EditTaskThenLog(c, task, progress), Parts, 0)
      BY <1>4 DEF UpdatePhaseStatus, c
    <2> HIDE DEF task, progress
    <2>4. Loadable(t) => SoundEdit(c, EditTaskThenLog(c, task, progress), Parts, 0)
      BY <1>2, <2>1, <2>2, EditTaskThenLogSound
    <2> QED BY <2>3, <2>4, MutateInvariant DEF c
  <1>5. ASSUME NEW p \in PhaseIds, NEW k \in StepIds, CompleteStep(t, p, k)
        PROVE  IInv'
    <2> DEFINE task == WithStepCompleted(c.task, p, k)
               progress == WithEntry(c.progress)
    <2>1. Loadable(t) /\ c.task # Nil => task \in Task /\ task.errors = c.task.errors + 0
      <3> SUFFICES ASSUME Loadable(t), c.task # Nil
                   PROVE  task \in Task /\ task.errors = c.task.errors + 0
        OBVIOUS
      <3>1. task \in Task /\ task.errors = c.task.errors
        BY <1>1, <1>3, WithStepCompletedType
      <3> HIDE DEF task
      <3> QED BY <1>3, <3>1 DEF Task
    <2>2. Loadable(t) /\ c.progress # Nil =>
            progress \in Progress /\ progress.errorLog = c.progress.errorLog + 0
      BY <1>3 DEF WithEntry, Progress
    <2>3. Mutate(t, {"task", "progress"}, EditTaskThenLog(c, task, progress), Parts, 0)
      BY <1>5 DEF CompleteStep, c
    <2> HIDE DEF task, progress
    <2>4. Loadable(t) => SoundEdit(c, EditTaskThenLog(c, task, progress), Parts, 0)
      BY <1>2, <2>1, <2>2, EditTaskThenLogSound
    <2> QED BY <2>3, <2>4, MutateInvariant DEF c
  <1>6. ASSUME RecordError(t) PROVE IInv'
    <2> DEFINE task == WithError(c.task)
               progress == WithLoggedError(c.progress)
    <2>1. Loadable(t) /\ c.task # Nil => task \in Task /\ task.errors = c.task.errors + 1
      BY <1>3 DEF WithError, Task
    <2>2. Loadable(t) /\ c.progress # Nil =>
            progress \in Progress /\ progress.errorLog = c.progress.errorLog + 1
      BY <1>3 DEF WithLoggedError, Progress
    <2>3. Mutate(t, {"task", "progress"}, EditTaskThenLog(c, task, progress), Parts, 1)
      BY <1>6 DEF RecordError, c
    <2> HIDE DEF task, progress
    <2>4. Loadable(t) => SoundEdit(c, EditTaskThenLog(c, task, progress), Parts, 1)
      BY <1>2, <2>1, <2>2, EditTaskThenLogSound
    <2> QED BY <2>3, <2>4, MutateInvariant DEF c
  <1>7. ASSUME NEW task, NEW saves \in SUBSET Parts, "task" \in saves,
               Loadable(t) /\ c.task # Nil => task \in Task /\ task.errors = c.task.errors,
               Mutate(t, {"task"}, EditTask(c, task), saves, 0)
        PROVE  IInv'
    <2>1. Loadable(t) => SoundEdit(c, EditTask(c, task), saves, 0)
      BY <1>2, <1>7, EditTaskSound
    <2> QED BY <1>7, <2>1, MutateInvariant DEF c
  <1>8. ASSUME NEW findings, NEW saves \in SUBSET Parts, "findings" \in saves,
               Loadable(t) /\ c.findings # Nil => findings \in Findings,
               Mutate(t, {"findings"}, EditFindings(c, findings), saves, 0)
        PROVE  IInv'
    <2>1. Loadable(t) => SoundEdit(c, EditFindings(c, findings), saves, 0)
      BY <1>2, <1>8, EditFindingsSound
    <2> QED BY <1>8, <2>1, MutateInvariant DEF c
  <1>9. /\ Parts \in SUBSET Parts /\ "task" \in Parts /\ "findings" \in Parts
        /\ {"task"} \in SUBSET Parts /\ {"findings"} \in SUBSET Parts
        /\ {"progress"} \in SUBSET Parts
    BY DEF Parts
  <1>10. ASSUME AddDecision(t) PROVE IInv'
    <2>1. Loadable(t) /\ c.task # Nil =>
            WithDecision(c.task) \in Task /\ WithDecision(c.task).errors = c.task.errors
      BY <1>3 DEF WithDecision, Task
    <2> QED BY <1>7, <1>9, <1>10, <2>1 DEF AddDecision, c
  <1>11. ASSUME IncrementToolCallCount(t) PROVE IInv'
    <2>1. Loadable(t) /\ c.task # Nil =>
            WithToolCall(c.task) \in Task /\ WithToolCall(c.task).errors = c.task.errors
      BY <1>3, WithToolCallType
    <2> QED BY <1>7, <1>9, <1>11, <2>1 DEF IncrementToolCallCount, c
  <1>12. ASSUME NEW flag \in BOOLEAN,
                Mutate(t, {"task"}, EditTask(c, WithReread(c.task, flag)), {"task"}, 0)
         PROVE  IInv'
    <2>1. Loadable(t) /\ c.task # Nil =>
            WithReread(c.task, flag) \in Task /\ WithReread(c.task, flag).errors = c.task.errors
      BY <1>3 DEF WithReread, Task
    <2> QED BY <1>7, <1>9, <1>12, <2>1
  <1>13. ASSUME MarkNeedsReread(t) \/ ClearNeedsReread(t) PROVE IInv'
    BY <1>12, <1>13 DEF MarkNeedsReread, ClearNeedsReread, c
  <1>14. ASSUME AddFinding(t) PROVE IInv'
    <2>1. Loadable(t) /\ c.findings # Nil => WithFinding(c.findings) \in Findings
      BY <1>3 DEF WithFinding, Findings
    <2> QED BY <1>8, <1>9, <1>14, <2>1 DEF AddFinding, c
  <1>15. ASSUME AddResource(t) PROVE IInv'
    <2>1. Loadable(t) /\ c.findings # Nil => WithResource(c.findings) \in Findings
      BY <1>3 DEF WithResource, Findings
    <2> QED BY <1>8, <1>9, <1>15, <2>1 DEF AddResource, c
  <1>16. ASSUME AddTestResult(t) PROVE IInv'
    <2> DEFINE progress == WithTestResult(c.progress)
    <2>1. Loadable(t) /\ c.progress # Nil =>
            progress \in Progress /\ progress.errorLog = c.progress.errorLog
      BY <1>3 DEF WithTestResult, Progress
    <2>2. Mutate(t, {"progress"}, EditProgress(c, progress), {"progress"}, 0)
      BY <1>16 DEF AddTestResult, c
    <2> HIDE DEF progress
    <2>3. Loadable(t) => SoundEdit(c, EditProgress(c, progress), {"progress"}, 0)
      BY <1>2, <1>9, <2>1, EditProgressSound
    <2> QED BY <2>2, <2>3, MutateInvariant DEF c
  <1> QED BY <1>4, <1>5, <1>6, <1>10, <1>11, <1>13, <1>14, <1>15, <1>16
-----------------------------------------------------------------------------
(* The operations that do not go through Mutate.                            *)

LEMMA NewContextType ==
    /\ NewContext \in Context /\ NewContext \in Files
    /\ NewContext # Nil /\ Missing(NewContext) = {}
    /\ NewContext.task.errors = 0 /\ NewContext.progress.errorLog = 0
  <1> DEFINE steps == [j \in 1..NSteps |-> [id |-> j, completed |-> FALSE]]
             phase(i) == [id |-> i, status |-> "pending", steps |-> steps]
  <1>1. steps \in Seq(Step)
    <2>1. \A j \in 1..NSteps : steps[j] \in Step
      BY DataAssumption DEF Step
    <2>2. steps = [j \in 1..NSteps |-> steps[j]]
      OBVIOUS
    <2> HIDE DEF steps
    <2> QED BY <2>1, <2>2, SequenceByElements, DataAssumption
  <1>2. DefaultPhases \in Seq(Phase)
    <2> DEFINE phases == [i \in 1..NPhases |-> phase(i)]
    <2>0. phases = DefaultPhases
      BY DEF DefaultPhases
    <2>1. \A i \in 1..NPhases : phases[i] \in Phase
      <3> HIDE DEF steps
      <3> QED BY <1>1, DataAssumption DEF Phase, PhaseStatus
    <2>2. phases = [i \in 1..NPhases |-> phases[i]]
      OBVIOUS
    <2> HIDE DEF phases
    <2>3. phases \in Seq(Phase)
      BY <2>1, <2>2, SequenceByElements, DataAssumption
    <2> QED BY <2>0, <2>3
  <1>3. NewContext.task \in Task
    BY <1>2 DEF NewContext, Task, TaskStatus
  <1>4. NewContext.findings \in Findings /\ NewContext.progress \in Progress
    BY DEF NewContext, Findings, Progress
  <1>5. /\ NewContext = [task |-> NewContext.task, findings |-> NewContext.findings,
                         progress |-> NewContext.progress]
        /\ NewContext.task.errors = 0 /\ NewContext.progress.errorLog = 0
    BY DEF NewContext
  <1>6. NewContext \in Context /\ NewContext \in Files
    BY <1>3, <1>4, <1>5 DEF Context, Files
  <1>7. Missing(NewContext) = {}
    BY <1>3, <1>4, DataAssumption DEF Missing, Part, Parts
  <1> QED BY <1>5, <1>6, <1>7, ManagerAssumption

(* A step that removes files or forgets cached tasks keeps the invariant    *)
(* when the tasks still created afterwards have the files they had.         *)
LEMMA ForgettingInvariant ==
    ASSUME IInv, TypeOK', acked' = acked,
           \A u \in Tasks : \/ cache'[u] = Nil
                            \/ cache'[u] = cache[u] /\ disk'[u] = disk[u]
                               /\ unsaved'[u] = unsaved[u],
           \A u \in Tasks : life'[u] \in {"created", "unborn"} =>
                life'[u] = life[u] /\ disk'[u] = disk[u],
           \A u \in Tasks : life'[u] = "deleted" =>
                disk'[u] = EmptyContext /\ (life[u] = "deleted" \/ cache'[u] = Nil)
    PROVE  IInv'
  <1>1. SavedPartsMatchMemory'
    BY DEF IInv, SavedPartsMatchMemory, Part
  <1>2. AckedErrorsKept'
    BY DEF IInv, AckedErrorsKept
  <1>3. CreatedTasksAreWhole'
    BY DEF IInv, CreatedTasksAreWhole, Missing, Part
  <1>4. DeletedStaysDeleted'
    BY DEF IInv, DeletedStaysDeleted
  <1>5. UnbornUntouched'
    BY DEF IInv, UnbornUntouched
  <1> QED BY <1>1, <1>2, <1>3, <1>4, <1>5 DEF IInv

LEMMA CreateTaskInvariant ==
    ASSUME IInv, NEW t \in Tasks, CreateTask(t)
    PROVE  IInv'
  <1> USE DEF IInv
  <1>1. CASE /\ disk' = [disk EXCEPT ![t] = NewContext]
             /\ cache' = [cache EXCEPT ![t] = NewContext]
             /\ life' = [life EXCEPT ![t] = "created"]
             /\ UNCHANGED <<viewCount, unsaved, faults, acked>>
    <2>1. TypeOK'
      BY <1>1, NewContextType DEF TypeOK, Lives
    <2>2. \A u \in Tasks : u # t => /\ disk'[u] = disk[u] /\ cache'[u] = cache[u]
                                    /\ life'[u] = life[u]
      BY <1>1 DEF TypeOK
    <2>3. disk'[t] = NewContext /\ cache'[t] = NewContext /\ life'[t] = "created"
      BY <1>1 DEF TypeOK
    <2>4. SavedPartsMatchMemory'
      BY <1>1, <2>2, <2>3 DEF SavedPartsMatchMemory, Part
    <2>5. AckedErrorsKept'
      <3>1. acked'[t] = 0
        BY <1>1 DEF CreateTask, UnbornUntouched
      <3>2. NewContext.task # Nil /\ NewContext.progress # Nil
        BY NewContextType DEF Missing, Part, Parts
      <3> QED BY <1>1, <2>2, <2>3, <3>1, <3>2, NewContextType DEF AckedErrorsKept
    <2>6. CreatedTasksAreWhole'
      BY <2>2, <2>3, NewContextType DEF CreatedTasksAreWhole, Missing, Part
    <2>7. DeletedStaysDeleted' /\ UnbornUntouched'
      BY <1>1, <2>2, <2>3 DEF DeletedStaysDeleted, UnbornUntouched
    <2> QED BY <2>1, <2>4, <2>5, <2>6, <2>7
  <1>2. ASSUME NEW o \in PartialSaves(Parts), Fault,
               disk' = [disk EXCEPT ![t] = FilesAfter(@, NewContext, o)],
               UNCHANGED <<cache, viewCount, unsaved>> \/ Restart,
               life' = [life EXCEPT ![t] = "orphan"], acked' = acked
        PROVE  IInv'
    <2>1. /\ disk' \in [Tasks -> Files]
          /\ \A u \in Tasks : u # t => disk'[u] = disk[u]
      BY <1>2, NewContextType, FilesAfterType DEF TypeOK
    <2>2. /\ life' \in [Tasks -> Lives] /\ life'[t] = "orphan"
          /\ \A u \in Tasks : u # t => life'[u] = life[u]
      BY <1>2 DEF TypeOK, Lives
    <2>3. TypeOK'
      BY <1>2, <2>1, <2>2, RestartType, FaultType DEF TypeOK
    <2>4. \A u \in Tasks : \/ cache'[u] = Nil
                           \/ cache'[u] = cache[u] /\ disk'[u] = disk[u]
                              /\ unsaved'[u] = unsaved[u]
      BY <1>2, <2>1, RestartType DEF CreateTask, UnbornUntouched
    <2>5. \A u \in Tasks : life'[u] = "deleted" =>
                disk'[u] = EmptyContext /\ (life[u] = "deleted" \/ cache'[u] = Nil)
      BY <2>1, <2>2 DEF DeletedStaysDeleted
    <2> QED BY <1>2, <2>1, <2>2, <2>3, <2>4, <2>5, ForgettingInvariant
  <1> QED BY <1>1, <1>2 DEF CreateTask

LEMMA DeleteTaskInvariant ==
    ASSUME IInv, NEW t \in Tasks, DeleteTask(t)
    PROVE  IInv'
  <1> USE DEF IInv
  <1>1. PICK gone \in SUBSET Parts : disk' = [disk EXCEPT ![t] = Removed(@, gone)]
    <2>1. disk[t] \in Files
      BY DEF TypeOK
    <2>2. Removed(disk[t], Parts) = EmptyContext
      BY DEF Removed, Parts, EmptyContext
    <2> QED BY <2>2 DEF DeleteTask
  <1>2. \/ /\ cache' = [cache EXCEPT ![t] = Nil]
           /\ viewCount' = [viewCount EXCEPT ![t] = 0]
           /\ unsaved' = [unsaved EXCEPT ![t] = {}]
        \/ Restart
    BY DEF DeleteTask
  <1>3. /\ life' \in [Tasks -> Lives] /\ faults' \in 0..MaxFaults /\ acked' = acked
        /\ life'[t] \in {"deleting", "deleted"}
        /\ \A u \in Tasks : u # t => life'[u] = life[u]
    BY FaultType DEF DeleteTask, TypeOK, Lives
  <1>4. /\ disk' \in [Tasks -> Files]
        /\ \A u \in Tasks : u # t => disk'[u] = disk[u]
    <2>1. Removed(disk[t], gone) \in Files
      BY DEF TypeOK, Files, Removed
    <2> QED BY <1>1, <2>1 DEF TypeOK
  <1>5. TypeOK'
    BY <1>2, <1>3, <1>4, RestartType DEF TypeOK
  <1>6. \A u \in Tasks : \/ cache'[u] = Nil
                         \/ u # t /\ cache'[u] = cache[u] /\ unsaved'[u] = unsaved[u]
    BY <1>2, RestartType DEF TypeOK
  <1>7. life'[t] = "deleted" => disk'[t] = EmptyContext
    <2>1. CASE disk' = [disk EXCEPT ![t] = EmptyContext]
      BY <2>1 DEF TypeOK
    <2>2. CASE life' = [life EXCEPT ![t] = IF @ = "deleted" THEN @ ELSE "deleting"]
      <3>1. life'[t] = "deleted" => life[t] = "deleted"
        BY <2>2 DEF TypeOK
      <3>2. Removed(EmptyContext, gone) = EmptyContext
        BY DEF Removed, EmptyContext
      <3> QED BY <1>1, <3>1, <3>2 DEF TypeOK, DeletedStaysDeleted
    <2> QED BY <2>1, <2>2 DEF DeleteTask
  <1>8. \A u \in Tasks : life'[u] = "deleted" =>
            disk'[u] = EmptyContext /\ (life[u] = "deleted" \/ cache'[u] = Nil)
    BY <1>3, <1>4, <1>6, <1>7 DEF DeletedStaysDeleted
  <1> QED BY <1>3, <1>4, <1>5, <1>6, <1>8, ForgettingInvariant

LEMMA RecordViewActionInvariant ==
    ASSUME IInv, NEW t \in Tasks, RecordViewAction(t)
    PROVE  IInv'
  <1> USE DEF IInv
  <1>1. viewCount' \in [Tasks -> 0..1]
    <2>1. viewCount[t] \in 0..1
      BY DEF TypeOK
    <2> QED BY <2>1 DEF RecordViewAction, TypeOK
  <1>2. TypeOK'
    BY <1>1 DEF RecordViewAction, TypeOK
  <1> QED BY <1>2, ForgettingInvariant DEF RecordViewAction, DeletedStaysDeleted

LEMMA CrashInvariant ==
    ASSUME IInv, Crash
    PROVE  IInv'
  <1>1. TypeOK'
    BY RestartType, FaultType DEF Crash, IInv, TypeOK
  <1> QED BY <1>1, RestartType, ForgettingInvariant DEF Crash, IInv, DeletedStaysDeleted
-----------------------------------------------------------------------------
LEMMA InitInvariant == Init => IInv
  <1> SUFFICES ASSUME Init PROVE IInv
    OBVIOUS
  <1>1. EmptyContext \in Files
    BY DEF EmptyContext, Files
  <1>2. TypeOK
    BY <1>1, ManagerAssumption DEF Init, TypeOK, Lives
  <1> QED BY <1>2 DEF Init, IInv, SavedPartsMatchMemory, AckedErrorsKept,
                      CreatedTasksAreWhole, DeletedStaysDeleted, UnbornUntouched

LEMMA NextInvariant == IInv /\ [Next]_vars => IInv'
  <1> SUFFICES ASSUME IInv, [Next]_vars PROVE IInv'
    OBVIOUS
  <1>1. CASE Next
    BY <1>1, HandlersInvariant, CreateTaskInvariant, DeleteTaskInvariant,
       RecordViewActionInvariant, CrashInvariant DEF Next
  <1>2. CASE UNCHANGED vars
    BY <1>2 DEF vars, IInv, TypeOK, SavedPartsMatchMemory, AckedErrorsKept,
                CreatedTasksAreWhole, DeletedStaysDeleted, UnbornUntouched, Missing, Part
  <1> QED BY <1>1, <1>2

LEMMA Invariance == Spec => []IInv
  BY InitInvariant, NextInvariant, PTL DEF Spec

(* The variables of the manager, the files and the bookkeeping of answers   *)
(* keep their types through every operation, fault and restart; a cached    *)
(* context never holds a file that was cut off.                             *)
THEOREM TypeCorrect == Spec => []TypeOK
  <1>1. IInv => TypeOK
    BY DEF IInv
  <1> QED BY <1>1, Invariance, PTL

(* Every handler writes at least the parts it changes: what no failed write *)
(* or panic has left open is on disk as it is in memory.                    *)
THEOREM SavedPartsAgree == Spec => []SavedPartsMatchMemory
  <1>1. IInv => SavedPartsMatchMemory
    BY DEF IInv
  <1> QED BY <1>1, Invariance, PTL

(* No error whose RecordError succeeded is lost, in memory or in a whole    *)
(* file, by any later operation, failed write, panic or restart.            *)
THEOREM NoErrorLost == Spec => []AckedErrorsKept
  <1>1. IInv => AckedErrorsKept
    BY DEF IInv
  <1> QED BY <1>1, Invariance, PTL

(* A task whose creation succeeded has all three parts, in memory and on    *)
(* disk, until a deletion is asked for.                                     *)
THEOREM CreatedWhole == Spec => []CreatedTasksAreWhole
  <1>1. IInv => CreatedTasksAreWhole
    BY DEF IInv
  <1> QED BY <1>1, Invariance, PTL

(* No operation on the identifier of a deleted task creates a file again.   *)
THEOREM DeletionIsFinal == Spec => []DeletedStaysDeleted
  <1>1. IInv => DeletedStaysDeleted
    BY DEF IInv
  <1> QED BY <1>1, Invariance, PTL
-----------------------------------------------------------------------------
(* The step from the cached context c to d completes the task only with     *)
(* every phase of it.                                                       *)
EndsWhole(c, d) ==
    (/\ c # Nil /\ c.task # Nil /\ d # Nil /\ d.task # Nil
     /\ c.task.status # "completed" /\ d.task.status = "completed")
    => AllComplete(d.task.phases)

LEMMA MutateEndsWhole ==
    ASSUME TypeOK, NEW t \in Tasks, NEW touched, NEW edited, NEW saves, NEW credit,
           Loadable(t) => EndsWhole(Handle(t), edited),
           Mutate(t, touched, edited, saves, credit)
    PROVE  \A u \in Tasks : EndsWhole(cache[u], cache'[u])
  <1> DEFINE written == saves \ Missing(edited)
  <1>1. cache'[t] = edited \/ cache'[t] = Nil
    <2>1. CASE Panics(t, touched, edited)
      BY <2>1 DEF Panics, TypeOK
    <2>2. CASE Saved(t, edited, written, credit)
      BY <2>2 DEF Saved, TypeOK
    <2>3. CASE SaveFails(t, edited, written)
      BY <2>3 DEF SaveFails, TypeOK
    <2>4. CASE DiesSaving(t, edited, written)
      BY <2>4 DEF DiesSaving, Restart
    <2> QED BY <2>1, <2>2, <2>3, <2>4 DEF Mutate
  <1>2. EndsWhole(cache[t], cache'[t])
    BY <1>1 DEF EndsWhole, Handle, Loadable, Mutate
  <1>3. ASSUME NEW u \in Tasks, u # t
        PROVE  EndsWhole(cache[u], cache'[u])
    BY <1>3, MutateOthers DEF EndsWhole
  <1> QED BY <1>2, <1>3

(* Edits that leave the status alone. *)
LEMMA EditKeepsStatus ==
    ASSUME NEW c \in Context, NEW task, NEW part,
           c.task # Nil => task.status = c.task.status
    PROVE  /\ EndsWhole(c, EditTask(c, task))
           /\ EndsWhole(c, EditFindings(c, part))
           /\ EndsWhole(c, EditProgress(c, part))
           /\ EndsWhole(c, EditTaskThenLog(c, task, part))
  BY DEF EndsWhole, EditTask, EditFindings, EditProgress, EditTaskThenLog, Context

(* The only edit that sets it looks at the phases it leaves. *)
LEMMA WithPhaseStatusEndsWhole ==
    ASSUME NEW c \in Context, NEW p, NEW s, NEW progress
    PROVE  EndsWhole(c, EditTaskThenLog(c, WithPhaseStatus(c.task, p, s), progress))
  <1> DEFINE task == WithPhaseStatus(c.task, p, s)
  <1>1. c.task # Nil => c.task \in Task
    BY DEF Context
  <1>2. c.task # Nil /\ task.status = "completed" /\ c.task.status # "completed"
            => AllComplete(task.phases)
    BY <1>1 DEF WithPhaseStatus, Task
  <1> HIDE DEF task
  <1>3. c.task # Nil => EditTaskThenLog(c, task, progress).task = task
    BY DEF EditTaskThenLog, EditProgress, Context
  <1> QED BY <1>2, <1>3 DEF EndsWhole, task

LEMMA HandlersEndWhole ==
    ASSUME IInv, NEW t \in Tasks,
           \/ \E p \in PhaseIds : \/ \E s \in PhaseStatus : UpdatePhaseStatus(t, p, s)
                                  \/ \E k \in StepIds : CompleteStep(t, p, k)
           \/ RecordError(t) \/ AddDecision(t) \/ AddFinding(t)
           \/ IncrementToolCallCount(t) \/ MarkNeedsReread(t) \/ ClearNeedsReread(t)
           \/ AddResource(t) \/ AddTestResult(t)
    PROVE  \A u \in Tasks : EndsWhole(cache[u], cache'[u])
  <1> DEFINE c == Handle(t)
             Goal == \A u \in Tasks : EndsWhole(cache[u], cache'[u])
  <1>1. Loadable(t) => c \in Context
    BY HandleType DEF IInv
  <1>2. Loadable(t) /\ c.task # Nil => c.task \in Task
    BY <1>1 DEF Context
  <1>3. TypeOK
    BY DEF IInv
  <1>4. ASSUME NEW p \in PhaseIds, NEW s \in PhaseStatus, UpdatePhaseStatus(t, p, s)
        PROVE  Goal
    BY <1>1, <1>3, <1>4, WithPhaseStatusEndsWhole, MutateEndsWhole DEF UpdatePhaseStatus
  <1>5. ASSUME NEW task, NEW part, NEW touched, NEW edited, NEW saves, NEW credit,
               Loadable(t) /\ c.task # Nil => task.status = c.task.status,
               \/ edited = EditTask(c, task) \/ edited = EditFindings(c, part)
               \/ edited = EditProgress(c, part) \/ edited = EditTaskThenLog(c, task, part),
               Mutate(t, touched, edited, saves, credit)
        PROVE  Goal
    BY <1>1, <1>3, <1>5, EditKeepsStatus, MutateEndsWhole
  <1>6. ASSUME NEW p \in PhaseIds, NEW k \in StepIds, CompleteStep(t, p, k)
        PROVE  Goal
    <2>1. Loadable(t) /\ c.task # Nil
            => WithStepCompleted(c.task, p, k).status = c.task.status
      BY <1>2 DEF WithStepCompleted, Task
    <2> QED BY <1>5, <1>6, <2>1 DEF CompleteStep
  <1>7. CASE RecordError(t)
    <2>1. Loadable(t) /\ c.task # Nil => WithError(c.task).status = c.task.status
      BY <1>2 DEF WithError, Task
    <2> QED BY <1>5, <1>7, <2>1 DEF RecordError
  <1>8. CASE AddDecision(t)
    <2>1. Loadable(t) /\ c.task # Nil => WithDecision(c.task).status = c.task.status
      BY <1>2 DEF WithDecision, Task
    <2> QED BY <1>5, <1>8, <2>1 DEF AddDecision
  <1>9. CASE IncrementToolCallCount(t)
    <2>1. Loadable(t) /\ c.task # Nil => WithToolCall(c.task).status = c.task.status
      BY <1>2 DEF WithToolCall, Task
    <2> QED BY <1>5, <1>9, <2>1 DEF IncrementToolCallCount
  <1>10. CASE MarkNeedsReread(t) \/ ClearNeedsReread(t)
    <2>1. \A flag : Loadable(t) /\ c.task # Nil
                        => WithReread(c.task, flag).status = c.task.status
      BY <1>2 DEF WithReread, Task
    <2> QED BY <1>5, <1>10, <2>1 DEF MarkNeedsReread, ClearNeedsReread
  <1>11. CASE AddFinding(t) \/ AddResource(t)
    BY <1>5, <1>11 DEF AddFinding, AddResource
  <1>12. CASE AddTestResult(t)
    BY <1>5, <1>12 DEF AddTestResult
  <1> QED BY <1>4, <1>6, <1>7, <1>8, <1>9, <1>10, <1>11, <1>12

LEMMA NextEndsWhole ==
    ASSUME IInv, [Next]_vars
    PROVE  \A u \in Tasks : EndsWhole(cache[u], cache'[u])
  <1>1. ASSUME NEW t \in Tasks, CreateTask(t)
        PROVE  \A u \in Tasks : EndsWhole(cache[u], cache'[u])
    <2>1. cache[t] = Nil
      BY <1>1 DEF CreateTask, IInv, UnbornUntouched
    <2>2. \A u \in Tasks \ {t} : cache'[u] = cache[u] \/ cache'[u] = Nil
      BY <1>1 DEF CreateTask, Restart, IInv, TypeOK
    <2> QED BY <2>1, <2>2 DEF EndsWhole
  <1>2. ASSUME NEW t \in Tasks, DeleteTask(t)
        PROVE  \A u \in Tasks : EndsWhole(cache[u], cache'[u])
    <2>1. \A u \in Tasks : cache'[u] = cache[u] \/ cache'[u] = Nil
      BY <1>2 DEF DeleteTask, Restart, IInv, TypeOK
    <2> QED BY <2>1 DEF EndsWhole
  <1>3. ASSUME NEW t \in Tasks, RecordViewAction(t)
        PROVE  \A u \in Tasks : EndsWhole(cache[u], cache'[u])
    BY <1>3 DEF RecordViewAction, EndsWhole
  <1>4. ASSUME Crash
        PROVE  \A u \in Tasks : EndsWhole(cache[u], cache'[u])
    BY <1>4 DEF Crash, Restart, EndsWhole
  <1>5. ASSUME UNCHANGED vars
        PROVE  \A u \in Tasks : EndsWhole(cache[u], cache'[u])
    BY <1>5 DEF vars, EndsWhole
  <1> QED BY <1>1, <1>2, <1>3, <1>4, <1>5, HandlersEndWhole DEF Next

(* The status of a cached task becomes completed only by a step that leaves *)
(* all of its phases complete.                                              *)
THEOREM CompletionIsWhole == Spec => CompletedWithAllPhases
  <1>1. IInv /\ [Next]_vars => \A u \in Tasks : EndsWhole(cache[u], cache'[u])
    BY NextEndsWhole
  <1>2. (\A u \in Tasks : EndsWhole(cache[u], cache'[u])) =>
        \A t \in Tasks :
            (/\ cache[t] # Nil /\ cache[t].task # Nil
             /\ cache'[t] # Nil /\ cache'[t].task # Nil
             /\ cache[t].task.status # "completed" /\ cache'[t].task.status = "completed")
            => AllComplete(cache'[t].task.phases)
    BY DEF EndsWhole
  <1> QED BY <1>1, <1>2, Invariance, PTL DEF Spec, CompletedWithAllPhases
=============================================================================
