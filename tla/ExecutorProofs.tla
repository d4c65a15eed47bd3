---------------------------- MODULE ExecutorProofs ----------------------------
(***************************************************************************)
(* Proofs about Executor, for any runs, plans and bounds: a phase marked     *)
(* complete has no step left that its id reaches, and a saved step stays     *)
(* completed.  A run may work from a dead copy of the plan; the argument is  *)
(* that the plan only grows, so that what the copy shows as completed is     *)
(* completed.  Only a failed deletion, or a death, sets it back.             *)
(***************************************************************************)
EXTENDS Executor, SequenceTheorems, TLAPS

(* What the handlers' edits do to the plan is again a plan. *)
LEMMA SequenceByElements ==
    ASSUME NEW S, NEW n \in Nat, NEW f, f = [i \in 1..n |-> f[i]],
           \A i \in 1..n : f[i] \in S
    PROVE  f \in Seq(S)
  <1>1. f \in [1..n -> S]
    OBVIOUS
  <1> QED BY <1>1, SeqDef

LEMMA StatusPhasesType ==
    ASSUME NEW phases \in Seq(Phase), NEW p \in Nat, NEW s \in PhaseStatus
    PROVE  /\ PhasesAfterStatus(phases, p, s) \in Seq(Phase)
           /\ DOMAIN PhasesAfterStatus(phases, p, s) = DOMAIN phases
  <1> DEFINE after == PhasesAfterStatus(phases, p, s)
  <1>1. DOMAIN phases = 1..Len(phases) /\ Len(phases) \in Nat
    OBVIOUS
  <1>2. ASSUME NEW i \in 1..Len(phases) PROVE after[i] \in Phase
    <2>1. phases[i] \in Phase
      OBVIOUS
    <2>2. after[i] = [phases[i] EXCEPT !.status =
                        IF Opened(phases, p, s, i) THEN "in_progress"
                        ELSE IF IsFirst(phases, p, i) THEN s ELSE @]
      BY <1>1 DEF PhasesAfterStatus
    <2> QED BY <2>1, <2>2 DEF Phase, PhaseStatus
  <1>3. after = [i \in 1..Len(phases) |-> after[i]]
    BY <1>1 DEF PhasesAfterStatus
  <1> HIDE DEF after
  <1>4. after \in Seq(Phase)
    BY <1>1, <1>2, <1>3, SequenceByElements
  <1>5. DOMAIN after = DOMAIN phases
    BY <1>1, <1>3
  <1> QED BY <1>4, <1>5 DEF after

LEMMA WithPhaseStatusType ==
    ASSUME NEW task \in Task, NEW p \in Nat, NEW s \in PhaseStatus
    PROVE  /\ WithPhaseStatus(task, p, s) \in Task
           /\ WithPhaseStatus(task, p, s).errors = task.errors
  <1> DEFINE phases == PhasesAfterStatus(task.phases, p, s)
             opened == {i \in DOMAIN phases : Opened(task.phases, p, s, i)}
             current == IF opened = {} THEN task.currentPhase
                        ELSE phases[CHOOSE i \in opened : TRUE].id
             status == IF AllComplete(phases) THEN "completed" ELSE task.status
  <1>1. phases \in Seq(Phase)
    BY StatusPhasesType DEF Task
  <1>2. current \in Nat
    <2>1. ASSUME opened # {} PROVE (CHOOSE i \in opened : TRUE) \in DOMAIN phases
      BY <2>1
    <2>2. ASSUME NEW i \in DOMAIN phases PROVE phases[i].id \in Nat
      <3> HIDE DEF phases
      <3>1. phases[i] \in Phase
        BY <1>1, <2>2
      <3> QED BY <3>1 DEF Phase
    <2>3. task.currentPhase \in Nat
      BY DEF Task
    <2> QED BY <2>1, <2>2, <2>3
  <1>3. status \in TaskStatus
    BY DEF Task, TaskStatus
  <1>4. WithPhaseStatus(task, p, s)
            = [task EXCEPT !.phases = phases, !.currentPhase = current, !.status = status]
    BY DEF WithPhaseStatus, Task
  <1> HIDE DEF phases, current, status
  <1> QED BY <1>1, <1>2, <1>3, <1>4 DEF Task

LEMMA WithStepCompletedType ==
    ASSUME NEW task \in Task, NEW p \in Nat, NEW k
    PROVE  /\ WithStepCompleted(task, p, k) \in Task
           /\ WithStepCompleted(task, p, k).errors = task.errors
  <1> DEFINE phaseAfter(i) ==
        IF ~ IsFirst(task.phases, p, i) THEN task.phases[i]
        ELSE LET steps == StepsAfterCompletion(task.phases[i].steps, k)
             IN  [task.phases[i] EXCEPT
                    !.steps = steps,
                    !.status = IF AllStepsDone(steps) THEN "complete" ELSE @]
  <1>1. ASSUME NEW steps \in Seq(Step)
        PROVE  StepsAfterCompletion(steps, k) \in Seq(Step)
    <2> DEFINE after == StepsAfterCompletion(steps, k)
    <2>1. DOMAIN steps = 1..Len(steps) /\ Len(steps) \in Nat
      BY <1>1
    <2>2. after = [j \in 1..Len(steps) |-> after[j]]
      BY <2>1 DEF StepsAfterCompletion
    <2>3. ASSUME NEW j \in 1..Len(steps) PROVE after[j] \in Step
      <3>1. steps[j] \in Step
        BY <1>1
      <3>2. after[j] = [steps[j] EXCEPT !.completed = @ \/ IsFirst(steps, k, j)]
        BY <2>1 DEF StepsAfterCompletion
      <3> QED BY <3>1, <3>2, ZenonT(20) DEF Step
    <2> HIDE DEF after
    <2>4. after \in Seq(Step)
      BY <2>1, <2>2, <2>3, SequenceByElements
    <2> QED BY <2>4 DEF after
  <1>2. ASSUME NEW i \in DOMAIN task.phases PROVE phaseAfter(i) \in Phase
    <2>1. task.phases[i] \in Phase
      BY <1>2 DEF Task
    <2>2. StepsAfterCompletion(task.phases[i].steps, k) \in Seq(Step)
      BY <2>1, <1>1 DEF Phase
    <2> QED BY <2>1, <2>2 DEF Phase, PhaseStatus
  <1>3. [i \in DOMAIN task.phases |-> phaseAfter(i)] \in Seq(Phase)
    <2> HIDE DEF phaseAfter
    <2> QED BY <1>2 DEF Task
  <1>4. WithStepCompleted(task, p, k)
            = [task EXCEPT !.phases = [i \in DOMAIN task.phases |-> phaseAfter(i)]]
    BY DEF WithStepCompleted
  <1> HIDE DEF phaseAfter
  <1> QED BY <1>3, <1>4 DEF Task

LEMMA WithDecisionType ==
    ASSUME NEW task \in Task
    PROVE  WithDecision(task) \in Task /\ WithDecision(task).phases = task.phases
  BY DEF WithDecision, Task

LEMMA FreshStepsType ==
    ASSUME DataAssumption
    PROVE  [j \in 1..NSteps |-> [id |-> j, completed |-> FALSE]] \in Seq(Step)
  <1> DEFINE steps == [j \in 1..NSteps |-> [id |-> j, completed |-> FALSE]]
  <1>1. \A j \in 1..NSteps : steps[j] \in Step
    BY DataAssumption DEF Step
  <1>2. steps = [j \in 1..NSteps |-> steps[j]]
    OBVIOUS
  <1> HIDE DEF steps
  <1> QED BY <1>1, <1>2, SequenceByElements, DataAssumption DEF steps
-----------------------------------------------------------------------------
(* The plan b has the phases and steps of a, and every step that is completed *)
(* in a.                                                                    *)
Covers(a, b) ==
    /\ DOMAIN b.phases = DOMAIN a.phases
    /\ \A i \in DOMAIN a.phases :
          /\ b.phases[i].id = a.phases[i].id
          /\ DOMAIN b.phases[i].steps = DOMAIN a.phases[i].steps
          /\ \A j \in DOMAIN a.phases[i].steps :
                /\ b.phases[i].steps[j].id = a.phases[i].steps[j].id
                /\ a.phases[i].steps[j].completed => b.phases[i].steps[j].completed

LEMMA CoversItself == ASSUME NEW a PROVE Covers(a, a)
  BY DEF Covers

LEMMA CoversOn ==
    ASSUME NEW a, NEW b, NEW c, Covers(a, b), Covers(b, c)
    PROVE  Covers(a, c)
  BY DEF Covers

LEMMA SamePhasesCover ==
    ASSUME NEW a, NEW b, b.phases = a.phases
    PROVE  Covers(a, b)
  BY DEF Covers

LEMMA PhaseOf ==
    ASSUME NEW task \in Task, NEW i \in DOMAIN task.phases
    PROVE  /\ task.phases[i] \in Phase /\ task.phases[i].id \in Nat
           /\ task.phases[i].steps \in Seq(Step)
           /\ \A j \in DOMAIN task.phases[i].steps : task.phases[i].steps[j] \in Step
  <1>1. task.phases[i] \in Phase
    BY DEF Task
  <1> QED BY <1>1 DEF Phase

LEMMA StatusCovers ==
    ASSUME NEW task \in Task, NEW p \in Nat, NEW s \in PhaseStatus
    PROVE  Covers(task, WithPhaseStatus(task, p, s))
  <1> DEFINE after == WithPhaseStatus(task, p, s)
  <1>1. after.phases = PhasesAfterStatus(task.phases, p, s)
    BY DEF WithPhaseStatus, Task
  <1>2. DOMAIN after.phases = DOMAIN task.phases
    BY <1>1 DEF PhasesAfterStatus
  <1>3. ASSUME NEW i \in DOMAIN task.phases
        PROVE  /\ after.phases[i].id = task.phases[i].id
               /\ after.phases[i].steps = task.phases[i].steps
    <2> DEFINE x == IF Opened(task.phases, p, s, i) THEN "in_progress"
                    ELSE IF IsFirst(task.phases, p, i) THEN s ELSE task.phases[i].status
    <2>1. after.phases[i] = [task.phases[i] EXCEPT !.status = x]
      BY <1>1 DEF PhasesAfterStatus
    <2> HIDE DEF after, x
    <2> QED BY <2>1, PhaseOf DEF Phase
  <1> HIDE DEF after
  <1>4. Covers(task, after)
    BY <1>2, <1>3 DEF Covers
  <1> QED BY <1>4 DEF after

LEMMA CompletionCovers ==
    ASSUME NEW task \in Task, NEW p \in Nat, NEW k
    PROVE  /\ Covers(task, WithStepCompleted(task, p, k))
           /\ \A i \in DOMAIN task.phases : \A j \in DOMAIN task.phases[i].steps :
                 IsFirst(task.phases, p, i) /\ IsFirst(task.phases[i].steps, k, j) =>
                    WithStepCompleted(task, p, k).phases[i].steps[j].completed
  <1> DEFINE after == WithStepCompleted(task, p, k)
             new(i) == StepsAfterCompletion(task.phases[i].steps, k)
             x(i) == IF AllStepsDone(new(i)) THEN "complete" ELSE task.phases[i].status
  <1>1. DOMAIN after.phases = DOMAIN task.phases
    BY DEF WithStepCompleted, Task
  <1>2. ASSUME NEW i \in DOMAIN task.phases
        PROVE  after.phases[i] =
                  IF IsFirst(task.phases, p, i)
                  THEN [task.phases[i] EXCEPT !.steps = new(i), !.status = x(i)]
                  ELSE task.phases[i]
    BY DEF WithStepCompleted, Task
  <1>3. ASSUME NEW i \in DOMAIN task.phases, NEW j \in DOMAIN task.phases[i].steps
        PROVE  /\ DOMAIN new(i) = DOMAIN task.phases[i].steps
               /\ new(i)[j].id = task.phases[i].steps[j].id
               /\ task.phases[i].steps[j].completed => new(i)[j].completed
               /\ IsFirst(task.phases[i].steps, k, j) => new(i)[j].completed
    <2> DEFINE old == task.phases[i].steps[j]
               done == old.completed \/ IsFirst(task.phases[i].steps, k, j)
    <2>1. new(i)[j] = [old EXCEPT !.completed = done]
      BY DEF StepsAfterCompletion
    <2>2. old \in Step
      BY <1>3, PhaseOf
    <2>3. new(i)[j].id = old.id /\ (new(i)[j].completed = done)
      <3> HIDE DEF done, new, old
      <3> QED BY <2>1, <2>2 DEF Step
    <2>4. DOMAIN new(i) = DOMAIN task.phases[i].steps
      BY DEF StepsAfterCompletion
    <2> QED BY <2>3, <2>4, Zenon
  <1>4. ASSUME NEW i \in DOMAIN task.phases
        PROVE  /\ after.phases[i].id = task.phases[i].id
               /\ \/ after.phases[i].steps = task.phases[i].steps
                     /\ ~IsFirst(task.phases, p, i)
                  \/ after.phases[i].steps = new(i)
    <2> HIDE DEF after, new, x
    <2>1. task.phases[i] \in Phase
      BY <1>4, PhaseOf
    <2>2. CASE IsFirst(task.phases, p, i)
      BY <1>2, <2>1, <2>2 DEF Phase
    <2>3. CASE ~IsFirst(task.phases, p, i)
      BY <1>2, <2>3
    <2> QED BY <2>2, <2>3
  <1> HIDE DEF after, new, x
  <1>5. ASSUME NEW i \in DOMAIN task.phases
        PROVE  DOMAIN after.phases[i].steps = DOMAIN task.phases[i].steps
    <2>1. DOMAIN new(i) = DOMAIN task.phases[i].steps
      BY DEF new, StepsAfterCompletion
    <2> QED BY <1>4, <2>1
  <1>6. Covers(task, after)
    BY <1>1, <1>3, <1>4, <1>5 DEF Covers
  <1>7. \A i \in DOMAIN task.phases : \A j \in DOMAIN task.phases[i].steps :
           IsFirst(task.phases, p, i) /\ IsFirst(task.phases[i].steps, k, j) =>
              after.phases[i].steps[j].completed
    BY <1>3, <1>4
  <1> QED BY <1>6, <1>7 DEF after

(* The first phase with an id is the same one in a plan that covers another. *)
LEMMA FirstCovered ==
    ASSUME NEW a \in Task, NEW b \in Task, Covers(a, b), NEW p, NEW i,
           IsFirst(a.phases, p, i)
    PROVE  IsFirst(b.phases, p, i)
  <1>1. DOMAIN a.phases = 1..Len(a.phases) /\ Len(a.phases) \in Nat
    BY DEF Task
  <1>2. \A j \in 1..(i - 1) : j \in DOMAIN a.phases
    BY <1>1 DEF IsFirst
  <1> QED BY <1>2 DEF IsFirst, Covers

LEMMA CoveredFirst ==
    ASSUME NEW a \in Task, NEW b \in Task, Covers(a, b), NEW p, NEW i,
           IsFirst(b.phases, p, i)
    PROVE  IsFirst(a.phases, p, i)
  <1>1. DOMAIN a.phases = 1..Len(a.phases) /\ Len(a.phases) \in Nat
    BY DEF Task
  <1>2. i \in DOMAIN a.phases /\ \A j \in 1..(i - 1) : j \in DOMAIN a.phases
    BY <1>1 DEF IsFirst, Covers
  <1> QED BY <1>2 DEF IsFirst, Covers
-----------------------------------------------------------------------------

Places == {"idle", "phases", "fetch", "start", "steps", "asking", "decided", "done", "check"}
Underway == {"fetch", "start", "steps", "asking", "decided", "done"}
InSteps == {"steps", "asking", "decided"}

RunType == [at: Places, whole: BOOLEAN, outer: Task \cup {Nil, Shared},
            inner: Task \cup {Nil, Shared}, phase: Nat, id: Nat, target: Nat, step: Nat,
            bereft: BOOLEAN]

Untouched(task) ==
    \A i \in DOMAIN task.phases : \A j \in DOMAIN task.phases[i].steps :
        ~ task.phases[i].steps[j].completed

Memory ==
    /\ active \in Task \cup {Nil, Absent}
    /\ file \in Task \cup {Nil, Corrupt}
    /\ active \in Task => file # Nil
    /\ active = Nil => file = Nil

(* Memory has what is on disk, but for the default plan that is on disk when  *)
(* the planner's could not be saved.                                        *)
FileCovered ==
    active \in Task /\ file \in Task =>
        Covers(file, active) \/ (marked = {} /\ Untouched(file))

PhaseDone(task, i) == i \in DOMAIN task.phases /\ NamedStepsDone(task.phases[i].steps)

MarkedDone ==
    \A i \in marked : /\ active \in Task => PhaseDone(active, i)
                      /\ file \in Task => PhaseDone(file, i)

(* The pointers a run holds. *)
Holds(q) ==
    /\ q.at = "idle" => q = Idle
    /\ q.outer = Shared \/ q.inner = Shared => active \in Task
    /\ (q.at \in Underway /\ q.whole) \/ q.at = "phases" => q.outer # Nil
    /\ q.at = "phases" => q.phase # 0
    /\ q.at \notin InPhase => q.inner = Nil
    /\ q.at \in InSteps => q.inner # Nil
    /\ q.at = "start" /\ q.inner = Nil => file = Nil /\ active \notin Task
    /\ ~ q.bereft /\ q.inner \in Task /\ Loaded \in Task => Covers(q.inner, Loaded)

(* What a run has passed is completed, where its id reaches it. *)
Passed(q) ==
    ~ q.bereft /\ Loaded \in Task =>
        /\ q.at \in InSteps =>
              /\ IsFirst(Loaded.phases, q.id, q.target)
              /\ q.step # 0
              /\ LET steps == Loaded.phases[q.target].steps
                 IN  \A j \in DOMAIN steps :
                        j < q.step /\ IsFirst(steps, steps[j].id, j) => steps[j].completed
        /\ q.at \in {"asking", "decided"} =>
              q.step \in DOMAIN Loaded.phases[q.target].steps
        /\ q.at = "done" =>
              \A i \in DOMAIN Loaded.phases :
                  IsFirst(Loaded.phases, q.id, i) => NamedStepsDone(Loaded.phases[i].steps)

RunsKnown == \A r \in Runs : Holds(run[r]) /\ Passed(run[r])

IInv ==
    /\ run \in [Runs -> RunType]
    /\ Memory
    /\ FileCovered
    /\ MarkedDone
    /\ RunsKnown
-----------------------------------------------------------------------------
(* Where a plan covers another, a step reached by its id in one is reached by *)
(* it in the other, and what is done stays done.                            *)
LEMMA StepsCovered ==
    ASSUME NEW a \in Task, NEW b \in Task, Covers(a, b), NEW i \in DOMAIN a.phases,
           NEW j \in DOMAIN a.phases[i].steps
    PROVE  LET old == a.phases[i].steps
               new == b.phases[i].steps
           IN  /\ DOMAIN new = DOMAIN old /\ new[j].id = old[j].id
               /\ IsFirst(new, new[j].id, j) => IsFirst(old, old[j].id, j)
               /\ old[j].completed => new[j].completed
  <1> DEFINE old == a.phases[i].steps
             new == b.phases[i].steps
  <1>1. /\ old \in Seq(Step) /\ Len(old) \in Nat /\ DOMAIN old = 1..Len(old)
        /\ j \in DOMAIN old
    BY PhaseOf
  <1>2. /\ DOMAIN new = DOMAIN old
        /\ \A k \in DOMAIN old : /\ new[k].id = old[k].id
                                 /\ old[k].completed => new[k].completed
    BY DEF Covers
  <1>3. \A k \in 1..(j - 1) : k \in DOMAIN old
    <2> HIDE DEF old
    <2> QED BY <1>1
  <1> HIDE DEF old, new
  <1>4. IsFirst(new, new[j].id, j) => IsFirst(old, old[j].id, j)
    BY <1>2, <1>3 DEF IsFirst, old
  <1> QED BY <1>2, <1>4 DEF old, new

LEMMA DoneCovered ==
    ASSUME NEW a \in Task, NEW b \in Task, Covers(a, b), NEW i, PhaseDone(a, i)
    PROVE  PhaseDone(b, i)
  <1>1. i \in DOMAIN a.phases /\ i \in DOMAIN b.phases
    BY DEF PhaseDone, Covers
  <1>2. ASSUME NEW j \in DOMAIN b.phases[i].steps,
               IsFirst(b.phases[i].steps, b.phases[i].steps[j].id, j)
        PROVE  b.phases[i].steps[j].completed
    <2>1. j \in DOMAIN a.phases[i].steps
      BY <1>1, <1>2 DEF Covers
    <2> QED BY <1>1, <1>2, <2>1, StepsCovered DEF PhaseDone, NamedStepsDone
  <1> QED BY <1>1, <1>2 DEF PhaseDone, NamedStepsDone

(* How memory and files may change while runs hold pointers: the plan grows,  *)
(* in memory first, or there is none.                                       *)
Grows(task) ==
    /\ Loaded \in Task /\ task \in Task /\ Covers(Loaded, task)
    /\ active' = task
    /\ file' \in {task, file, Corrupt}

MemoryMoves ==
    \/ active' = active /\ file' = file /\ others' = others
    \/ Loaded = Nil /\ active' = Nil /\ file' = file
    \/ \E task \in Task : Grows(task)

LEMMA Distinct ==
    /\ Nil \notin Task /\ Absent \notin Task /\ Shared \notin Task /\ Corrupt \notin Task
    /\ Absent # Nil /\ Shared # Nil /\ Absent # Shared
    /\ Corrupt # Nil /\ Corrupt # Absent /\ Corrupt # Shared
  BY DataAssumption, ExecutorAssumption

LEMMA LoadedType ==
    ASSUME Memory
    PROVE  /\ Loaded \in Task \cup {Nil, Corrupt}
           /\ active # Absent => Loaded = active
           /\ active = Absent => Loaded \in {file, Corrupt}
           /\ Loaded \in Task => file # Nil
           /\ Loaded = Nil => file = Nil /\ active \notin Task
  BY Distinct DEF Memory, Loaded

LEMMA MemoryKept ==
    ASSUME Memory, MemoryMoves
    PROVE  Memory'
  <1>1. CASE active' = active /\ file' = file
    BY <1>1 DEF Memory
  <1>2. CASE Loaded = Nil /\ active' = Nil /\ file' = file
    BY <1>2, LoadedType, Distinct DEF Memory
  <1>3. ASSUME NEW task \in Task, Grows(task)
        PROVE  Memory'
    BY <1>3, LoadedType, Distinct DEF Grows, Memory
  <1> QED BY <1>1, <1>2, <1>3 DEF MemoryMoves

LEMMA FileKept ==
    ASSUME Memory, FileCovered, MarkedDone, MemoryMoves
    PROVE  /\ marked' = marked => FileCovered'
           /\ \A i \in marked : /\ active' \in Task => PhaseDone(active', i)
                                /\ file' \in Task => PhaseDone(file', i)
  <1>1. CASE active' = active /\ file' = file
    BY <1>1 DEF FileCovered, MarkedDone
  <1>2. CASE Loaded = Nil /\ active' = Nil /\ file' = file
    BY <1>2, Distinct DEF FileCovered, MarkedDone
  <1>3. ASSUME NEW task \in Task, Grows(task)
        PROVE  /\ marked' = marked => FileCovered'
               /\ \A i \in marked : /\ active' \in Task => PhaseDone(active', i)
                                    /\ file' \in Task => PhaseDone(file', i)
    <2>1. file \in Task => Covers(file, Loaded) \/ (marked = {} /\ Untouched(file))
      BY <1>3, Distinct, LoadedType, CoversItself DEF Grows, FileCovered, Memory
    <2>2. file \in Task => Covers(file, task) \/ (marked = {} /\ Untouched(file))
      BY <1>3, <2>1, CoversOn DEF Grows
    <2>3. \A i \in marked : PhaseDone(Loaded, i)
      BY <1>3, Distinct, LoadedType DEF Grows, MarkedDone, Memory
    <2>4. \A i \in marked : PhaseDone(task, i)
      BY <1>3, <2>3, DoneCovered DEF Grows
    <2>5. marked' = marked => FileCovered'
      BY <1>3, <2>2, CoversItself, Distinct DEF Grows, FileCovered
    <2>6. \A i \in marked : file' \in Task => PhaseDone(file', i)
      BY <1>3, <2>4, Distinct DEF Grows, MarkedDone
    <2> QED BY <1>3, <2>4, <2>5, <2>6 DEF Grows
  <1> QED BY <1>1, <1>2, <1>3 DEF MemoryMoves

(* What every run can rely on. *)
LoadedGrows ==
    /\ Loaded \notin Task => Loaded' \notin Task
    /\ Loaded \in Task => Loaded' \in Task /\ Covers(Loaded, Loaded')
    /\ active \in Task => active' \in Task
    /\ file = Nil /\ active \notin Task => file' = Nil /\ active' \notin Task

LEMMA PlanGrows ==
    ASSUME Memory, MemoryMoves
    PROVE  LoadedGrows
  <1>1. CASE active' = active /\ file' = file /\ others' = others
    BY <1>1, CoversItself DEF LoadedGrows, Loaded
  <1>2. CASE Loaded = Nil /\ active' = Nil /\ file' = file
    BY <1>2, LoadedType, Distinct DEF LoadedGrows, Loaded
  <1>3. ASSUME NEW task \in Task, Grows(task)
        PROVE  LoadedGrows
    BY <1>3, LoadedType, Distinct DEF Grows, LoadedGrows, Loaded
  <1> QED BY <1>1, <1>2, <1>3 DEF MemoryMoves

LEMMA RunKept ==
    ASSUME LoadedGrows, NEW q \in RunType, Holds(q), Passed(q)
    PROVE  Holds(q)' /\ Passed(q)'
  <1>1. Holds(q)'
    <2>1. ASSUME ~ q.bereft, q.inner \in Task, Loaded' \in Task
          PROVE  Covers(q.inner, Loaded')
      BY <2>1, CoversOn DEF LoadedGrows, Holds
    <2> QED BY <2>1 DEF LoadedGrows, Holds
  <1>2. Passed(q)'
    <2> SUFFICES ASSUME ~ q.bereft, Loaded' \in Task
                 PROVE  Passed(q)'
      BY DEF Passed
    <2>0. Loaded \in Task /\ Covers(Loaded, Loaded')
      BY DEF LoadedGrows
    <2>1. ASSUME q.at \in InSteps
          PROVE  /\ IsFirst(Loaded'.phases, q.id, q.target)
                 /\ q.target \in DOMAIN Loaded.phases
      <3>1. IsFirst(Loaded.phases, q.id, q.target) /\ q.target \in DOMAIN Loaded.phases
        BY SMTT(40), <2>0, <2>1 DEF Passed, IsFirst
      <3> QED BY <2>0, <3>1, FirstCovered
    <2>5. ASSUME q.at \in InSteps, NEW j \in DOMAIN Loaded'.phases[q.target].steps,
                 j < q.step,
                 IsFirst(Loaded'.phases[q.target].steps, Loaded'.phases[q.target].steps[j].id, j)
          PROVE  Loaded'.phases[q.target].steps[j].completed
      <3>1. q.target \in DOMAIN Loaded.phases
        BY <2>1, <2>5
      <3>2. j \in DOMAIN Loaded.phases[q.target].steps
        BY <2>0, <2>5, <3>1 DEF Covers
      <3>3. \A k \in DOMAIN Loaded.phases[q.target].steps :
               /\ k < q.step
               /\ IsFirst(Loaded.phases[q.target].steps, Loaded.phases[q.target].steps[k].id, k)
               => Loaded.phases[q.target].steps[k].completed
        BY <2>0, <2>5, Zenon DEF Passed
      <3> QED BY <2>0, <2>5, <3>1, <3>2, <3>3, StepsCovered
    <2>2. ASSUME q.at \in {"asking", "decided"}
          PROVE  q.step \in DOMAIN Loaded'.phases[q.target].steps
      <3>1. q.step \in DOMAIN Loaded.phases[q.target].steps
        BY <2>0, <2>2 DEF Passed
      <3> QED BY <2>0, <2>1, <2>2, <3>1 DEF Covers, InSteps
    <2>3. ASSUME q.at = "done", NEW i \in DOMAIN Loaded'.phases,
                 IsFirst(Loaded'.phases, q.id, i)
          PROVE  NamedStepsDone(Loaded'.phases[i].steps)
      <3>0. IsFirst(Loaded.phases, q.id, i)
        BY <2>0, <2>3, CoveredFirst
      <3>1. i \in DOMAIN Loaded.phases
        BY <3>0 DEF IsFirst
      <3>2. PhaseDone(Loaded, i)
        BY <2>0, <2>3, <3>0, <3>1 DEF Passed, PhaseDone
      <3> QED BY <2>0, <3>2, DoneCovered DEF PhaseDone
    <2>4. q.at \in InSteps => q.step # 0
      BY <2>0 DEF Passed
    <2> QED BY <2>1, <2>2, <2>3, <2>4, <2>5, Zenon DEF Passed
  <1> QED BY <1>1, <1>2

LEMMA RunBefore ==
    ASSUME IInv, MemoryMoves, NEW r \in Runs
    PROVE  \E q \in RunType : /\ q = run[r]
                              /\ Holds(q) /\ Passed(q)
                              /\ Holds(q)' /\ Passed(q)'
  <1>1. PICK q : q = run[r]
    OBVIOUS
  <1>2. q \in RunType /\ Holds(q) /\ Passed(q)
    BY <1>1 DEF IInv, RunsKnown
  <1>3. Holds(q)' /\ Passed(q)'
    BY <1>2, RunKept, PlanGrows DEF IInv
  <1> QED BY <1>1, <1>2, <1>3

LEMMA RunsKept ==
    ASSUME IInv, MemoryMoves, NEW r \in Runs, NEW q \in RunType,
           run' = [run EXCEPT ![r] = q], Holds(q)', Passed(q)'
    PROVE  run' \in [Runs -> RunType] /\ RunsKnown'
  <1>1. run' \in [Runs -> RunType]
    BY DEF IInv
  <1>2. ASSUME NEW c \in Runs PROVE Holds(run[c])' /\ Passed(run[c])'
    <2>1. CASE c = r
      <3>1. run'[c] = q
        BY <2>1 DEF IInv
      <3> QED BY SMTT(40), <3>1 DEF Holds, Passed
    <2>2. CASE c # r
      <3>1. PICK d \in RunType : d = run[c] /\ Holds(d)' /\ Passed(d)'
        BY RunBefore
      <3>2. run'[c] = d
        BY <2>2, <3>1 DEF IInv
      <3> QED BY <3>1, <3>2 DEF Holds, Passed
    <2> QED BY SMTT(40), <2>1, <2>2
  <1> QED BY <1>1, <1>2 DEF RunsKnown

LEMMA OneRuns ==
    ASSUME IInv, MemoryMoves, marked' = marked, NEW r \in Runs, NEW q \in RunType,
           run' = [run EXCEPT ![r] = q], Holds(q)', Passed(q)'
    PROVE  IInv'
  <1>1. Memory' /\ FileCovered' /\ MarkedDone'
    BY MemoryKept, FileKept DEF IInv, MarkedDone
  <1>2. run' \in [Runs -> RunType] /\ RunsKnown'
    BY RunsKept
  <1> QED BY <1>1, <1>2 DEF IInv

LEMMA AllRunsKept ==
    ASSUME IInv, MemoryMoves, marked' = marked, run' = run
    PROVE  IInv'
  <1>1. Memory' /\ FileCovered' /\ MarkedDone'
    BY MemoryKept, FileKept DEF IInv, MarkedDone
  <1>2. ASSUME NEW c \in Runs PROVE Holds(run[c])' /\ Passed(run[c])'
    <2>1. PICK d \in RunType : d = run[c] /\ Holds(d)' /\ Passed(d)'
      BY RunBefore
    <2> QED BY <2>1 DEF Holds, Passed
  <1> QED BY <1>1, <1>2 DEF IInv, RunsKnown

LEMMA IdleHolds == Idle \in RunType /\ Holds(Idle) /\ Passed(Idle)
  BY Distinct DEF Idle, RunType, Places, Holds, Passed, Underway, InPhase, InSteps

LEMMA EndsKeeps ==
    ASSUME IInv, MemoryMoves, marked' = marked, NEW r \in Runs, Ends(r)
    PROVE  IInv'
  <1>1. PICK q : q = Idle
    OBVIOUS
  <1>2. q \in RunType /\ Holds(q)' /\ Passed(q)'
    BY <1>1, IdleHolds, Distinct
        DEF Idle, RunType, Places, Holds, Passed, Underway, InPhase, InSteps
  <1> QED BY <1>1, <1>2, OneRuns DEF Ends

(* A mutator of the manager. *)
LEMMA SaveMoves ==
    ASSUME Memory, Loaded \in Task, NEW task \in Task, Covers(Loaded, task), NEW answer,
           SaveContext(task, answer)
    PROVE  /\ MemoryMoves /\ Loaded' = task /\ active' = task
           /\ answer = "ok" => file' = task
  <1>1. Grows(task)
    BY DEF SaveContext, Grows
  <1>2. Loaded' = task
    BY Distinct DEF SaveContext, Loaded
  <1> QED BY <1>1, <1>2 DEF MemoryMoves, SaveContext

LEMMA RecordMoves ==
    ASSUME Memory, NEW task, NEW answer, Record(task, answer),
           Loaded \in Task => task \in Task /\ Covers(Loaded, task)
    PROVE  /\ MemoryMoves
           /\ Loaded \in Task => Loaded' = task /\ active' = task
           /\ answer = "ok" => Loaded \in Task /\ file' = task
  <1>1. CASE Loaded \in Task /\ SaveContext(task, answer)
    BY <1>1, SaveMoves
  <1>2. CASE Loaded = Nil /\ Panics(Nil) /\ answer = "panic"
    BY <1>2, Distinct DEF Panics, MemoryMoves
  <1>3. CASE Loaded = Corrupt /\ answer = "error" /\ UNCHANGED <<active, file, others, faults>>
    BY <1>3, Distinct DEF MemoryMoves
  <1> QED BY <1>1, <1>2, <1>3 DEF Record

LEMMA ChangeMoves ==
    ASSUME Memory, NEW task, NEW answer, Change(task, answer),
           Loaded \in Task => task \in Task /\ Covers(Loaded, task)
    PROVE  /\ MemoryMoves
           /\ Loaded \in Task => Loaded' = task /\ active' = task
           /\ answer = "ok" => Loaded \in Task /\ file' = task
  <1>1. CASE Record(task, answer)
    BY <1>1, RecordMoves
  <1>2. CASE answer = "panic" /\ Loaded \in Task /\ Panics(task)
    <2>1. Grows(task)
      BY <1>2 DEF Panics, Grows
    <2> QED BY <1>2, <2>1, Distinct DEF MemoryMoves, Panics, Loaded
  <1> QED BY <1>1, <1>2 DEF Change
-----------------------------------------------------------------------------
(* The initial states. *)
LEMMA OpenSteps ==
    ASSUME NEW ids \in Seq(Nat),
           NEW steps, steps = [j \in DOMAIN ids |-> [id |-> ids[j], completed |-> FALSE]]
    PROVE  /\ steps \in Seq(Step)
           /\ \A j \in DOMAIN steps : ~ steps[j].completed
  <1>1. DOMAIN ids = 1..Len(ids) /\ Len(ids) \in Nat /\ \A j \in DOMAIN ids : ids[j] \in Nat
    OBVIOUS
  <1>2. \A j \in DOMAIN ids : steps[j] = [id |-> ids[j], completed |-> FALSE]
    OBVIOUS
  <1>3. \A j \in DOMAIN ids : steps[j] \in Step /\ ~ steps[j].completed
    BY <1>1, <1>2 DEF Step
  <1>4. steps = [j \in 1..Len(ids) |-> steps[j]]
    BY <1>1
  <1> QED BY <1>1, <1>3, <1>4, SequenceByElements

LEMMA NewPlan == NewContext.task \in Task /\ Untouched(NewContext.task)
  <1> DEFINE f == DefaultPhases
             steps == [j \in 1..NSteps |-> [id |-> j, completed |-> FALSE]]
  <1>1. /\ steps \in Seq(Step)
        /\ \A j \in DOMAIN steps : ~ steps[j].completed
    BY FreshStepsType, DataAssumption
  <1>2. \A i \in 1..NPhases : f[i] = [id |-> i, status |-> "pending", steps |-> steps]
    BY DEF DefaultPhases
  <1>3. f = [i \in 1..NPhases |-> f[i]] /\ DOMAIN f = 1..NPhases /\ NPhases \in Nat
    BY DataAssumption DEF DefaultPhases
  <1>4. NewContext.task =
          [status |-> "pending", currentPhase |-> 1, phases |-> f,
           toolCalls |-> 0, needsReread |-> FALSE, errors |-> 0, decisions |-> 0]
    BY DEF NewContext
  <1> HIDE DEF f, steps
  <1>5. \A i \in 1..NPhases : f[i] \in Phase /\ f[i].steps = steps
    BY <1>1, <1>2, <1>3 DEF Phase, PhaseStatus
  <1>6. f \in Seq(Phase)
    BY <1>3, <1>5, SequenceByElements
  <1> QED BY <1>1, <1>3, <1>4, <1>5, <1>6 DEF Task, TaskStatus, Untouched

LEMMA PlansType ==
    ASSUME NEW plan \in Plans
    PROVE  Planned(plan) \in Task /\ Untouched(Planned(plan))
  <1>1. CASE plan = <<>>
    BY <1>1, NewPlan DEF Planned
  <1>2. CASE plan # <<>>
    <2> DEFINE f == ConvertToTaskPhases(plan)
               old == NewContext.task
               steps(i) == [j \in DOMAIN plan[i].steps |->
                               [id |-> plan[i].steps[j], completed |-> FALSE]]
    <2>1. /\ plan \in Seq(PlanPhase) /\ Len(plan) \in Nat /\ DOMAIN plan = 1..Len(plan)
          /\ \A i \in DOMAIN plan : plan[i] \in PlanPhase
          /\ plan[1] \in PlanPhase
      BY <1>2, ExecutorAssumption
    <2>2. \A i \in DOMAIN plan :
             f[i] = [id |-> plan[i].id, status |-> "pending", steps |-> steps(i)]
      BY DEF ConvertToTaskPhases
    <2>3. f = [i \in 1..Len(plan) |-> f[i]] /\ DOMAIN f = DOMAIN plan
      BY <2>1 DEF ConvertToTaskPhases
    <2>4. Planned(plan) = [old EXCEPT !.phases = f, !.currentPhase = plan[1].id]
      BY <1>2 DEF Planned
    <2>5. ASSUME NEW i \in DOMAIN plan
          PROVE  steps(i) \in Seq(Step) /\ \A j \in DOMAIN steps(i) : ~ steps(i)[j].completed
      <3>1. plan[i].steps \in Seq(Nat)
        BY <2>1, <2>5 DEF PlanPhase
      <3> QED BY <3>1, OpenSteps
    <2> HIDE DEF f, steps, old
    <2>6. ASSUME NEW i \in DOMAIN plan PROVE f[i] \in Phase /\ f[i].steps = steps(i)
      <3>1. plan[i].id \in Nat
        BY <2>1, <2>6 DEF PlanPhase
      <3>2. f[i] = [id |-> plan[i].id, status |-> "pending", steps |-> steps(i)]
        BY <2>2, <2>6
      <3>3. steps(i) \in Seq(Step)
        BY <2>5, <2>6
      <3> QED BY <3>1, <3>2, <3>3 DEF Phase, PhaseStatus
    <2>7. f \in Seq(Phase)
      BY <2>1, <2>3, <2>6, SequenceByElements
    <2>8. old \in Task /\ plan[1].id \in Nat
      BY <2>1, NewPlan DEF old, PlanPhase
    <2>9. Planned(plan) \in Task /\ Planned(plan).phases = f
      BY <2>4, <2>7, <2>8 DEF Task
    <2>10. Untouched(Planned(plan))
      BY <2>3, <2>5, <2>6, <2>9 DEF Untouched
    <2> QED BY <2>9, <2>10
  <1> QED BY <1>1, <1>2

LEMMA InitHolds == Init => IInv
  <1> SUFFICES ASSUME Init PROVE IInv
    OBVIOUS
  <1>1. PICK plan \in Plans : /\ active = Planned(plan)
                              /\ file \in {Planned(plan), NewContext.task, Corrupt}
    BY DEF Init
  <1>2. active \in Task /\ (file = Corrupt \/ (file \in Task /\ Untouched(file)))
    BY <1>1, PlansType, NewPlan
  <1>3. Memory /\ FileCovered /\ MarkedDone
    BY <1>2, Distinct DEF Init, Memory, FileCovered, MarkedDone
  <1>4. Idle \in RunType /\ Holds(Idle) /\ Passed(Idle)
    BY IdleHolds
  <1>5. run \in [Runs -> RunType] /\ \A r \in Runs : run[r] = Idle
    BY <1>4 DEF Init
  <1>6. RunsKnown
    BY <1>4, <1>5, Zenon DEF RunsKnown
  <1> QED BY <1>3, <1>5, <1>6 DEF IInv
-----------------------------------------------------------------------------
(* A run goes on and nothing else changes. *)
LEMMA RunMoves ==
    ASSUME IInv, NEW r \in Runs, UNCHANGED Manager
    PROVE  /\ MemoryMoves /\ marked' = marked /\ Loaded' = Loaded
           /\ active' = active /\ file' = file
  BY DEF Manager, MemoryMoves, Loaded

LEMMA RequestPhaseKeeps ==
    ASSUME IInv, NEW r \in Runs, NEW p \in Nat, RequestPhase(r, p)
    PROVE  MemoryMoves /\ IInv'
  <1>1. MemoryMoves /\ marked' = marked
    BY RunMoves DEF RequestPhase
  <1>2. PICK o \in RunType : o = run[r] /\ Holds(o) /\ Passed(o) /\ Holds(o)' /\ Passed(o)'
    BY <1>1, RunBefore
  <1>3. PICK q : q = [o EXCEPT !.at = "fetch", !.id = p]
    OBVIOUS
  <1>4. o.outer = Nil /\ o.inner = Nil /\ o.whole = FALSE
    BY <1>2 DEF RequestPhase, Holds, Idle
  <1>5. /\ q \in RunType /\ q.at = "fetch" /\ q.outer = Nil /\ q.inner = Nil
        /\ q.whole = FALSE
    BY <1>2, <1>3, <1>4 DEF RunType, Places
  <1>6. Holds(q)' /\ Passed(q)'
    BY <1>5, Distinct DEF Holds, Passed, Underway, InPhase, InSteps
  <1>7. run' = [run EXCEPT ![r] = q]
    BY <1>2, <1>3 DEF RequestPhase, IInv
  <1> QED BY <1>1, <1>5, <1>6, <1>7, OneRuns

LEMMA StatusOnly ==
    ASSUME NEW task \in Task
    PROVE  /\ [task EXCEPT !.status = "in_progress"] \in Task
           /\ [task EXCEPT !.status = "in_progress"].phases = task.phases
  BY DEF Task, TaskStatus

LEMMA Fetched ==
    ASSUME Memory
    PROVE  /\ GetTaskContext \in Task \cup {Nil, Corrupt, Shared}
           /\ GetTaskContext = Shared => active \in Task /\ Loaded = active
           /\ GetTaskContext = Nil => file = Nil /\ active \notin Task
           /\ GetTaskContext \in Task => GetTaskContext = Loaded
  BY LoadedType, Distinct DEF Memory, GetTaskContext

LEMMA RequestTaskKeeps ==
    ASSUME IInv, NEW r \in Runs, RequestTask(r)
    PROVE  MemoryMoves /\ IInv'
  <1> DEFINE p == GetTaskContext
  <1>0. file' = file /\ others' = others /\ marked' = marked /\ run[r].at = "idle"
    BY DEF RequestTask
  <1>1. CASE p \in {Nil, Corrupt}
    <2>1. MemoryMoves /\ Ends(r)
      BY <1>0, <1>1 DEF RequestTask, MemoryMoves
    <2> QED BY <1>0, <2>1, EndsKeeps
  <1>2. CASE p \in Task \cup {Shared}
    <2>1. p \notin {Nil, Corrupt}
      BY <1>2, Distinct
    <2>2. MemoryMoves /\ (p = Shared => active' \in Task)
      <3>1. CASE p = Shared
        <4>1. active \in Task /\ Loaded = active
          BY <3>1, Fetched DEF IInv
        <4>2. active' = [active EXCEPT !.status = "in_progress"]
          BY <2>1, <3>1 DEF RequestTask
        <4>3. active' \in Task /\ Covers(active, active')
          BY <4>1, <4>2, StatusOnly, SamePhasesCover
        <4> QED BY <1>0, <4>1, <4>3 DEF MemoryMoves, Grows
      <3>2. CASE p # Shared
        BY <1>0, <2>1, <3>2 DEF RequestTask, MemoryMoves
      <3> QED BY <3>1, <3>2
    <2>3. PICK o \in RunType : o = run[r] /\ Holds(o) /\ Holds(o)' /\ Passed(o)'
      BY <2>2, RunBefore
    <2>4. PICK held : held = IF p = Shared THEN p ELSE [p EXCEPT !.status = "in_progress"]
      OBVIOUS
    <2>5. held \in Task \cup {Shared} /\ held # Nil /\ (held = Shared => active' \in Task)
      BY <1>2, <2>2, <2>4, StatusOnly, Distinct
    <2>6. o.inner = Nil
      BY <1>0, <2>3 DEF Holds, Idle
    <2>7. PICK q : q = [o EXCEPT !.at = "phases", !.whole = TRUE, !.phase = 1, !.outer = held]
      OBVIOUS
    <2>8. /\ q \in RunType /\ q.at = "phases" /\ q.outer = held /\ q.inner = Nil
          /\ q.phase = 1
      BY <2>5, <2>6, <2>7 DEF RunType, Places
    <2>9. Holds(q)' /\ Passed(q)'
      BY <2>5, <2>8, Distinct DEF Holds, Passed, Underway, InPhase, InSteps
    <2>10. run' = [run EXCEPT ![r] = q]
      BY <2>1, <2>3, <2>4, <2>7 DEF RequestTask, IInv
    <2> QED BY <1>0, <2>2, <2>8, <2>9, <2>10, OneRuns
  <1> QED BY <1>1, <1>2, Fetched DEF IInv

LEMMA SeenType ==
    ASSUME Memory, NEW q \in RunType, Holds(q)
    PROVE  /\ q.outer # Nil => See(q.outer) \in Task
           /\ q.inner # Nil => See(q.inner) \in Task
           /\ q.inner # Nil /\ ~ q.bereft /\ Loaded \in Task => Covers(See(q.inner), Loaded)
  <1>1. q.outer \in Task \cup {Nil, Shared} /\ q.inner \in Task \cup {Nil, Shared}
    BY DEF RunType
  <1>2. CASE q.inner = Shared
    BY <1>1, <1>2, LoadedType, CoversItself, Distinct DEF See, Holds, Memory
  <1>3. CASE q.inner \in Task
    BY <1>1, <1>3, Distinct DEF See, Holds
  <1>4. q.outer # Nil => See(q.outer) \in Task
    BY <1>1, Distinct DEF See, Holds
  <1> QED BY <1>1, <1>2, <1>3, <1>4

LEMMA NextPhaseKeeps ==
    ASSUME IInv, NEW r \in Runs, NextPhase(r)
    PROVE  MemoryMoves /\ IInv'
  <1>1. MemoryMoves /\ marked' = marked
    BY RunMoves DEF NextPhase
  <1>2. PICK o \in RunType : o = run[r] /\ Holds(o) /\ Passed(o) /\ Holds(o)' /\ Passed(o)'
    BY <1>1, RunBefore
  <1>3. o.at = "phases" /\ o.outer # Nil
    BY <1>2 DEF NextPhase, Holds
  <1> DEFINE phases == See(o.outer).phases
             i == o.phase
  <1>4. phases \in Seq(Phase) /\ Len(phases) \in Nat /\ i \in Nat
    BY <1>2, <1>3, SeenType DEF IInv, RunType, Task
  <1>5. PICK q : q = IF i > Len(phases) THEN [o EXCEPT !.at = "check", !.outer = Nil]
                     ELSE IF phases[i].status = "complete" THEN [o EXCEPT !.phase = i + 1]
                     ELSE [o EXCEPT !.at = "fetch", !.id = phases[i].id]
    OBVIOUS
  <1>6. run' = [run EXCEPT ![r] = q]
    BY <1>2, <1>5 DEF NextPhase, IInv
  <1>7. CASE i > Len(phases)
    <2>1. q \in RunType /\ q.at = "check" /\ q.outer = Nil /\ q.inner = o.inner
      BY <1>2, <1>5, <1>7 DEF RunType, Places
    <2>2. Holds(q)' /\ Passed(q)'
      BY <1>2, <1>3, <2>1, Distinct DEF Holds, Passed, Underway, InPhase, InSteps
    <2> QED BY <1>1, <1>6, <2>1, <2>2, OneRuns
  <1>8. CASE ~(i > Len(phases)) /\ phases[i].status = "complete"
    <2>1. /\ q \in RunType /\ q.at = o.at /\ q.outer = o.outer /\ q.inner = o.inner
          /\ q.whole = o.whole /\ q.phase # 0
      BY SMTT(40), <1>2, <1>4, <1>5, <1>8 DEF RunType, Places
    <2>2. Holds(q)' /\ Passed(q)'
      BY <1>2, <1>3, <2>1, Distinct DEF Holds, Passed, Underway, InPhase, InSteps
    <2> QED BY <1>1, <1>6, <2>1, <2>2, OneRuns
  <1>9. CASE ~(i > Len(phases)) /\ phases[i].status # "complete"
    <2>0. o.phase # 0
      BY <1>2, <1>3 DEF Holds
    <2>1. phases[i] \in Phase
      BY <1>4, <1>9, <2>0
    <2>2. phases[i].id \in Nat
      BY <2>1 DEF Phase
    <2>3. /\ q \in RunType /\ q.at = "fetch" /\ q.outer = o.outer /\ q.inner = o.inner
      BY <1>2, <1>5, <1>9, <2>2 DEF RunType, Places
    <2>4. Holds(q)' /\ Passed(q)'
      BY <1>2, <1>3, <2>3, Distinct DEF Holds, Passed, Underway, InPhase, InSteps
    <2> QED BY <1>1, <1>6, <2>3, <2>4, OneRuns
  <1> QED BY <1>7, <1>8, <1>9

LEMMA FetchContextKeeps ==
    ASSUME IInv, NEW r \in Runs, FetchContext(r)
    PROVE  MemoryMoves /\ IInv'
  <1>1. /\ MemoryMoves /\ marked' = marked /\ Loaded' = Loaded
        /\ active' = active /\ file' = file
    BY RunMoves DEF FetchContext
  <1>2. CASE GetTaskContext = Corrupt
    <2>1. Ends(r)
      BY <1>2 DEF FetchContext
    <2> QED BY <1>1, <2>1, EndsKeeps
  <1>3. CASE GetTaskContext # Corrupt
    <2>1. PICK o \in RunType : o = run[r] /\ Holds(o)' /\ Passed(o)'
      BY <1>1, RunBefore
    <2>2. PICK p : p = GetTaskContext
      OBVIOUS
    <2>3. /\ p \in Task \cup {Nil, Shared}
          /\ p = Shared => active \in Task
          /\ p = Nil => file = Nil /\ active \notin Task
          /\ p \in Task => p = Loaded
      BY <1>3, <2>2, Fetched DEF IInv
    <2>4. PICK q : q = [o EXCEPT !.at = "start", !.inner = p]
      OBVIOUS
    <2>5. /\ q \in RunType /\ q.at = "start" /\ q.inner = p /\ q.outer = o.outer
          /\ q.whole = o.whole
      BY <2>3, <2>4 DEF RunType, Places
    <2>6. o.at = "fetch"
      BY <2>1 DEF FetchContext
    <2>7. Holds(q)' /\ Passed(q)'
      <3>1. p \in Task => Covers(p, Loaded')
        BY <1>1, <2>3, CoversItself
      <3> QED BY <1>1, <2>1, <2>3, <2>5, <2>6, <3>1, Distinct
              DEF Holds, Passed, Underway, InPhase, InSteps
    <2>8. run' = [run EXCEPT ![r] = q]
      BY <1>3, <2>1, <2>2, <2>4 DEF FetchContext, IInv
    <2> QED BY <1>1, <2>5, <2>7, <2>8, OneRuns
  <1> QED BY <1>2, <1>3

LEMMA StartPhaseKeeps ==
    ASSUME IInv, NEW r \in Runs, StartPhase(r)
    PROVE  MemoryMoves /\ IInv'
  <1> DEFINE id == run[r].id
             task == WithPhaseStatus(Loaded, id, "in_progress")
             phases == (IF run[r].inner = Shared THEN active' ELSE run[r].inner).phases
             found == {i \in DOMAIN phases : IsFirst(phases, id, i)}
  <1>1. marked' = marked /\ run[r].at = "start" /\ id \in Nat
    BY DEF StartPhase, IInv, RunType
  <1>2. Loaded \in Task => task \in Task /\ Covers(Loaded, task)
    BY <1>1, StatusCovers, WithPhaseStatusType DEF PhaseStatus
  <1>3. PICK answer \in Answers :
           /\ Change(task, answer)
           /\ IF answer # "ok" THEN Ends(r)
              ELSE \/ found = {} /\ Ends(r)
                   \/ \E i \in found :
                        run' = [run EXCEPT ![r].at = "steps", ![r].target = i, ![r].step = 1]
    BY Zenon DEF StartPhase
  <1> HIDE DEF task
  <1>4. /\ MemoryMoves
        /\ Loaded \in Task => Loaded' = task /\ active' = task
        /\ answer = "ok" => Loaded \in Task
    BY <1>2, <1>3, ChangeMoves DEF IInv
  <1>5. CASE Ends(r)
    BY <1>1, <1>4, <1>5, EndsKeeps
  <1>6. CASE ~ Ends(r)
    <2>1. answer = "ok"
      BY <1>3, <1>6
    <2>2. Loaded \in Task /\ Loaded' = task /\ active' = task
      BY <1>4, <2>1
    <2>3. PICK i \in DOMAIN phases :
             /\ IsFirst(phases, id, i)
             /\ run' = [run EXCEPT ![r].at = "steps", ![r].target = i, ![r].step = 1]
      BY <1>3, <1>6, <2>1
    <2>4. PICK o \in RunType : o = run[r] /\ Holds(o) /\ Holds(o)'
      BY <1>4, RunBefore
    <2>5. PICK q : q = [o EXCEPT !.at = "steps", !.target = i, !.step = 1]
      OBVIOUS
    <2>6. run' = [run EXCEPT ![r] = q]
      BY <2>3, <2>4, <2>5 DEF IInv
    <2>7. PICK held : held = IF o.inner = Shared THEN active' ELSE o.inner
      OBVIOUS
    <2>8. o.inner # Nil
      BY <1>1, <2>2, <2>4, LoadedType DEF Holds, IInv
    <2>9. held \in Task /\ task \in Task /\ (~ o.bereft => Covers(held, task))
      BY <1>2, <2>2, <2>4, <2>7, <2>8, CoversItself, Distinct DEF Holds, RunType
    <2>10. i \in DOMAIN held.phases /\ IsFirst(held.phases, id, i) /\ i \in Nat
      BY SMTT(40), <2>3, <2>4, <2>7, <2>9 DEF Task
    <2>11. ~ o.bereft => IsFirst(task.phases, id, i) /\ i \in DOMAIN task.phases
      BY <2>9, <2>10, FirstCovered DEF Covers
    <2>12. ~ o.bereft => \A j \in DOMAIN task.phases[i].steps : ~ (j < 1)
      <3>1. ASSUME ~ o.bereft, NEW j \in DOMAIN task.phases[i].steps PROVE ~ (j < 1)
        <4>1. task.phases[i].steps \in Seq(Step)
          BY <2>9, <2>11, <3>1, PhaseOf
        <4> QED BY <3>1, <4>1
      <3> QED BY <3>1
    <2>13. /\ q \in RunType /\ q.at = "steps" /\ q.inner = o.inner /\ q.outer = o.outer
           /\ q.whole = o.whole /\ q.id = id /\ q.target = i /\ q.step = 1
           /\ q.bereft = o.bereft
      BY <2>4, <2>5, <2>10 DEF RunType, Places
    <2>14. Holds(q)'
      BY <1>1, <2>4, <2>8, <2>13 DEF Holds, Underway, InPhase, InSteps
    <2>15. Passed(q)'
      BY <2>2, <2>11, <2>12, <2>13 DEF Passed, InSteps
    <2> QED BY <1>1, <1>4, <2>6, <2>13, <2>14, <2>15, OneRuns
  <1> QED BY <1>5, <1>6

(* What a run sees of the step it has reached is what the plan has there. *)
LEMMA StepSeen ==
    ASSUME Memory, NEW o \in RunType, Holds(o), Passed(o), o.at \in InSteps,
           Loaded \in Task, ~ o.bereft
    PROVE  /\ o.target \in DOMAIN Loaded.phases
           /\ IsFirst(Loaded.phases, o.id, o.target)
           /\ Loaded.phases[o.target].steps \in Seq(Step)
           /\ Len(See(o.inner).phases[o.target].steps)
                  = Len(Loaded.phases[o.target].steps)
           /\ \A j \in DOMAIN Loaded.phases[o.target].steps :
                 /\ See(o.inner).phases[o.target].steps[j].id
                        = Loaded.phases[o.target].steps[j].id
                 /\ See(o.inner).phases[o.target].steps[j].completed =>
                        Loaded.phases[o.target].steps[j].completed
  <1> DEFINE held == See(o.inner)
             t == o.target
  <1>1. t \in DOMAIN Loaded.phases /\ IsFirst(Loaded.phases, o.id, t)
    BY DEF Passed, IsFirst
  <1>2. held \in Task /\ Covers(held, Loaded)
    BY SeenType DEF Holds
  <1> HIDE DEF held
  <1>3. t \in DOMAIN held.phases
    BY <1>1, <1>2 DEF Covers
  <1>4. held.phases[t].steps \in Seq(Step) /\ Loaded.phases[t].steps \in Seq(Step)
    BY <1>1, <1>2, <1>3, PhaseOf
  <1>5. DOMAIN held.phases[t].steps = DOMAIN Loaded.phases[t].steps
    BY <1>2, <1>3 DEF Covers
  <1>6. Len(held.phases[t].steps) = Len(Loaded.phases[t].steps)
    <2>1. ASSUME NEW a \in Seq(Step), NEW b \in Seq(Step), DOMAIN a = DOMAIN b
          PROVE  Len(a) = Len(b)
      BY <2>1
    <2> QED BY <1>4, <1>5, <2>1
  <1>7. \A j \in DOMAIN held.phases[t].steps :
           /\ held.phases[t].steps[j].id = Loaded.phases[t].steps[j].id
           /\ held.phases[t].steps[j].completed => Loaded.phases[t].steps[j].completed
    BY <1>2, <1>3 DEF Covers
  <1> QED BY ZenonT(40), <1>1, <1>4, <1>5, <1>6, <1>7 DEF held

LEMMA OnlyFirst ==
    ASSUME NEW s, NEW n \in Nat, DOMAIN s = 1..n, NEW id, NEW i, NEW j,
           IsFirst(s, id, i), IsFirst(s, id, j)
    PROVE  i = j
  BY DEF IsFirst

LEMMA NextStepKeeps ==
    ASSUME IInv, NEW r \in Runs, NextStep(r)
    PROVE  MemoryMoves /\ IInv'
  <1>1. MemoryMoves /\ marked' = marked /\ Loaded' = Loaded /\ active' = active
    BY RunMoves DEF NextStep
  <1>2. PICK o \in RunType : o = run[r] /\ Holds(o) /\ Passed(o) /\ Holds(o)' /\ Passed(o)'
    BY <1>1, RunBefore
  <1>3. o.at = "steps" /\ o.at \in InSteps /\ o.step \in Nat
    BY <1>2 DEF NextStep, InSteps, RunType
  <1> DEFINE steps == See(o.inner).phases[o.target].steps
             plan == Loaded.phases[o.target].steps
             Named(j) == IsFirst(plan, plan[j].id, j)
             next(p) ==
                 IF p.step > Len(See(p.inner).phases[p.target].steps)
                 THEN [p EXCEPT !.at = "done", !.inner = Nil, !.target = 0, !.step = 0]
                 ELSE IF See(p.inner).phases[p.target].steps[p.step].completed
                 THEN [p EXCEPT !.step = @ + 1]
                 ELSE [p EXCEPT !.at = "asking"]
             Known == Loaded \in Task /\ ~ o.bereft
  <1>4. PICK q : q = next(run[r])
    OBVIOUS
  <1>5. run' = [run EXCEPT ![r] = q]
    BY <1>4 DEF NextStep, StepAt
  <1>10. q = next(o)
    BY SMTT(40), <1>2, <1>4
  <1>6. ASSUME Known
        PROVE  /\ IsFirst(Loaded.phases, o.id, o.target)
               /\ plan \in Seq(Step) /\ Len(steps) = Len(plan) /\ o.step # 0
               /\ \A j \in DOMAIN plan : j < o.step /\ Named(j) => plan[j].completed
               /\ \A j \in DOMAIN plan : steps[j].completed => plan[j].completed
    BY <1>2, <1>3, <1>6, StepSeen DEF Passed, IInv
  <1>11. q = IF o.step > Len(steps)
             THEN [o EXCEPT !.at = "done", !.inner = Nil, !.target = 0, !.step = 0]
             ELSE IF steps[o.step].completed THEN [o EXCEPT !.step = @ + 1]
             ELSE [o EXCEPT !.at = "asking"]
    BY <1>10
  <1> HIDE DEF steps, next
  <1>7. CASE o.step > Len(steps)
    <2>1. /\ q \in RunType /\ q.at = "done" /\ q.outer = o.outer /\ q.inner = Nil
          /\ q.whole = o.whole /\ q.id = o.id /\ q.bereft = o.bereft
      BY <1>7, <1>11 DEF RunType, Places
    <2>2. Holds(q)'
      BY <1>2, <1>3, <2>1, Distinct DEF Holds, Underway, InPhase, InSteps
    <2>3. ASSUME Known, NEW i \in DOMAIN Loaded.phases,
                 IsFirst(Loaded.phases, o.id, i)
          PROVE  NamedStepsDone(Loaded.phases[i].steps)
      <3>2. Len(Loaded.phases) \in Nat /\ DOMAIN Loaded.phases = 1..Len(Loaded.phases)
        BY <2>3 DEF Task
      <3>3. i = o.target
        BY <1>6, <2>3, <3>2, OnlyFirst
      <3>4. \A j \in DOMAIN plan : j < o.step
        <4> HIDE DEF plan
        <4>1. Len(plan) \in Nat /\ DOMAIN plan = 1..Len(plan) /\ o.step > Len(plan)
          BY <1>6, <1>7, <2>3
        <4> QED BY <1>3, <4>1
      <3> QED BY <1>6, <2>3, <3>3, <3>4 DEF NamedStepsDone
    <2>4. Passed(q)'
      BY <1>1, <2>1, <2>3 DEF Passed, InSteps
    <2> QED BY <1>1, <1>5, <2>1, <2>2, <2>4, OneRuns
  <1>8. CASE ~(o.step > Len(steps)) /\ steps[o.step].completed
    <2>1. /\ q \in RunType /\ q.at = o.at /\ q.outer = o.outer /\ q.inner = o.inner
          /\ q.whole = o.whole /\ q.id = o.id /\ q.target = o.target
          /\ q.step = o.step + 1 /\ q.bereft = o.bereft
      BY SMTT(40), <1>3, <1>8, <1>11 DEF RunType, Places
    <2>2. Holds(q)'
      BY <1>2, <1>3, <2>1, Distinct DEF Holds, Underway, InPhase, InSteps
    <2>3. ASSUME Known, NEW j \in DOMAIN plan, j < o.step + 1, Named(j)
          PROVE  plan[j].completed
      <3>1. j \in Nat
        BY <1>6, <2>3
      <3>2. j < o.step \/ j = o.step
        <4> HIDE DEF plan
        <4> QED BY <1>3, <2>3, <3>1
      <3> QED BY <1>6, <1>8, <2>3, <3>2
    <2>4. Passed(q)'
      <3>1. Known => o.step + 1 # 0
        BY <1>3
      <3> QED BY <1>1, <1>3, <1>6, <2>1, <2>3, <3>1 DEF Passed, InSteps
    <2> QED BY <1>1, <1>5, <2>1, <2>2, <2>4, OneRuns
  <1>9. CASE ~(o.step > Len(steps)) /\ ~ steps[o.step].completed
    <2>1. /\ q \in RunType /\ q.at = "asking" /\ q.outer = o.outer /\ q.inner = o.inner
          /\ q.whole = o.whole /\ q.id = o.id /\ q.target = o.target
          /\ q.step = o.step /\ q.bereft = o.bereft
      BY <1>9, <1>11 DEF RunType, Places
    <2>2. Holds(q)'
      BY <1>2, <1>3, <2>1, Distinct DEF Holds, Underway, InPhase, InSteps
    <2>3. ASSUME Known PROVE o.step \in DOMAIN plan
      <3> HIDE DEF plan
      <3>1. /\ Len(plan) \in Nat /\ DOMAIN plan = 1..Len(plan) /\ ~(o.step > Len(plan))
            /\ o.step # 0
        BY <1>6, <1>9, <2>3
      <3> QED BY <1>3, <3>1
    <2>4. Passed(q)'
      BY <1>1, <1>6, <2>1, <2>3 DEF Passed, InSteps
    <2> QED BY <1>1, <1>5, <2>1, <2>2, <2>4, OneRuns
  <1> QED BY <1>7, <1>8, <1>9

(* A call that the run makes while it is at a step, and after which it goes on *)
(* with q.                                                                  *)
LEMMA GoesKeeps ==
    ASSUME IInv, MemoryMoves, marked' = marked, NEW r \in Runs, NEW answer,
           NEW q \in RunType, Goes(r, answer, q), Holds(q)', Passed(q)'
    PROVE  IInv'
  <1>1. CASE Ends(r)
    BY <1>1, EndsKeeps
  <1>2. CASE ~ Ends(r)
    <2>1. run' = [run EXCEPT ![r] = q]
      BY <1>2 DEF Goes
    <2> QED BY <2>1, OneRuns
  <1> QED BY <1>1, <1>2

LEMMA DecideKeeps ==
    ASSUME IInv, NEW r \in Runs, Decide(r)
    PROVE  MemoryMoves /\ IInv'
  <1>1. PICK q : q = [run[r] EXCEPT !.at = "decided"]
    OBVIOUS
  <1>2. marked' = marked /\ run[r].at = "asking"
    BY DEF Decide
  <1>3. PICK answer \in Answers :
           /\ Goes(r, answer, q)
           /\ \/ UNCHANGED <<active, file, others, faults>>
              \/ Record(WithDecision(Loaded), answer)
    <2>1. Goes(r, "ok", q) /\ UNCHANGED <<active, file, others, faults>> =>
             \E answer \in Answers :
                 Goes(r, answer, q) /\ UNCHANGED <<active, file, others, faults>>
      BY DEF Answers
    <2> QED BY <1>1, <2>1 DEF Decide
  <1>4. MemoryMoves
    <2>1. CASE UNCHANGED <<active, file, others, faults>>
      BY <2>1 DEF MemoryMoves
    <2>2. CASE Record(WithDecision(Loaded), answer)
      <3>1. Loaded \in Task => /\ WithDecision(Loaded) \in Task
                               /\ Covers(Loaded, WithDecision(Loaded))
        BY WithDecisionType, SamePhasesCover
      <3> QED BY <2>2, <3>1, RecordMoves DEF IInv
    <2> QED BY <1>3, <2>1, <2>2
  <1>5. PICK o \in RunType : o = run[r] /\ Holds(o)' /\ Passed(o)'
    BY <1>4, RunBefore
  <1>6. /\ q \in RunType /\ q.at = "decided" /\ q.outer = o.outer /\ q.inner = o.inner
        /\ q.whole = o.whole /\ q.id = o.id /\ q.target = o.target /\ q.step = o.step
        /\ q.bereft = o.bereft
    BY <1>1, <1>5 DEF RunType, Places
  <1>7. Holds(q)'
    BY <1>2, <1>5, <1>6 DEF Holds, Underway, InPhase, InSteps
  <1>8. Passed(q)'
    BY <1>2, <1>5, <1>6 DEF Passed, InSteps
  <1> QED BY <1>2, <1>3, <1>4, <1>6, <1>7, <1>8, GoesKeeps

LEMMA AddFindingKeeps ==
    ASSUME IInv, NEW r \in Runs, AddFinding(r)
    PROVE  MemoryMoves /\ IInv'
  <1>1. marked' = marked /\ (Ends(r) \/ run' = run)
    BY DEF AddFinding
  <1>2. MemoryMoves
    <2>1. CASE Loaded = Nil /\ Panics(Nil)
      BY <2>1 DEF MemoryMoves, Panics
    <2>2. CASE Loaded \in Task /\ Panics(Loaded)
      <3>1. Grows(Loaded)
        BY <2>2, CoversItself DEF Panics, Grows
      <3> QED BY <2>2, <3>1 DEF MemoryMoves
    <2>3. CASE Loaded \in Task /\ \E answer \in Answers : SaveContext(Loaded, answer)
      BY <2>3, CoversItself, SaveMoves DEF IInv
    <2> QED BY <2>1, <2>2, <2>3 DEF AddFinding
  <1> QED BY <1>1, <1>2, EndsKeeps, AllRunsKept

LEMMA FinishStepKeeps ==
    ASSUME IInv, NEW r \in Runs, FinishStep(r)
    PROVE  MemoryMoves /\ IInv'
  <1> DEFINE k == StepAt(r).id
             task == WithStepCompleted(Loaded, run[r].id, k)
  <1>1. marked' = marked /\ run[r].at = "decided"
    BY DEF FinishStep
  <1>2. PICK q : q = [run[r] EXCEPT !.at = "steps", !.step = @ + 1]
    OBVIOUS
  <1>3. PICK answer \in Answers : Change(task, answer) /\ Goes(r, answer, q)
    BY <1>2 DEF FinishStep
  <1>4. PICK o \in RunType : o = run[r] /\ Holds(o) /\ Passed(o)
    BY DEF IInv, RunsKnown
  <1>5. o.id \in Nat /\ o.step \in Nat
    BY DEF RunType
  <1>6. Loaded \in Task => task \in Task /\ Covers(Loaded, task)
    BY <1>4, <1>5, CompletionCovers, WithStepCompletedType
  <1>7. MemoryMoves /\ (Loaded \in Task => Loaded' = task)
    <2> HIDE DEF task
    <2> QED BY <1>3, <1>6, ChangeMoves DEF IInv
  <1>8. Holds(o)' /\ Passed(o)'
    BY <1>4, <1>7, RunBefore
  <1>9. /\ q \in RunType /\ q.at = "steps" /\ q.outer = o.outer /\ q.inner = o.inner
        /\ q.whole = o.whole /\ q.id = o.id /\ q.target = o.target
        /\ q.step = o.step + 1 /\ q.bereft = o.bereft
    <2>1. o.step + 1 \in Nat
      BY SMTT(40), <1>5
    <2> QED BY <1>2, <1>4, <2>1 DEF RunType, Places
  <1>10. Holds(q)'
    BY SMTT(40), <1>1, <1>4, <1>8, <1>9 DEF Holds, Underway, InPhase, InSteps
  <1>11. ASSUME ~ o.bereft, Loaded \in Task
         PROVE  /\ IsFirst(task.phases, o.id, o.target)
                /\ \A j \in DOMAIN task.phases[o.target].steps :
                      LET new == task.phases[o.target].steps
                      IN  j < o.step + 1 /\ IsFirst(new, new[j].id, j) => new[j].completed
    <2> DEFINE t == o.target
               plan == Loaded.phases[t].steps
               new == task.phases[t].steps
    <2>1. /\ t \in DOMAIN Loaded.phases /\ IsFirst(Loaded.phases, o.id, t)
          /\ plan \in Seq(Step) /\ o.step \in DOMAIN plan
          /\ k = plan[o.step].id
      BY ZenonT(40), <1>1, <1>4, <1>11, StepSeen DEF IInv, Passed, InSteps, StepAt
    <2>2. IsFirst(plan, plan[o.step].id, o.step) => new[o.step].completed
      BY ZenonT(40), <1>4, <1>5, <1>11, <2>1, CompletionCovers
    <2>3. IsFirst(task.phases, o.id, t)
      BY SMTT(40), <1>6, <1>11, <2>1, FirstCovered
    <2>4. ASSUME NEW j \in DOMAIN new, j < o.step + 1, IsFirst(new, new[j].id, j)
          PROVE  new[j].completed
      <3>1. j \in DOMAIN plan /\ j \in Nat
        <4>1. DOMAIN new = DOMAIN plan
          BY ZenonT(40), <1>6, <1>11, <2>1 DEF Covers
        <4> HIDE DEF plan, new
        <4> QED BY SMTT(40), <2>1, <2>4, <4>1
      <3>2. IsFirst(plan, plan[j].id, j) /\ (plan[j].completed => new[j].completed)
        <4> HIDE DEF task
        <4> QED BY ZenonT(40), <1>6, <1>11, <2>1, <2>4, <3>1, StepsCovered
      <3>3. j < o.step => new[j].completed
        BY ZenonT(40), <1>1, <1>4, <1>11, <3>1, <3>2 DEF Passed, InSteps
      <3>4. j < o.step \/ j = o.step
        BY <1>5, <2>4, <3>1
      <3> QED BY ZenonT(40), <2>2, <3>2, <3>3, <3>4
    <2> QED BY <2>3, <2>4
  <1>12. Passed(q)'
    <2>1. Loaded' \in Task => Loaded \in Task
      BY <1>7, PlanGrows DEF IInv, LoadedGrows
    <2>2. o.step + 1 # 0
      BY <1>5
    <2> HIDE DEF task
    <2> QED BY <1>7, <1>9, <1>11, <2>1, <2>2 DEF Passed, InSteps
  <1> QED BY <1>1, <1>3, <1>7, <1>9, <1>10, <1>12, GoesKeeps

LEMMA FinishPhaseKeeps ==
    ASSUME IInv, NEW r \in Runs, FinishPhase(r)
    PROVE  MemoryMoves /\ IInv'
  <1> DEFINE id == run[r].id
             task == WithPhaseStatus(Loaded, id, "complete")
             new == [Idle EXCEPT !.at = "phases", !.whole = TRUE,
                                 !.outer = run[r].outer, !.phase = run[r].phase + 1]
             finished == {i \in DOMAIN file'.phases : IsFirst(file'.phases, id, i)}
  <1>1. run[r].at = "done"
    BY DEF FinishPhase
  <1>2. PICK o \in RunType : o = run[r] /\ Holds(o) /\ Passed(o)
    BY DEF IInv, RunsKnown
  <1>3. id \in Nat
    BY <1>2 DEF RunType
  <1>4. Loaded \in Task => task \in Task /\ Covers(Loaded, task)
    BY <1>3, StatusCovers, WithPhaseStatusType DEF PhaseStatus
  <1>5. PICK answer \in Answers :
           /\ Change(task, answer)
           /\ marked' = IF answer # "ok" \/ run[r].bereft THEN marked
                        ELSE marked \cup finished
           /\ IF answer = "ok" /\ run[r].whole
              THEN run' = [run EXCEPT ![r] = new]
              ELSE Ends(r)
    BY Zenon DEF FinishPhase
  <1> HIDE DEF task
  <1>6. /\ MemoryMoves
        /\ Loaded \in Task => Loaded' = task /\ active' = task
        /\ answer = "ok" => Loaded \in Task /\ file' = task
    BY <1>4, <1>5, ChangeMoves DEF IInv
  <1>7. Holds(o)' /\ Passed(o)'
    BY <1>2, <1>6, RunBefore
  <1>8. Memory' /\ FileCovered' /\ MarkedDone'
    <2>1. CASE marked' = marked
      BY <1>6, <2>1, MemoryKept, FileKept DEF IInv, MarkedDone
    <2>2. CASE marked' # marked
      <3>1. /\ answer = "ok" /\ ~ o.bereft /\ marked' = marked \cup finished
            /\ active' = task /\ file' = task /\ Loaded' = task /\ task \in Task
        BY <1>2, <1>4, <1>5, <1>6, <2>2
      <3>2. Memory' /\ FileCovered'
        BY <1>6, <3>1, MemoryKept, CoversItself DEF IInv, FileCovered
      <3>3. \A i \in marked : PhaseDone(task, i)
        BY <1>6, <3>1, FileKept DEF IInv
      <3>4. ASSUME NEW i \in finished PROVE PhaseDone(task, i)
        <4>1. i \in DOMAIN task.phases /\ IsFirst(task.phases, o.id, i)
          BY <1>2, <3>1, <3>4
        <4> QED BY <1>1, <1>2, <1>7, <3>1, <4>1 DEF Passed, PhaseDone
      <3> QED BY <3>1, <3>2, <3>3, <3>4 DEF MarkedDone
    <2> QED BY <2>1, <2>2
  <1>9. run' \in [Runs -> RunType] /\ RunsKnown'
    <2>1. CASE answer = "ok" /\ run[r].whole
      <3>1. PICK q : q = [Idle EXCEPT !.at = "phases", !.whole = TRUE,
                                      !.outer = o.outer, !.phase = o.phase + 1]
        OBVIOUS
      <3>2. run' = [run EXCEPT ![r] = q]
        BY <1>2, <1>5, <2>1, <3>1
      <3>3. /\ o.outer \in Task \cup {Nil, Shared} /\ o.outer # Nil
            /\ o.phase + 1 \in Nat /\ o.phase + 1 # 0
        BY <1>1, <1>2, <2>1 DEF RunType, Holds, Underway
      <3>4. /\ q \in RunType /\ q.at = "phases" /\ q.outer = o.outer /\ q.inner = Nil
            /\ q.phase # 0
        BY <3>1, <3>3 DEF Idle, RunType, Places
      <3>5. Holds(q)' /\ Passed(q)'
        BY <1>7, <3>3, <3>4, Distinct DEF Holds, Passed, Underway, InPhase, InSteps
      <3> QED BY <1>6, <3>2, <3>4, <3>5, RunsKept
    <2>2. CASE ~ (answer = "ok" /\ run[r].whole)
      <3>1. PICK q : q = Idle
        OBVIOUS
      <3>2. run' = [run EXCEPT ![r] = q]
        BY <1>5, <2>2, <3>1 DEF Ends
      <3>3. q \in RunType /\ Holds(q)' /\ Passed(q)'
        BY <3>1, IdleHolds, Distinct
            DEF Idle, RunType, Places, Holds, Passed, Underway, InPhase, InSteps
      <3> QED BY <1>6, <3>2, <3>3, RunsKept
    <2> QED BY <2>1, <2>2
  <1> QED BY <1>6, <1>8, <1>9 DEF IInv

LEMMA AnswerKeeps ==
    ASSUME IInv, NEW r \in Runs, ModelFails(r) \/ CheckCompletion(r)
    PROVE  MemoryMoves /\ IInv'
  <1>1. MemoryMoves /\ marked' = marked /\ Ends(r)
    BY DEF ModelFails, CheckCompletion, Manager, MemoryMoves
  <1> QED BY <1>1, EndsKeeps
-----------------------------------------------------------------------------
(* Other clients, and the process. *)
LEMMA ClientKeeps ==
    ASSUME IInv, NEW p \in PhaseIds,
           \/ \E s \in Statuses : UpdatePhase(p, s)
           \/ \E k \in StepIds : CompleteStep(p, k)
    PROVE  MemoryMoves /\ IInv'
  <1>1. p \in Nat /\ Statuses \subseteq PhaseStatus
    BY DataAssumption, ExecutorAssumption DEF PhaseIds
  <1>2. MemoryMoves /\ run' = run /\ marked' = marked
    <2>1. ASSUME NEW s \in Statuses, UpdatePhase(p, s)
          PROVE  MemoryMoves /\ run' = run /\ marked' = marked
      <3>1. Loaded \in Task => /\ WithPhaseStatus(Loaded, p, s) \in Task
                               /\ Covers(Loaded, WithPhaseStatus(Loaded, p, s))
        BY <1>1, StatusCovers, WithPhaseStatusType
      <3> QED BY <2>1, <3>1, ChangeMoves DEF IInv, UpdatePhase, Client
    <2>2. ASSUME NEW k \in StepIds, CompleteStep(p, k)
          PROVE  MemoryMoves /\ run' = run /\ marked' = marked
      <3>1. Loaded \in Task => /\ WithStepCompleted(Loaded, p, k) \in Task
                               /\ Covers(Loaded, WithStepCompleted(Loaded, p, k))
        BY <1>1, CompletionCovers, WithStepCompletedType
      <3> QED BY <2>2, <3>1, ChangeMoves DEF IInv, CompleteStep, Client
    <2> QED BY <2>1, <2>2
  <1> QED BY <1>2, AllRunsKept

(* A run in a phase is bereft from here on; the others hold no context but the *)
(* one of their loop over the phases.                                       *)
LEMMA DeleteTaskKeeps ==
    ASSUME IInv, DeleteTask
    PROVE  IInv'
  <1>0. active' = Absent /\ file' \in {file, Nil} /\ marked' = marked
    BY DEF DeleteTask
  <1>1. Memory' /\ FileCovered' /\ MarkedDone'
    BY <1>0, Distinct DEF IInv, Memory, FileCovered, MarkedDone
  <1>2. ASSUME NEW r \in Runs
        PROVE  run'[r] \in RunType /\ Holds(run[r])' /\ Passed(run[r])'
    <2>1. PICK o \in RunType : o = run[r] /\ Holds(o)
      BY DEF IInv, RunsKnown
    <2>2. /\ o.outer \in Task \cup {Nil, Shared}
          /\ o.inner \in Task \cup {Nil, Shared}
      BY DEF RunType
    <2>3. PICK x : x = Detached(o.outer)
      OBVIOUS
    <2>4. PICK y : y = Detached(o.inner)
      OBVIOUS
    <2>5. PICK b \in BOOLEAN : b = (o.bereft \/ o.at \in InPhase)
      OBVIOUS
    <2>6. /\ x \in Task \cup {Nil} /\ y \in Task \cup {Nil}
          /\ o.outer # Nil => x # Nil
          /\ o.inner = Nil <=> y = Nil
          /\ o.outer = Nil => x = Nil
      BY <2>1, <2>2, <2>3, <2>4, Distinct DEF Detached, Holds, IInv, Memory
    <2>7. PICK q : q = [o EXCEPT !.outer = x, !.inner = y, !.bereft = b]
      OBVIOUS
    <2>8. run'[r] = q
      BY <2>1, <2>3, <2>4, <2>5, <2>7, Zenon DEF DeleteTask
    <2>9. /\ q \in RunType /\ q.at = o.at /\ q.outer = x /\ q.inner = y
          /\ q.whole = o.whole /\ q.phase = o.phase /\ q.bereft = b
      BY <2>6, <2>7 DEF RunType
    <2>10. q.at = "idle" => q = Idle
      <3>1. ASSUME o = Idle PROVE q = Idle
        <4>1. o.at \notin InPhase /\ o.bereft = FALSE /\ o.outer = Nil /\ o.inner = Nil
          BY <3>1 DEF Idle, InPhase
        <4>2. x = Nil /\ y = Nil /\ b = FALSE
          BY <2>5, <2>6, <4>1
        <4> QED BY <2>7, <3>1, <4>2 DEF Idle
      <3> QED BY <2>1, <2>9, <3>1 DEF Holds
    <2>11. ~ b => o.at \notin InPhase
      BY <2>5
    <2>12. file = Nil => file' = Nil
      BY <1>0
    <2>13. Holds(q)'
      BY <1>0, <2>1, <2>6, <2>9, <2>10, <2>11, <2>12, Distinct DEF Holds, InPhase
    <2>14. Passed(q)'
      BY <2>9, <2>11 DEF Passed, InPhase, InSteps
    <2> QED BY <2>8, <2>9, <2>13, <2>14 DEF Holds, Passed
  <1>3. run' \in [Runs -> RunType]
    BY <1>2 DEF DeleteTask
  <1> QED BY <1>1, <1>2, <1>3 DEF IInv, RunsKnown

LEMMA RestartKeeps ==
    ASSUME IInv, Restart
    PROVE  IInv'
  <1>1. Memory' /\ FileCovered' /\ MarkedDone'
    BY Distinct DEF Restart, IInv, Memory, FileCovered, MarkedDone
  <1>2. PICK q : q = Idle
    OBVIOUS
  <1>3. q \in RunType /\ Holds(q)' /\ Passed(q)'
    BY <1>2, IdleHolds, Distinct
        DEF Idle, RunType, Places, Holds, Passed, Underway, InPhase, InSteps
  <1>4. run' \in [Runs -> RunType] /\ \A r \in Runs : run'[r] = q
    BY <1>2, <1>3 DEF Restart
  <1>5. RunsKnown'
    BY <1>3, <1>4 DEF RunsKnown, Holds, Passed
  <1> QED BY <1>1, <1>4, <1>5 DEF IInv
-----------------------------------------------------------------------------
(* Whatever runs, clients and failures do, what is known of the pointers that *)
(* runs hold, of the steps they have passed and of the file stays true.     *)
LEMMA NextKeeps ==
    ASSUME IInv, Next
    PROVE  IInv' /\ (MemoryMoves \/ DeleteTask \/ Restart)
  <1>1. ASSUME NEW r \in Runs, RequestTask(r) PROVE MemoryMoves /\ IInv'
    BY <1>1, RequestTaskKeeps
  <1>2. ASSUME NEW r \in Runs, NEW p \in PhaseIds, RequestPhase(r, p)
        PROVE  MemoryMoves /\ IInv'
    <2>1. p \in Nat
      BY DataAssumption DEF PhaseIds
    <2> QED BY <1>2, <2>1, RequestPhaseKeeps
  <1>3. ASSUME NEW r \in Runs, RunStep(r) PROVE MemoryMoves /\ IInv'
    BY <1>3, NextPhaseKeeps, FetchContextKeeps, StartPhaseKeeps,
       NextStepKeeps, DecideKeeps, FinishStepKeeps, FinishPhaseKeeps,
       AnswerKeeps DEF RunStep
  <1>4. ASSUME NEW r \in Runs, ModelFails(r) \/ AddFinding(r) PROVE MemoryMoves /\ IInv'
    BY <1>4, AnswerKeeps, AddFindingKeeps
  <1>5. ASSUME NEW p \in PhaseIds,
               \/ \E s \in Statuses : UpdatePhase(p, s)
               \/ \E k \in StepIds : CompleteStep(p, k)
        PROVE  MemoryMoves /\ IInv'
    BY <1>5, ClientKeeps
  <1>6. CASE DeleteTask
    BY <1>6, DeleteTaskKeeps
  <1>7. CASE Restart
    BY <1>7, RestartKeeps
  <1> QED BY <1>1, <1>2, <1>3, <1>4, <1>5, <1>6, <1>7 DEF Next

THEOREM Invariance == Spec => []IInv
  <1>1. IInv /\ [Next]_vars => IInv'
    <2>1. ASSUME IInv, UNCHANGED vars PROVE IInv'
      <3>1. MemoryMoves /\ run' = run /\ marked' = marked
        BY <2>1 DEF vars, MemoryMoves
      <3> QED BY <2>1, <3>1, AllRunsKept
    <2> QED BY <2>1, NextKeeps
  <1> QED BY <1>1, InitHolds, PTL DEF Spec

(* A phase that a run has marked complete and saved has no open step that a   *)
(* completion would reach by its id, in memory or on disk, however many runs  *)
(* and clients there are, whatever copies of the plan the runs work from, and *)
(* whatever ids the planner gave to phases and steps.  A deletion may fail at  *)
(* any time; the phases then under way do not count.                         *)
THEOREM MarkedAreDone == Spec => []MarkedPhasesAreDone
  <1>1. IInv => MarkedPhasesAreDone
    BY DEF IInv, MarkedDone, PhaseDone, MarkedPhasesAreDone
  <1> QED BY <1>1, Invariance, PTL

(* A step whose completion is saved stays completed on disk until the task is *)
(* deleted or the file torn: what a step of the system writes to the file     *)
(* covers what was there.                                                    *)
THEOREM StepsStayDone == Spec => SavedStepsStayDone
  <1> DEFINE Stays == {file, file'} \subseteq Task =>
                \A i \in DOMAIN file.phases : \A j \in DOMAIN file.phases[i].steps :
                    StepDone(file, i, j) => StepDone(file', i, j)
  <1>1. IInv /\ [Next]_vars => [Stays]_vars
    <2> SUFFICES ASSUME IInv, Next, {file, file'} \subseteq Task PROVE Stays
      BY DEF vars
    <2>1. CASE file' = file
      BY <2>1
    <2>2. CASE file' # file
      <3>1. MemoryMoves
        BY <2>2, Distinct, NextKeeps DEF DeleteTask, Restart
      <3>2. PICK task \in Task : Grows(task) /\ file' = task
        BY <2>2, <3>1, Distinct DEF MemoryMoves, Grows
      <3>3. Covers(file, Loaded) \/ Untouched(file)
        BY <3>2, LoadedType, CoversItself, Distinct DEF IInv, Memory, FileCovered, Grows
      <3>4. Covers(file, task) \/ Untouched(file)
        BY <3>2, <3>3, CoversOn DEF Grows
      <3> QED BY <3>2, <3>4 DEF Covers, Untouched, StepDone
    <2> QED BY <2>1, <2>2
  <1> QED BY <1>1, Invariance, PTL DEF Spec, SavedStepsStayDone
=============================================================================
