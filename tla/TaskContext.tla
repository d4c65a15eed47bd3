---------------------------- MODULE TaskContext ----------------------------
(***************************************************************************)
(* The data of a task (pkg/task/types.go, constant/task.go) and the pure   *)
(* part of every Manager operation: how a handler changes the plan, the    *)
(* findings or the progress log of one task.  Texts, names and timestamps  *)
(* are left out; a log is represented by its length.                       *)
(***************************************************************************)
EXTENDS Naturals, Sequences

CONSTANTS
    NPhases,    \* phases of the default plan (5 in the code)
    NSteps,     \* steps of each default phase (3 in the code)
    Threshold,  \* TaskManagerConfig.RereadThreshold
    Nil         \* a nil pointer: a part of a context that is not there

PhaseStatus == {"pending", "in_progress", "complete", "failed"}
TaskStatus == {"pending", "in_progress", "completed", "failed", "cancelled"}

Step == [id: Nat, completed: BOOLEAN]
Phase == [id: Nat, status: PhaseStatus, steps: Seq(Step)]

Task == [status: TaskStatus, currentPhase: Nat, phases: Seq(Phase),
         toolCalls: Nat, needsReread: BOOLEAN, errors: Nat, decisions: Nat]
Findings == [findings: Nat, resources: Nat]
Progress == [entries: Nat, errorLog: Nat, testResults: Nat]

\* A TaskContext: three pointers, each of which may be nil.
Context == [task: Task \cup {Nil}, findings: Findings \cup {Nil},
            progress: Progress \cup {Nil}]
EmptyContext == [task |-> Nil, findings |-> Nil, progress |-> Nil]

ASSUME DataAssumption ==
    /\ NPhases \in Nat \ {0}
    /\ NSteps \in Nat
    /\ Threshold \in Nat \ {0}
    /\ Nil \notin Task \cup Findings \cup Progress
-----------------------------------------------------------------------------
(* The plan a new task starts with. *)
DefaultPhases ==
    [i \in 1..NPhases |->
        [id |-> i, status |-> "pending",
         steps |-> [j \in 1..NSteps |-> [id |-> j, completed |-> FALSE]]]]

NewContext ==
    [task |-> [status |-> "pending", currentPhase |-> 1, phases |-> DefaultPhases,
               toolCalls |-> 0, needsReread |-> FALSE, errors |-> 0, decisions |-> 0],
     findings |-> [findings |-> 0, resources |-> 0],
     progress |-> [entries |-> 0, errorLog |-> 0, testResults |-> 0]]

(* Position i holds the first element of s with this id: what a loop that   *)
(* breaks at its first match finds.                                         *)
IsFirst(s, id, i) ==
    /\ i \in DOMAIN s
    /\ s[i].id = id
    /\ \A j \in 1..(i - 1) : s[j].id # id

AllComplete(phases) == \A i \in DOMAIN phases : phases[i].status = "complete"
AllStepsDone(steps) == \A j \in DOMAIN steps : steps[j].completed

(* Completing phase p opens the one after it, whatever its status was. *)
Opened(phases, p, s, i) == s = "complete" /\ IsFirst(phases, p, i - 1)

PhasesAfterStatus(phases, p, s) ==
    [i \in DOMAIN phases |->
        [phases[i] EXCEPT !.status =
            IF Opened(phases, p, s, i) THEN "in_progress"
            ELSE IF IsFirst(phases, p, i) THEN s ELSE @]]

\* A variant with a seeded fault: it looks for open phases before it opens
\* the next one.
FaultyWithPhaseStatus(task, p, s) ==
    LET phases == PhasesAfterStatus(task.phases, p, s)
    IN  [task EXCEPT
            !.phases = phases,
            !.status = IF \A i \in DOMAIN phases : \/ task.phases[i].status = "complete"
                                                   \/ phases[i].status = "complete"
                       THEN "completed" ELSE @]

(* UpdatePhaseStatus: set the phase, open the next one, complete the task   *)
(* when no phase is left.                                                   *)
WithPhaseStatus(task, p, s) ==
    LET phases == PhasesAfterStatus(task.phases, p, s)
        opened == {i \in DOMAIN phases : Opened(task.phases, p, s, i)}
    IN  [task EXCEPT
            !.phases = phases,
            !.currentPhase = IF opened = {} THEN @
                             ELSE phases[CHOOSE i \in opened : TRUE].id,
            !.status = IF AllComplete(phases) THEN "completed" ELSE @]

(* CompleteStep: mark the step; a phase with no open step left is complete. *)
StepsAfterCompletion(steps, k) ==
    [j \in DOMAIN steps |->
        [steps[j] EXCEPT !.completed = @ \/ IsFirst(steps, k, j)]]

WithStepCompleted(task, p, k) ==
    [task EXCEPT !.phases =
        [i \in DOMAIN task.phases |->
            IF ~ IsFirst(task.phases, p, i) THEN task.phases[i]
            ELSE LET steps == StepsAfterCompletion(task.phases[i].steps, k)
                 IN  [task.phases[i] EXCEPT
                        !.steps = steps,
                        !.status = IF AllStepsDone(steps) THEN "complete" ELSE @]]]

WithError(task) == [task EXCEPT !.errors = @ + 1]
WithDecision(task) == [task EXCEPT !.decisions = @ + 1]
WithReread(task, flag) == [task EXCEPT !.needsReread = flag]

(* IncrementToolCallCount: at the threshold the count starts over and the   *)
(* plan is marked for rereading.                                            *)
WithToolCall(task) ==
    IF task.toolCalls + 1 >= Threshold
    THEN [task EXCEPT !.toolCalls = 0, !.needsReread = TRUE]
    ELSE [task EXCEPT !.toolCalls = @ + 1]

WithFinding(findings) == [findings EXCEPT !.findings = @ + 1]
WithResource(findings) == [findings EXCEPT !.resources = @ + 1]
WithEntry(progress) == [progress EXCEPT !.entries = @ + 1]
FaultyWithLoggedError(progress) == [progress EXCEPT !.entries = @ + 1]
WithLoggedError(progress) == [progress EXCEPT !.errorLog = @ + 1]
WithTestResult(progress) == [progress EXCEPT !.testResults = @ + 1]
=============================================================================
