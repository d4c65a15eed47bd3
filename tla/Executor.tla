------------------------------ MODULE Executor ------------------------------
(***************************************************************************)
(* pkg/task/executor.go driven by pkg/task/service.go: runs that work      *)
(* through the plan of one task, against the Manager's memory and its files, *)
(* while other callers change the same plan or delete the task, writes     *)
(* fail half-way, or the process dies.                                     *)
(*                                                                         *)
(* A run holds pointers.  GetTaskContext answers with the cached context,  *)
(* so that the run sees every later change, or, when the task is not in    *)
(* the cache (after a restart), with a private copy loaded from the files  *)
(* that nobody updates.  The contents of task.json are modelled; of        *)
(* findings.json and progress.json, whether they can be read.              *)
(***************************************************************************)
EXTENDS TaskContext, FiniteSets

CONSTANTS
    Runs,       \* requests that may execute the task at the same time
    Plans,      \* what the planner can answer
    Absent,     \* the task is not in Manager.activeTasks
    Shared,     \* a pointer to the context in Manager.activeTasks
    Corrupt,    \* a task.json that was truncated and not written, or the
                \* error of a load that meets a file like that
    Statuses,   \* the phase statuses that other clients set
    MaxDecisions, \* bound on the decisions recorded with the task
    MaxCalls,   \* bound on the calls of other clients
    MaxFaults   \* bound on failed writes, failed model calls and restarts

\* The ids of a phase and of its steps are the language model's.
PlanPhase == [id: Nat, steps: Seq(Nat)]

ASSUME ExecutorAssumption ==
    /\ Plans \subseteq Seq(PlanPhase)
    /\ Statuses \subseteq PhaseStatus
    /\ MaxDecisions \in Nat
    /\ MaxCalls \in Nat
    /\ MaxFaults \in Nat
    /\ Absent \notin Task \cup {Nil, Shared}
    /\ Shared \notin Task \cup {Nil}
    /\ Corrupt \notin Task \cup {Nil, Absent, Shared}

VARIABLES
    active,     \* the task in Manager.activeTasks: Absent, or Nil for a nil Task
    file,       \* task.json: a task, Corrupt, or Nil
    others,     \* of findings.json and progress.json, one is "torn", one is "gone"
    run,        \* the state of each request
    marked,     \* positions of phases a run has marked complete and saved
    calls, faults

vars == <<active, file, others, run, marked, calls, faults>>

\* bereft: a deletion dropped the cached context under the phase the run is in.
Idle == [at |-> "idle", whole |-> FALSE, outer |-> Nil, inner |-> Nil, phase |-> 0,
         id |-> 0, target |-> 0, step |-> 0, bereft |-> FALSE]
-----------------------------------------------------------------------------
(* Service.CreateTask: the manager saves a task with the default plan; the  *)
(* planner's phases replace it in memory, and the error of the second       *)
(* SaveTask is dropped.  The id is known to callers from here on.           *)

ConvertToTaskPhases(plan) ==
    [i \in DOMAIN plan |->
        [id |-> plan[i].id, status |-> "pending",
         steps |-> [j \in DOMAIN plan[i].steps |->
                        [id |-> plan[i].steps[j], completed |-> FALSE]]]]

Planned(plan) ==
    IF plan = <<>> THEN NewContext.task
    ELSE [NewContext.task EXCEPT !.phases = ConvertToTaskPhases(plan),
                                 !.currentPhase = plan[1].id]

Init ==
    /\ \E plan \in Plans :
        /\ active = Planned(plan)
        /\ \/ file = Planned(plan)
           \/ plan # <<>> /\ file \in {NewContext.task, Corrupt}
    /\ others = {}
    /\ run = [r \in Runs |-> Idle]
    /\ marked = {}
    /\ calls = 0
    /\ faults = 0
-----------------------------------------------------------------------------
(* The manager, seen from a run. *)

\* getOrLoadContext: a file that does not parse is an error, and nothing is cached.
Loaded ==
    IF active # Absent THEN active
    ELSE IF "torn" \in others THEN Corrupt
    ELSE file

GetTask == IF active = Absent THEN file ELSE active
GetTaskContext == IF active \in {Absent, Nil} THEN Loaded ELSE Shared
See(p) == IF p = Shared THEN active ELSE p
Fault == faults < MaxFaults /\ faults' = faults + 1

\* SaveContext writes task.json first; a write that fails leaves its file as
\* it was, truncated, or written, and those after it as they were.
SaveContext(task, answer) ==
    /\ active' = task
    /\ \/ /\ answer = "ok"
          /\ file' = task
          /\ others' = others \ {"torn"}
          /\ UNCHANGED faults
       \/ /\ answer = "error"
          /\ Fault
          /\ \/ file' \in {file, Corrupt} /\ UNCHANGED others
             \/ file' = task /\ others' \in {others, others \ {"torn"}, others \cup {"torn"}}

\* A call that finds a nil part of the context: the handler panics and the
\* router recovers.
Panics(task) == active' = task /\ UNCHANGED <<file, others, faults>>

Answers == {"ok", "error", "panic"}

\* AddDecision.
Record(task, answer) ==
    \/ answer = "error" /\ Loaded = Corrupt /\ UNCHANGED <<active, file, others, faults>>
    \/ answer = "panic" /\ Loaded = Nil /\ Panics(Nil)
    \/ Loaded \in Task /\ SaveContext(task, answer)

\* UpdatePhaseStatus and CompleteStep, which write down the progress between
\* the change to the plan and the save.
Change(task, answer) ==
    \/ answer = "panic" /\ Loaded \in Task /\ "gone" \in others /\ Panics(task)
    \/ Record(task, answer)

\* The run is over: it has answered, failed or panicked.
Ends(r) == run' = [run EXCEPT ![r] = Idle]

Manager == <<active, file, others, marked, calls, faults>>
-----------------------------------------------------------------------------
(* Executor.ExecuteTask and ExecutePhase.  A run is a request to execute    *)
(* the whole task, or a single phase.  Service.ExecuteTask answers "task    *)
(* not found" when GetTask finds none; ExecuteSession does not ask.         *)

\* ExecuteTask sets the status without Manager.mu and without saving it; an
\* error, or a nil Task and a panic, end it.
RequestTask(r) ==
    LET p == GetTaskContext
    IN  /\ run[r].at = "idle"
        /\ \/ p \in {Nil, Corrupt} /\ Ends(r) /\ UNCHANGED active
           \/ /\ p \notin {Nil, Corrupt}
              /\ active' = IF p = Shared THEN [active EXCEPT !.status = "in_progress"]
                           ELSE active
              /\ run' = [run EXCEPT ![r].at = "phases", ![r].whole = TRUE, ![r].phase = 1,
                            ![r].outer = IF p = Shared THEN p
                                         ELSE [p EXCEPT !.status = "in_progress"]]
        /\ UNCHANGED <<file, others, marked, calls, faults>>

RequestPhase(r, p) ==
    /\ run[r].at = "idle"
    /\ GetTask \in Task
    /\ run' = [run EXCEPT ![r].at = "fetch", ![r].id = p]
    /\ UNCHANGED Manager

\* The loop over the phases: each is read when its turn comes.
FaultyNextPhase(r) ==  \* takes pending phases only
    LET phases == See(run[r].outer).phases
        i == run[r].phase
    IN  /\ run[r].at = "phases"
        /\ run' = [run EXCEPT ![r] =
                IF i > Len(phases) THEN [@ EXCEPT !.at = "check", !.outer = Nil]
                ELSE IF phases[i].status # "pending" THEN [@ EXCEPT !.phase = i + 1]
                ELSE [@ EXCEPT !.at = "fetch", !.id = phases[i].id]]
        /\ UNCHANGED Manager

NextPhase(r) ==
    LET phases == See(run[r].outer).phases
        i == run[r].phase
    IN  /\ run[r].at = "phases"
        /\ run' = [run EXCEPT ![r] =
                IF i > Len(phases) THEN [@ EXCEPT !.at = "check", !.outer = Nil]
                ELSE IF phases[i].status = "complete" THEN [@ EXCEPT !.phase = i + 1]
                ELSE [@ EXCEPT !.at = "fetch", !.id = phases[i].id]]
        /\ UNCHANGED Manager

FetchContext(r) ==
    /\ run[r].at = "fetch"
    /\ \/ GetTaskContext = Corrupt /\ Ends(r)
       \/ /\ GetTaskContext # Corrupt
          /\ run' = [run EXCEPT ![r].at = "start", ![r].inner = GetTaskContext]
    /\ UNCHANGED Manager

\* StartPhase, then the search for the phase in the context fetched before.
StartPhase(r) ==
    LET id == run[r].id
        phases == (IF run[r].inner = Shared THEN active' ELSE run[r].inner).phases
        found == {i \in DOMAIN phases : IsFirst(phases, id, i)}
    IN  /\ run[r].at = "start"
        /\ \E answer \in Answers :
            /\ Change(WithPhaseStatus(Loaded, id, "in_progress"), answer)
            /\ IF answer # "ok" THEN Ends(r)
               ELSE \/ found = {} /\ Ends(r)   \* phase not found
                    \/ \E i \in found :
                        run' = [run EXCEPT ![r].at = "steps", ![r].target = i, ![r].step = 1]
        /\ UNCHANGED <<marked, calls>>

StepAt(r) == See(run[r].inner).phases[run[r].target].steps[run[r].step]

\* The loop over the steps: an open step is put to the language model.  The
\* context fetched for the phase is not used after its last step.
FaultyNextStep(r) ==  \* leaves the phase at its last step
    /\ run[r].at = "steps"
    /\ run' = [run EXCEPT ![r] =
            IF run[r].step >= Len(See(@.inner).phases[@.target].steps)
            THEN [@ EXCEPT !.at = "done", !.inner = Nil, !.target = 0, !.step = 0]
            ELSE IF StepAt(r).completed THEN [@ EXCEPT !.step = run[r].step + 1]
            ELSE [@ EXCEPT !.at = "asking"]]
    /\ UNCHANGED Manager

NextStep(r) ==
    /\ run[r].at = "steps"
    /\ run' = [run EXCEPT ![r] =
            IF run[r].step > Len(See(@.inner).phases[@.target].steps)
            THEN [@ EXCEPT !.at = "done", !.inner = Nil, !.target = 0, !.step = 0]
            ELSE IF StepAt(r).completed THEN [@ EXCEPT !.step = run[r].step + 1]
            ELSE [@ EXCEPT !.at = "asking"]]
    /\ UNCHANGED Manager

ModelFails(r) ==
    /\ run[r].at = "asking"
    /\ Fault
    /\ Ends(r)
    /\ UNCHANGED <<active, file, others, marked, calls>>

\* A call whose error is dropped: only a panic ends the run.
Goes(r, answer, new) == IF answer = "panic" THEN Ends(r) ELSE run' = [run EXCEPT ![r] = new]

\* The model decides; a decision that gives its reasons is recorded.
Decide(r) ==
    LET decided == [run[r] EXCEPT !.at = "decided"]
    IN  /\ run[r].at = "asking"
        /\ \/ Goes(r, "ok", decided) /\ UNCHANGED <<active, file, others, faults>>
           \/ /\ Loaded \in Task => Loaded.decisions < MaxDecisions
              /\ \E answer \in Answers :
                    Record(WithDecision(Loaded), answer) /\ Goes(r, answer, decided)
        /\ UNCHANGED <<marked, calls>>

\* A finding of the decision; the plan is saved along with it.
AddFinding(r) ==
    /\ run[r].at = "decided"
    /\ \/ /\ Loaded = Nil \/ (Loaded \in Task /\ "gone" \in others)
          /\ Panics(Loaded)
          /\ Ends(r)
       \/ /\ \/ Loaded = Nil /\ Panics(Nil)   \* only task.json is gone
             \/ Loaded \in Task /\ \E answer \in Answers : SaveContext(Loaded, answer)
          /\ UNCHANGED run
    /\ UNCHANGED <<marked, calls>>

\* CompleteStep.
FaultyFinishStep(r) ==  \* saves the plan the run holds, if it has one of its own
    LET held == IF run[r].bereft THEN Loaded ELSE See(run[r].inner)
    IN  /\ run[r].at = "decided"
        /\ \E answer \in Answers :
            /\ Change(WithStepCompleted(held, run[r].id, StepAt(r).id), answer)
            /\ Goes(r, answer, [run[r] EXCEPT !.at = "steps", !.step = @ + 1])
        /\ UNCHANGED <<marked, calls>>

FinishStep(r) ==
    /\ run[r].at = "decided"
    /\ \E answer \in Answers :
        /\ Change(WithStepCompleted(Loaded, run[r].id, StepAt(r).id), answer)
        /\ Goes(r, answer, [run[r] EXCEPT !.at = "steps", !.step = @ + 1])
    /\ UNCHANGED <<marked, calls>>

FinishPhase(r) ==
    LET id == run[r].id
    IN  /\ run[r].at = "done"
        /\ \E answer \in Answers :
            /\ Change(WithPhaseStatus(Loaded, id, "complete"), answer)
            /\ marked' = IF answer # "ok" \/ run[r].bereft THEN marked
                         ELSE marked \cup {i \in DOMAIN file'.phases :
                                                IsFirst(file'.phases, id, i)}
            /\ IF answer = "ok" /\ run[r].whole
               THEN run' = [run EXCEPT ![r] =
                        [Idle EXCEPT !.at = "phases", !.whole = TRUE,
                                     !.outer = run[r].outer, !.phase = run[r].phase + 1]]
               ELSE Ends(r)
        /\ UNCHANGED calls

\* CheckCompletion reads the plan for the message of the answer, which goes
\* out with the status the task has by then.  Service.ExecuteTask does not
\* expect this last GetTask to find none, or to fail, and panics;
\* ExecuteSession reports "pending".
CheckCompletion(r) ==
    /\ run[r].at = "check"
    /\ Ends(r)
    /\ UNCHANGED Manager
-----------------------------------------------------------------------------
(* Other clients of the service, and the process. *)

Call == calls < MaxCalls /\ calls' = calls + 1

Client(task) ==
    /\ Call
    /\ \E answer \in Answers : Change(task, answer)
    /\ UNCHANGED <<run, marked>>

UpdatePhase(p, s) == Client(WithPhaseStatus(Loaded, p, s))
CompleteStep(p, k) == Client(WithStepCompleted(Loaded, p, k))

\* A run that shares the cached context keeps it when the cache drops it.
Detached(p) == IF p = Shared THEN active ELSE p
InPhase == {"start", "steps", "asking", "decided", "done"}

\* The cached context goes first; the removal of the files may stop half-way.
DeleteTask ==
    /\ Call
    /\ active' = Absent
    /\ \/ file' = Nil /\ others' = {"gone"} /\ UNCHANGED faults
       \/ /\ Fault
          /\ file' \in {file, Nil}
          /\ others' \in {others, others \cup {"gone"}, {"gone"}}
    /\ run' = [r \in Runs |-> [run[r] EXCEPT !.outer = Detached(@), !.inner = Detached(@),
                                             !.bereft = @ \/ run[r].at \in InPhase]]
    /\ UNCHANGED marked

\* A death during a save is a save that fails, and this before its answer is seen.
Restart ==
    /\ Fault
    /\ active' = Absent
    /\ run' = [r \in Runs |-> Idle]
    /\ UNCHANGED <<file, others, marked, calls>>

PhaseIds == 1..(NPhases + 1)
StepIds == 1..NSteps

RunStep(r) ==
    \/ NextPhase(r) \/ FetchContext(r) \/ StartPhase(r) \/ NextStep(r)
    \/ Decide(r) \/ FinishStep(r) \/ FinishPhase(r) \/ CheckCompletion(r)

Next ==
    \/ \E r \in Runs :
        \/ RequestTask(r)
        \/ \E p \in PhaseIds : RequestPhase(r, p)
        \/ RunStep(r)
        \/ ModelFails(r)
        \/ AddFinding(r)
    \/ \E p \in PhaseIds : \/ \E s \in Statuses : UpdatePhase(p, s)
                           \/ \E k \in StepIds : CompleteStep(p, k)
    \/ DeleteTask
    \/ Restart

Spec == Init /\ [][Next]_vars

(* A run that was accepted goes on, its model calls end, and its caller     *)
(* asks for the whole task again and again.                                 *)
RetrySpec ==
    /\ Spec
    /\ \A r \in Runs : WF_vars(RunStep(r)) /\ SF_vars(RequestTask(r))
-----------------------------------------------------------------------------
(* A phase that a run has marked complete and saved has no step left that    *)
(* CompleteStep can reach by its id, in memory and on disk, although the run  *)
(* may have worked from a copy of the plan that others were changing, and    *)
(* although it ignores the errors of the calls that complete its steps.  A   *)
(* second step with the same id stays open.  A phase that was under way when *)
(* a deletion dropped the cached context does not count: if the deletion     *)
(* failed, the run goes on with what was on disk.                           *)
NamedStepsDone(steps) ==
    \A j \in DOMAIN steps : IsFirst(steps, steps[j].id, j) => steps[j].completed

MarkedPhasesAreDone ==
    \A i \in marked : \A task \in {active, file} \cap Task :
        i \in DOMAIN task.phases /\ NamedStepsDone(task.phases[i].steps)

(* A step whose completion is saved stays completed on disk until the task  *)
(* is deleted or the file torn: a run never writes its own copy of the plan *)
(* back over what other callers have done since.                            *)
StepDone(task, i, j) ==
    /\ i \in DOMAIN task.phases
    /\ j \in DOMAIN task.phases[i].steps
    /\ task.phases[i].steps[j].completed

SavedStepsStayDone ==
    [][{file, file'} \subseteq Task =>
        \A i \in DOMAIN file.phases : \A j \in DOMAIN file.phases[i].steps :
            StepDone(file, i, j) => StepDone(file', i, j)]_vars

(* A caller that keeps asking for the whole task gets it completed, whatever *)
(* a bounded number of failed writes, failed model calls, restarts and      *)
(* changes by others does in between, unless the task is deleted, also in   *)
(* part, a restart meets a file that was torn before it, or the plan uses   *)
(* one phase id twice.                                                      *)
UniqueIds(phases) ==
    \A i, j \in DOMAIN phases : phases[i].id = phases[j].id => i = j

RetriedRunsFinish ==
    <>(Loaded \in {Nil, Corrupt} \/ "gone" \in others
       \/ AllComplete(Loaded.phases) \/ ~ UniqueIds(Loaded.phases))
=============================================================================
