------------------------------ MODULE Sessions ------------------------------
(***************************************************************************)
(* The rules a session keeps for the agent that works on its task            *)
(* (pkg/task/executor.go): reread the plan after so many tool calls, save    *)
(* findings after two looks, escalate an error at its third strike, stop only *)
(* when every phase is complete, try a step no more than MaxRetries times.   *)
(*                                                                         *)
(* One session and its task.  The manager's operations are atomic, the hooks *)
(* that call them are not, and the tracker's counts are a map without a lock. *)
(* The task is cached from its creation on, so that GetTask and              *)
(* GetTaskContext give out the one live task; a failed save is an error in   *)
(* the answer and the change stays.  Deletion and restarts are TaskManager's. *)
(***************************************************************************)
EXTENDS TaskContext, FiniteSets, SequencesExt

CONSTANTS
    Callers,
    Keys,       \* what the agent tells errors apart by
    MaxRetries, \* ExecutorConfig.MaxRetries
    Mixes,      \* sets of the rules whose calls are made side by side
    MaxLog,     \* bound on the length of the log
    MaxChanges  \* bound on the phase changes of other clients

Rules == {"attention", "track", "resolve", "step", "check"}

ASSUME SessionsAssumption ==
    /\ IsFiniteSet(Callers)
    /\ Mixes \subseteq SUBSET Rules
    /\ MaxRetries \in Nat \ {0}
    /\ MaxLog \in Nat
    /\ MaxChanges \in Nat
    /\ "none" \notin Keys

VARIABLES
    rules,      \* the mix of this behaviour
    task,       \* Nil until StartSession has created it
    views,      \* Manager.viewActionCount of the task
    log,        \* the task's errors
    strikes,    \* ErrorTracker.errorCounts of the task
    at,         \* the step each caller is at
    call,       \* its local variables
    crashed,    \* two goroutines met in the tracker's map
    (* For the properties and the bounds: *)
    quiet,      \* tool calls since a hook last saw the plan marked for rereading
    met,        \* two calls of the tracker have overlapped
    room,       \* entries the calls so far may add to the log
    changes     \* phase changes of other clients

vars == <<rules, task, views, log, strikes, at, call, crashed, quiet, met, room, changes>>

Idle == [key |-> "none", attempt |-> 0, seen |-> 0, start |-> 0, last |-> "none",
         failed |-> {}, changed |-> FALSE, going |-> {}]

Init ==
    /\ rules \in Mixes
    /\ task = Nil
    /\ views = 0
    /\ log = <<>>
    /\ strikes = [k \in Keys |-> 0]
    /\ at = [c \in Callers |-> "idle"]
    /\ call = [c \in Callers |-> Idle]
    /\ crashed = FALSE
    /\ quiet = 0
    /\ met = FALSE
    /\ room = 0
    /\ changes = 0

Go(c, place) == at' = [at EXCEPT ![c] = place]
Begin(c, place, locals) ==
    /\ task # Nil
    /\ at[c] = "idle"
    /\ Go(c, place)
    /\ call' = [call EXCEPT ![c] = locals]
Step1(c, from, to) == at[c] = from /\ Go(c, to)

Reserve(n) == room + n <= MaxLog /\ room' = room + n

Kept == UNCHANGED <<rules, crashed, met, room, changes>>

\* Service.mu is held over the creation, and nothing is registered if it fails.
StartSession ==
    /\ task = Nil
    /\ task' = NewContext.task
    /\ UNCHANGED <<views, log, strikes, at, call, quiet>> /\ Kept
-----------------------------------------------------------------------------
(* The attention hooks. *)

PreActionHook(c) ==
    /\ Begin(c, IF task.needsReread THEN "clear" ELSE "count", Idle)
    /\ quiet' = IF task.needsReread THEN 0 ELSE quiet
    /\ UNCHANGED <<task, views, log, strikes>> /\ Kept

ClearNeedsReread(c) ==
    /\ Step1(c, "clear", "count")
    /\ task' = WithReread(task, FALSE)
    /\ UNCHANGED <<views, log, strikes, call, quiet>> /\ Kept

FaultyIncrementToolCallCount(c) ==  \* the mark is what this call found
    /\ Step1(c, "count", "idle")
    /\ task' = WithReread(WithToolCall(task), task.toolCalls + 1 >= Threshold)
    /\ quiet' = quiet + 1
    /\ UNCHANGED <<views, log, strikes, call>> /\ Kept

IncrementToolCallCount(c) ==
    /\ Step1(c, "count", "idle")
    /\ task' = WithToolCall(task)
    /\ quiet' = quiet + 1
    /\ UNCHANGED <<views, log, strikes, call>> /\ Kept

\* Only views, searches and the browser count.
PostActionHook(c) ==
    /\ task # Nil
    /\ at[c] = "idle"
    /\ views' = IF views + 1 >= 2 THEN 0 ELSE views + 1
    /\ UNCHANGED <<task, log, strikes, at, call, quiet>> /\ Kept
-----------------------------------------------------------------------------
(* The tracker.  A strike is a read and a write of a map without a lock:     *)
(* another call's can come in between, or the runtime notices and ends the   *)
(* process.                                                                *)

InTracker(c) == at[c] \in {"strike", "record strike", "note", "forget", "record resolution"}
InMap(c) == at[c] \in {"strike", "forget"}

Entry(c, kind, resolved) ==
    [by |-> c, kind |-> kind, key |-> call[c].key, attempt |-> call[c].attempt, resolved |-> resolved]

RecordError(c, kind, resolved) == log' = Append(log, Entry(c, kind, resolved))

BeginTracking(c, place, locals) ==
    /\ Reserve(1)
    /\ Begin(c, place, locals)
    /\ met' = (met \/ \E d \in Callers : InTracker(d))
    /\ UNCHANGED <<task, views, log, strikes, crashed, quiet, changes, rules>>

TrackError(c, k) == BeginTracking(c, "strike", [Idle EXCEPT !.key = k, !.seen = strikes[k]])

AddStrike(c) ==
    /\ Step1(c, "strike", "record strike")
    /\ strikes' = [strikes EXCEPT ![call[c].key] = call[c].seen + 1]
    /\ call' = [call EXCEPT ![c].attempt = call[c].seen + 1]
    /\ UNCHANGED <<task, views, log, quiet>> /\ Kept

\* A strike whose save fails is recorded and not escalated.
RecordStrike(c) ==
    /\ Step1(c, "record strike", "ended")
    /\ RecordError(c, "strike", FALSE)
    /\ \E saved \in BOOLEAN :
          call' = [call EXCEPT ![c].last = IF ~saved THEN "error"
                                           ELSE IF call[c].attempt >= 3 THEN "escalate" ELSE "noted"]
    /\ UNCHANGED <<task, views, strikes, quiet>> /\ Kept

LastOf(k) == SelectLastInSeq(log, LAMBDA e : e.key = k)

ResolveError(c, k) ==
    BeginTracking(c, "note", [Idle EXCEPT !.key = k, !.seen = LastOf(k), !.start = Len(log)])

\* The last error of the key gets the resolution, in the array the task had:
\* an error recorded since may have moved the task's errors to another one.
NoteResolution(c) ==
    /\ Step1(c, "note", "forget")
    /\ \/ log' = IF call[c].seen = 0 THEN log ELSE [log EXCEPT ![call[c].seen].resolved = TRUE]
       \/ Len(log) > call[c].start /\ UNCHANGED log
    /\ UNCHANGED <<task, views, strikes, call, quiet>> /\ Kept

FaultyForgetStrikes(c) ==  \* one strike less
    /\ Step1(c, "forget", "record resolution")
    /\ strikes' = [strikes EXCEPT ![call[c].key] = IF @ = 0 THEN 0 ELSE @ - 1]
    /\ UNCHANGED <<task, views, log, call, quiet>> /\ Kept

ForgetStrikes(c) ==
    /\ Step1(c, "forget", "record resolution")
    /\ strikes' = [strikes EXCEPT ![call[c].key] = 0]
    /\ UNCHANGED <<task, views, log, call, quiet>> /\ Kept

RecordResolution(c) ==
    /\ Step1(c, "record resolution", "ended")
    /\ RecordError(c, "resolution", TRUE)
    /\ UNCHANGED <<task, views, strikes, call, quiet>> /\ Kept

Crash ==
    /\ \E c, d \in Callers : c # d /\ InMap(c) /\ InMap(d)
    /\ crashed' = TRUE
    /\ UNCHANGED <<task, views, log, strikes, at, call, quiet, met, room, changes, rules>>
-----------------------------------------------------------------------------
(* CompletionChecker.Check: two looks at the task.  A session's task has a   *)
(* goal and a current phase, so that the first look alone decides.           *)

Incomplete == {i \in DOMAIN task.phases : task.phases[i].status # "complete"}

CheckCompletion(c) ==
    /\ Begin(c, "reboot check", [Idle EXCEPT !.last = IF Incomplete = {} THEN "stop" ELSE "go on"])
    /\ UNCHANGED <<task, views, log, strikes, quiet>> /\ Kept

FaultyRebootCheck(c) ==  \* asks whether anything lies ahead
    /\ Step1(c, "reboot check", "ended")
    /\ LET ahead == {i \in Incomplete : i > task.currentPhase}
       IN  call' = [call EXCEPT ![c].going = ahead,
                                ![c].last = IF ahead = {} THEN "stop" ELSE "go on"]
    /\ UNCHANGED <<task, views, log, strikes, quiet>> /\ Kept

RebootCheck(c) ==
    /\ Step1(c, "reboot check", "ended")
    /\ call' = [call EXCEPT ![c].going = {i \in Incomplete : i > task.currentPhase}]
    /\ UNCHANGED <<task, views, log, strikes, quiet>> /\ Kept
-----------------------------------------------------------------------------
(* ExecuteStep: an action up to MaxRetries times.  An attempt succeeds, ends *)
(* with an error, or is unsuccessful, with a text for the log or without.     *)

ExecuteStep(c, k) ==
    /\ Reserve(MaxRetries)
    /\ Begin(c, "act", [Idle EXCEPT !.key = k, !.attempt = 1, !.start = Len(log)])
    /\ UNCHANGED <<task, views, log, strikes, crashed, quiet, met, changes, rules>>

Succeed(c) == Step1(c, "act", "complete") /\ UNCHANGED call

ActionError(c) ==
    /\ Step1(c, "act", "record failure")
    /\ call' = [call EXCEPT ![c].failed = @ \cup {call[c].attempt},
                            ![c].seen = 1]

Unsuccessful(c) ==
    /\ Step1(c, "act", "record failure")
    /\ call' = [call EXCEPT ![c].failed = @ \cup {call[c].attempt},
                            ![c].seen = 0, ![c].last = "result"]

\* The next attempt, or the end with the last result there was.
FaultyNextAttempt(c, last) ==
    IF call[c].seen = 1 \/ call[c].attempt >= MaxRetries
    THEN Go(c, "ended") /\ call' = [call EXCEPT ![c].last = last]
    ELSE Go(c, "act") /\ call' = [call EXCEPT ![c].attempt = @ + 1, ![c].last = last]

NextAttempt(c, last) ==
    IF call[c].attempt >= MaxRetries
    THEN Go(c, "ended") /\ call' = [call EXCEPT ![c].last = last]
    ELSE Go(c, "act") /\ call' = [call EXCEPT ![c].attempt = @ + 1, ![c].last = last]

Silent(c) ==
    /\ at[c] = "act"
    /\ \E result \in {"result", "unknown"} : NextAttempt(c, result)

Act(c) ==
    /\ Succeed(c) \/ ActionError(c) \/ Unsuccessful(c) \/ Silent(c)
    /\ UNCHANGED <<task, views, log, strikes, quiet>> /\ Kept

\* The error of RecordError is dropped.
RecordFailure(c) ==
    /\ at[c] = "record failure"
    /\ RecordError(c, "failure", FALSE)
    /\ LET erred == call[c].seen = 1
       IN  NextAttempt(c, IF erred /\ call[c].attempt >= MaxRetries THEN "escalate" ELSE call[c].last)
    /\ UNCHANGED <<task, views, strikes, quiet>> /\ Kept

Changing(newTask) ==
    /\ task' = newTask
    /\ call' = [c \in Callers |-> IF at[c] = "reboot check" THEN [call[c] EXCEPT !.changed = TRUE]
                                  ELSE call[c]]

\* The first step of the first phase is the one it works on.
CompleteStep(c) ==
    /\ Step1(c, "complete", "ended")
    /\ task' = WithStepCompleted(task, 1, 1)
    /\ call' = [d \in Callers |->
                  IF d = c THEN [call[c] EXCEPT !.last = "success"]
                  ELSE IF at[d] = "reboot check" THEN [call[d] EXCEPT !.changed = TRUE] ELSE call[d]]
    /\ UNCHANGED <<views, log, strikes, quiet>> /\ Kept
-----------------------------------------------------------------------------
Return(c) ==
    /\ Step1(c, "ended", "idle")
    /\ call' = [call EXCEPT ![c] = Idle]
    /\ UNCHANGED <<task, views, log, strikes, quiet>> /\ Kept

\* Another client of the task.
UpdatePhaseStatus ==
    /\ task # Nil
    /\ changes < MaxChanges
    /\ changes' = changes + 1
    /\ \E p \in 1..NPhases : Changing(WithPhaseStatus(task, p, "complete"))
    /\ UNCHANGED <<views, log, strikes, at, crashed, quiet, met, room, rules>>

Call(c) ==
    \/ "attention" \in rules /\ (PreActionHook(c) \/ PostActionHook(c))
    \/ "check" \in rules /\ CheckCompletion(c)
    \/ \E k \in Keys :
          \/ "track" \in rules /\ TrackError(c, k)
          \/ "resolve" \in rules /\ ResolveError(c, k)
          \/ "step" \in rules /\ ExecuteStep(c, k)

Continue(c) ==
    /\ ~crashed
    /\ \/ ClearNeedsReread(c) \/ IncrementToolCallCount(c)
       \/ AddStrike(c) \/ RecordStrike(c)
       \/ NoteResolution(c) \/ ForgetStrikes(c) \/ RecordResolution(c)
       \/ RebootCheck(c)
       \/ Act(c) \/ RecordFailure(c) \/ CompleteStep(c)
       \/ Return(c)

Environment == ~crashed /\ (StartSession \/ UpdatePhaseStatus \/ Crash \/ \E c \in Callers : Call(c))

Next == Environment \/ \E c \in Callers : Continue(c)

Spec == Init /\ [][Next]_vars
-----------------------------------------------------------------------------
(* The plan is reread: however the hooks interleave, no more than so many     *)
(* tool calls go by before one sees the mark.  A hook that clears the mark    *)
(* late takes back one that was set since: a mark can be lost once for every *)
(* other caller, with the calls that were under way when it was set.  These   *)
(* count towards the next mark, unless there are enough of them to set one    *)
(* more: up to Threshold + 1 callers only the last of them come on top.     *)
N == Cardinality(Callers)
PlanIsReread ==
    /\ quiet <= N * Threshold + (N * (N - 1)) \div 2
    /\ N \in 1..(Threshold + 1) => quiet <= N * Threshold + N - 1

(* The third strike: as long as calls of the tracker do not overlap, its      *)
(* count of a key is that of the errors recorded since the last resolution,   *)
(* and these are numbered in their order, whatever failures of steps and      *)
(* saves come between them.                                                *)
Since(k) ==
    {i \in DOMAIN log :
        /\ log[i].key = k /\ log[i].kind = "strike"
        /\ \A j \in DOMAIN log : log[j].key = k /\ log[j].kind = "resolution" => j < i}

StrikesAreCounted ==
    ~met /\ (\A c \in Callers : ~InTracker(c)) =>
        \A k \in Keys :
            /\ strikes[k] = Cardinality(Since(k))
            /\ \A i \in Since(k) :
                  log[i].attempt = Cardinality({j \in Since(k) : j <= i})

(* A step is given up only after MaxRetries attempts, the log holds the       *)
(* attempts that gave a reason, in their order, and a user is asked for       *)
(* guidance only when the last one ended with an error.                     *)
Mine(c) ==
    {i \in DOMAIN log : i > call[c].start /\ log[i].by = c /\ log[i].kind = "failure"}

FailuresAreOnRecord ==
    \A c \in Callers : at[c] = "ended" /\ call[c].failed # {} =>
        /\ {log[i].attempt : i \in Mine(c)} = call[c].failed
        /\ \A i, j \in Mine(c) : i < j => log[i].attempt < log[j].attempt
        /\ call[c].last # "success" => call[c].attempt = MaxRetries
        /\ call[c].last = "escalate" => call[c].seen = 1

(* A check that says stop saw no open phase: there is nothing left that it    *)
(* names as the way to go, unless a phase changed under it.                 *)
StopIsJustified ==
    [][\A c \in Callers :
          at[c] = "reboot check" /\ at'[c] = "ended" /\ call'[c].last = "stop" /\ ~call[c].changed
             => Incomplete = {} /\ call'[c].going = {}]_vars
=============================================================================
