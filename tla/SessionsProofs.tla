---------------------------- MODULE SessionsProofs ----------------------------
(***************************************************************************)
(* Proofs about Sessions, for any callers, keys, plans and bounds: how long  *)
(* a plan can go without being reread, what the tracker counts, what a step  *)
(* leaves in the log and when a check may say stop.  Each has an invariant   *)
(* of its own on top of the types: a property holds when a call has ended,    *)
(* the invariant says what becomes of it at every place inside a call.       *)
(***************************************************************************)
EXTENDS Sessions, FiniteSetTheorems, SequenceTheorems, WellFoundedInduction, TLAPS

(* What the handlers' edits do to the plan is again a plan. *)
LEMMA SequenceByElements ==
    ASSUME NEW S, NEW n \in Nat, NEW f, f = [i \in 1..n |-> f[i]],
           \A i \in 1..n : f[i] \in S
    PROVE  f \in Seq(S)
  <1>1. f \in [1..n -> S]
    OBVIOUS
  <1> QED BY <1>1, SeqDef

LEMMA StatusPhasesType ==
    ASSUME NEW phases \in Seq(Phase), NEW p \in Nat, NEW s \in PhaseStatus
    PROVE  /\ PhasesAfterStatus(phases, p, s) \in Seq(Phase)
           /\ DOMAIN PhasesAfterStatus(phases, p, s) = DOMAIN phases
  <1> DEFINE after == PhasesAfterStatus(phases, p, s)
  <1>1. DOMAIN phases = 1..Len(phases) /\ Len(phases) \in Nat
    OBVIOUS
  <1>2. ASSUME NEW i \in 1..Len(phases) PROVE after[i] \in Phase
    <2>1. phases[i] \in Phase
      OBVIOUS
    <2>2. after[i] = [phases[i] EXCEPT !.status =
                        IF Opened(phases, p, s, i) THEN "in_progress"
                        ELSE IF IsFirst(phases, p, i) THEN s ELSE @]
      BY <1>1 DEF PhasesAfterStatus
    <2> QED BY <2>1, <2>2 DEF Phase, PhaseStatus
  <1>3. after = [i \in 1..Len(phases) |-> after[i]]
    BY <1>1 DEF PhasesAfterStatus
  <1> HIDE DEF after
  <1>4. after \in Seq(Phase)
    BY <1>1, <1>2, <1>3, SequenceByElements
  <1>5. DOMAIN after = DOMAIN phases
    BY <1>1, <1>3
  <1> QED BY <1>4, <1>5 DEF after

LEMMA WithPhaseStatusType ==
    ASSUME NEW t \in Task, NEW p \in Nat, NEW s \in PhaseStatus
    PROVE  /\ WithPhaseStatus(t, p, s) \in Task
           /\ WithPhaseStatus(t, p, s).errors = t.errors
  <1> DEFINE phases == PhasesAfterStatus(t.phases, p, s)
             opened == {i \in DOMAIN phases : Opened(t.phases, p, s, i)}
             current == IF opened = {} THEN t.currentPhase
                        ELSE phases[CHOOSE i \in opened : TRUE].id
             status == IF AllComplete(phases) THEN "completed" ELSE t.status
  <1>1. phases \in Seq(Phase)
    BY StatusPhasesType DEF Task
  <1>2. current \in Nat
    <2>1. ASSUME opened # {} PROVE (CHOOSE i \in opened : TRUE) \in DOMAIN phases
      BY <2>1
    <2>2. ASSUME NEW i \in DOMAIN phases PROVE phases[i].id \in Nat
      <3> HIDE DEF phases
      <3>1. phases[i] \in Phase
        BY <1>1, <2>2
      <3> QED BY <3>1 DEF Phase
    <2>3. t.currentPhase \in Nat
      BY DEF Task
    <2> QED BY <2>1, <2>2, <2>3
  <1>3. status \in TaskStatus
    BY DEF Task, TaskStatus
  <1>4. WithPhaseStatus(t, p, s)
            = [t EXCEPT !.phases = phases, !.currentPhase = current, !.status = status]
    BY DEF WithPhaseStatus, Task
  <1> HIDE DEF phases, current, status
  <1> QED BY <1>1, <1>2, <1>3, <1>4 DEF Task

LEMMA WithToolCallType ==
    ASSUME NEW t \in Task
    PROVE  /\ WithToolCall(t) \in Task
           /\ WithToolCall(t).errors = t.errors
  <1>1. CASE t.toolCalls + 1 >= Threshold
    <2> DEFINE counted == [t EXCEPT !.toolCalls = 0]
    <2>1. counted \in Task /\ counted.errors = t.errors
      BY DEF Task
    <2>2. WithToolCall(t) = [counted EXCEPT !.needsReread = TRUE]
      BY <1>1 DEF WithToolCall
    <2> HIDE DEF counted
    <2>3. ASSUME NEW flag \in BOOLEAN
          PROVE  /\ [counted EXCEPT !.needsReread = flag] \in Task
                 /\ [counted EXCEPT !.needsReread = flag].errors = counted.errors
      BY <2>1 DEF Task
    <2> QED BY <2>1, <2>2, <2>3
  <1>2. CASE ~ (t.toolCalls + 1 >= Threshold)
    <2>1. WithToolCall(t) = [t EXCEPT !.toolCalls = t.toolCalls + 1]
      BY <1>2 DEF WithToolCall
    <2> QED BY <2>1 DEF Task
  <1> QED BY <1>1, <1>2

LEMMA WithStepCompletedType ==
    ASSUME NEW t \in Task, NEW p \in Nat, NEW k \in Nat
    PROVE  /\ WithStepCompleted(t, p, k) \in Task
           /\ WithStepCompleted(t, p, k).errors = t.errors
  <1> DEFINE phaseAfter(i) ==
        IF ~ IsFirst(t.phases, p, i) THEN t.phases[i]
        ELSE LET steps == StepsAfterCompletion(t.phases[i].steps, k)
             IN  [t.phases[i] EXCEPT
                    !.steps = steps,
                    !.status = IF AllStepsDone(steps) THEN "complete" ELSE @]
  <1>1. ASSUME NEW steps \in Seq(Step)
        PROVE  StepsAfterCompletion(steps, k) \in Seq(Step)
    <2> DEFINE after == StepsAfterCompletion(steps, k)
    <2>1. DOMAIN steps = 1..Len(steps) /\ Len(steps) \in Nat
      BY <1>1
    <2>2. after = [j \in 1..Len(steps) |-> after[j]]
      BY <2>1 DEF StepsAfterCompletion
    <2>3. ASSUME NEW j \in 1..Len(steps) PROVE after[j] \in Step
      <3>1. steps[j] \in Step
        BY <1>1
      <3>2. after[j] = [steps[j] EXCEPT !.completed = @ \/ IsFirst(steps, k, j)]
        BY <2>1 DEF StepsAfterCompletion
      <3> QED BY <3>1, <3>2, ZenonT(20) DEF Step
    <2> HIDE DEF after
    <2>4. after \in Seq(Step)
      BY <2>1, <2>2, <2>3, SequenceByElements
    <2> QED BY <2>4 DEF after
  <1>2. ASSUME NEW i \in DOMAIN t.phases PROVE phaseAfter(i) \in Phase
    <2>1. t.phases[i] \in Phase
      BY <1>2 DEF Task
    <2>2. StepsAfterCompletion(t.phases[i].steps, k) \in Seq(Step)
      BY <2>1, <1>1 DEF Phase
    <2> QED BY <2>1, <2>2 DEF Phase, PhaseStatus
  <1>3. [i \in DOMAIN t.phases |-> phaseAfter(i)] \in Seq(Phase)
    <2> HIDE DEF phaseAfter
    <2> QED BY <1>2 DEF Task
  <1>4. WithStepCompleted(t, p, k)
            = [t EXCEPT !.phases = [i \in DOMAIN t.phases |-> phaseAfter(i)]]
    BY DEF WithStepCompleted
  <1> HIDE DEF phaseAfter
  <1> QED BY <1>3, <1>4 DEF Task
(* Fields an edit of the plan leaves alone. *)
SameCounts(a, b) == a.toolCalls = b.toolCalls /\ a.needsReread = b.needsReread
SamePlan(a, b) == a.phases = b.phases

LEMMA EditsAreTasks ==
    ASSUME NEW t \in Task, t.toolCalls < Threshold
    PROVE  /\ \A p \in Nat : /\ WithPhaseStatus(t, p, "complete") \in Task
                             /\ SameCounts(WithPhaseStatus(t, p, "complete"), t)
           /\ WithStepCompleted(t, 1, 1) \in Task /\ SameCounts(WithStepCompleted(t, 1, 1), t)
           /\ WithReread(t, FALSE) \in Task /\ SamePlan(WithReread(t, FALSE), t)
           /\ WithReread(t, FALSE).toolCalls = t.toolCalls /\ ~WithReread(t, FALSE).needsReread
           /\ WithToolCall(t) \in Task /\ SamePlan(WithToolCall(t), t)
           /\ IF t.toolCalls + 1 >= Threshold
              THEN WithToolCall(t).toolCalls = 0 /\ WithToolCall(t).needsReread
              ELSE /\ WithToolCall(t).toolCalls = t.toolCalls + 1
                   /\ WithToolCall(t).needsReread = t.needsReread
  <1>1. ASSUME NEW p \in Nat
        PROVE  /\ WithPhaseStatus(t, p, "complete") \in Task
               /\ SameCounts(WithPhaseStatus(t, p, "complete"), t)
    <2>1. "complete" \in PhaseStatus
      BY DEF PhaseStatus
    <2>2. WithPhaseStatus(t, p, "complete") \in Task
      BY <2>1, WithPhaseStatusType
    <2>3. SameCounts(WithPhaseStatus(t, p, "complete"), t)
      BY DEF SameCounts, WithPhaseStatus, Task
    <2> QED BY <2>2, <2>3
  <1>2. WithStepCompleted(t, 1, 1) \in Task /\ SameCounts(WithStepCompleted(t, 1, 1), t)
    <2>1. SameCounts(WithStepCompleted(t, 1, 1), t)
      BY DEF SameCounts, WithStepCompleted, Task
    <2> QED BY <2>1, WithStepCompletedType
  <1>3. /\ WithReread(t, FALSE) \in Task /\ SamePlan(WithReread(t, FALSE), t)
        /\ WithReread(t, FALSE).toolCalls = t.toolCalls /\ ~WithReread(t, FALSE).needsReread
    BY DEF WithReread, SamePlan, Task
  <1>4. WithToolCall(t) \in Task
    BY WithToolCallType
  <1>5. SamePlan(WithToolCall(t), t)
    BY DEF WithToolCall, SamePlan, Task
  <1>6. IF t.toolCalls + 1 >= Threshold
        THEN WithToolCall(t).toolCalls = 0 /\ WithToolCall(t).needsReread
        ELSE /\ WithToolCall(t).toolCalls = t.toolCalls + 1
             /\ WithToolCall(t).needsReread = t.needsReread
    BY DEF WithToolCall, Task
  <1> QED BY <1>1, <1>2, <1>3, <1>4, <1>5, <1>6

LEMMA NewTaskType ==
    /\ NewContext.task \in Task
    /\ NewContext.task.toolCalls = 0 /\ NewContext.task.needsReread = FALSE
  <1> DEFINE steps == [j \in 1..NSteps |-> [id |-> j, completed |-> FALSE]]
             phases == [i \in 1..NPhases |-> [id |-> i, status |-> "pending", steps |-> steps]]
  <1>1. steps \in Seq(Step)
    <2>1. \A j \in 1..NSteps : steps[j] \in Step
      BY DataAssumption DEF Step
    <2>2. steps = [j \in 1..NSteps |-> steps[j]]
      OBVIOUS
    <2> HIDE DEF steps
    <2> QED BY <2>1, <2>2, SequenceByElements, DataAssumption
  <1>2. DefaultPhases \in Seq(Phase)
    <2>1. phases = DefaultPhases
      BY DEF DefaultPhases
    <2>2. \A i \in 1..NPhases : phases[i] \in Phase
      <3> HIDE DEF steps
      <3> QED BY <1>1, DataAssumption DEF Phase, PhaseStatus
    <2>3. phases = [i \in 1..NPhases |-> phases[i]]
      OBVIOUS
    <2> HIDE DEF phases
    <2> QED BY <2>1, <2>2, <2>3, SequenceByElements, DataAssumption
  <1>3. NewContext.task \in Task
    BY <1>2 DEF NewContext, Task, TaskStatus
  <1>4. NewContext.task.toolCalls = 0 /\ NewContext.task.needsReread = FALSE
    BY DEF NewContext
  <1> QED BY <1>3, <1>4
-----------------------------------------------------------------------------
(* A set of positions has a last one. *)
LEMMA LargestOf ==
    ASSUME NEW n \in Nat, NEW I \in SUBSET (1..n), I # {}
    PROVE  \E x \in I : \A y \in I : x >= y
  <1> DEFINE Above == {m \in Nat : \A y \in I : y <= m}
             Less == OpToRel(<, Nat)
  <1>1. n \in Above /\ Above \subseteq Nat
    OBVIOUS
  <1>2. PICK m \in Above : \A k \in Above : <<k, m>> \notin Less
    <2> HIDE DEF Above
    <2>1. IsWellFoundedOn(Less, Nat)
      BY NatLessThanWellFounded
    <2>2. Above # {}
      BY <1>1
    <2> HIDE DEF Less
    <2> QED BY <1>1, <2>1, <2>2, WFMin
  <1>3. \A k \in Above : ~(k < m)
    <2>1. \A k \in Nat, l \in Nat : k < l => <<k, l>> \in Less
      BY DEF OpToRel
    <2> QED BY <1>1, <1>2, <2>1
  <1>4. PICK y \in I : TRUE
    OBVIOUS
  <1>5. m \in I
    <2> SUFFICES ASSUME m \notin I PROVE FALSE
      OBVIOUS
    <2>0. m \in Nat /\ \A z \in I : z <= m
      BY <1>2
    <2>1. m \in Nat /\ \A z \in I : z \in Nat /\ z <= m /\ z # m /\ z > 0
      <3> HIDE DEF Above, Less
      <3> QED BY <2>0
    <2>2. m - 1 \in Nat /\ \A z \in I : z <= m - 1
      BY <1>4, <2>1
    <2>3. m - 1 \in Above /\ m - 1 < m
      BY <2>1, <2>2
    <2> QED BY <1>3, <2>3
  <1> QED BY <1>2, <1>5
-----------------------------------------------------------------------------
Places == {"idle", "clear", "count", "strike", "record strike", "note", "forget",
           "record resolution", "reboot check", "act", "record failure", "complete", "ended"}

(* The places of a call that is for a key. *)
Keyed == {"strike", "record strike", "note", "forget", "record resolution", "act",
          "record failure", "complete"}

Entries == [by: Callers, kind: {"strike", "resolution", "failure"}, key: Keys,
            attempt: Nat, resolved: BOOLEAN]

Answers == {"none", "error", "escalate", "noted", "stop", "go on", "result", "unknown",
            "success"}

Locals == [key: Keys \cup {"none"}, attempt: Nat, seen: Nat, start: Nat, last: Answers,
           failed: SUBSET Nat, changed: BOOLEAN, going: SUBSET Nat]

(* Types, and that nothing runs before the session is there. *)
TypeOK ==
    /\ task \in Task \cup {Nil}
    /\ task \in Task => task.toolCalls < Threshold
    /\ strikes \in [Keys -> Nat]
    /\ log \in Seq(Entries)
    /\ at \in [Callers -> Places]
    /\ call \in [Callers -> Locals]
    /\ quiet \in Nat
    /\ \A c \in Callers : at[c] \in Keyed => call[c].key \in Keys
    /\ task = Nil => quiet = 0 /\ \A c \in Callers : at[c] = "idle"

LEMMA IdleType == Idle \in Locals /\ Idle.failed = {}
  BY DEF Idle, Locals, Answers

LEMMA LastOfType ==
    ASSUME TypeOK, NEW k
    PROVE  LastOf(k) \in Nat
  <1> DEFINE I == {i \in 1..Len(log) : log[i].key = k}
  <1>1. LastOf(k) = IF I # {} THEN Max(I) ELSE 0
    BY DEF LastOf, SelectLastInSeq
  <1>2. Len(log) \in Nat /\ I \in SUBSET (1..Len(log))
    BY DEF TypeOK
  <1> HIDE DEF I
  <1>3. ASSUME I # {} PROVE Max(I) \in Nat
    <2>1. \E x \in I : \A y \in I : x >= y
      BY <1>2, <1>3, LargestOf
    <2>2. Max(I) \in I
      BY <2>1, Zenon DEF Max
    <2>3. \A x \in I : x \in Nat
      BY <1>2
    <2> QED BY <2>2, <2>3
  <1> QED BY <1>1, <1>3

Moves(c, x, l) == at' = [at EXCEPT ![c] = x] /\ call' = [call EXCEPT ![c] = l]

(* A caller comes to x with the locals l, and the rest keeps its type. *)
LEMMA MovesType ==
    ASSUME TypeOK, NEW c \in Callers, NEW x \in Places, NEW l \in Locals, Moves(c, x, l),
           x \in Keyed => l.key \in Keys, task' \in Task, task'.toolCalls < Threshold,
           strikes' \in [Keys -> Nat], log' \in Seq(Entries), quiet' \in Nat
    PROVE  TypeOK'
  <1>1. task' # Nil
    BY DataAssumption
  <1>2. at' \in [Callers -> Places] /\ call' \in [Callers -> Locals]
    BY DEF TypeOK, Moves
  <1>3. \A d \in Callers : at'[d] \in Keyed => call'[d].key \in Keys
    BY DEF TypeOK, Moves
  <1> QED BY <1>1, <1>2, <1>3 DEF TypeOK

LEMMA CallType ==
    ASSUME TypeOK, NEW c \in Callers, Call(c)
    PROVE  TypeOK' /\ task \in Task
  <1>1. task \in Task /\ task.toolCalls < Threshold
    BY DEF TypeOK, Call, PreActionHook, PostActionHook, CheckCompletion, TrackError, ResolveError,
           ExecuteStep, BeginTracking, Begin
  <1>2. CASE PreActionHook(c)
    <2>1. PICK x \in {"clear", "count"} : Moves(c, x, Idle)
      BY <1>2 DEF PreActionHook, Begin, Go, Moves
    <2>2. task' = task /\ strikes' = strikes /\ log' = log /\ quiet' \in {0, quiet}
      BY <1>2 DEF PreActionHook
    <2>3. x \in Places /\ x \notin Keyed
      BY <2>1 DEF Places, Keyed
    <2> QED BY <1>1, <2>1, <2>2, <2>3, IdleType, MovesType DEF TypeOK
  <1>3. CASE PostActionHook(c)
    BY <1>1, <1>3 DEF PostActionHook, TypeOK
  <1>4. CASE CheckCompletion(c)
    <2> DEFINE l == [Idle EXCEPT !.last = IF Incomplete = {} THEN "stop" ELSE "go on"]
    <2>1. l \in Locals
      BY IdleType DEF Locals, Answers
    <2>2. Moves(c, "reboot check", l)
      BY <1>4 DEF CheckCompletion, Begin, Go, Moves
    <2>3. task' = task /\ strikes' = strikes /\ log' = log /\ quiet' = quiet
      BY <1>4 DEF CheckCompletion
    <2> HIDE DEF l
    <2> QED BY <1>1, <2>1, <2>2, <2>3, MovesType DEF TypeOK, Places, Keyed
  <1>5. ASSUME NEW k \in Keys, TrackError(c, k)
        PROVE  TypeOK'
    <2> DEFINE l == [Idle EXCEPT !.key = k, !.seen = strikes[k]]
    <2>1. l \in Locals /\ l.key = k
      BY IdleType DEF Locals, TypeOK
    <2>2. Moves(c, "strike", l)
      BY <1>5 DEF TrackError, BeginTracking, Begin, Go, Moves
    <2>3. task' = task /\ strikes' = strikes /\ log' = log /\ quiet' = quiet
      BY <1>5 DEF TrackError, BeginTracking
    <2> HIDE DEF l
    <2> QED BY <1>1, <2>1, <2>2, <2>3, MovesType DEF TypeOK, Places
  <1>6. ASSUME NEW k \in Keys, ResolveError(c, k)
        PROVE  TypeOK'
    <2> DEFINE l == [Idle EXCEPT !.key = k, !.seen = LastOf(k), !.start = Len(log)]
    <2>1. LastOf(k) \in Nat /\ Len(log) \in Nat
      BY LastOfType DEF TypeOK
    <2>2. l \in Locals /\ l.key = k
      BY <2>1, IdleType DEF Locals
    <2>3. Moves(c, "note", l)
      BY <1>6 DEF ResolveError, BeginTracking, Begin, Go, Moves
    <2>4. task' = task /\ strikes' = strikes /\ log' = log /\ quiet' = quiet
      BY <1>6 DEF ResolveError, BeginTracking
    <2> HIDE DEF l
    <2> QED BY <1>1, <2>2, <2>3, <2>4, MovesType DEF TypeOK, Places
  <1>7. ASSUME NEW k \in Keys, ExecuteStep(c, k)
        PROVE  TypeOK'
    <2> DEFINE l == [Idle EXCEPT !.key = k, !.attempt = 1, !.start = Len(log)]
    <2>1. Len(log) \in Nat
      BY DEF TypeOK
    <2>2. l \in Locals /\ l.key = k
      BY <2>1, IdleType DEF Locals
    <2>3. Moves(c, "act", l)
      BY <1>7 DEF ExecuteStep, Begin, Go, Moves
    <2>4. task' = task /\ strikes' = strikes /\ log' = log /\ quiet' = quiet
      BY <1>7 DEF ExecuteStep
    <2> HIDE DEF l
    <2> QED BY <1>1, <2>2, <2>3, <2>4, MovesType DEF TypeOK, Places
  <1> QED BY <1>1, <1>2, <1>3, <1>4, <1>5, <1>6, <1>7 DEF Call

(* The tracker and the attempts. *)
LEMMA NextAttemptMoves ==
    ASSUME TypeOK, NEW c \in Callers, NEW last \in Answers, NextAttempt(c, last)
    PROVE  \E x \in {"ended", "act"} : \E n \in {call[c].attempt, call[c].attempt + 1} :
              Moves(c, x, [call[c] EXCEPT !.attempt = n, !.last = last])
  <1>1. call[c] \in Locals
    BY DEF TypeOK
  <1>2. CASE call[c].attempt >= MaxRetries
    <2>1. [call[c] EXCEPT !.last = last]
             = [call[c] EXCEPT !.attempt = call[c].attempt, !.last = last]
      BY <1>1 DEF Locals
    <2>2. at' = [at EXCEPT ![c] = "ended"] /\ call' = [call EXCEPT ![c].last = last]
      BY <1>2 DEF NextAttempt, Go
    <2>3. call' = [call EXCEPT ![c] = [call[c] EXCEPT !.last = last]]
      BY <2>2 DEF TypeOK
    <2> QED BY <2>1, <2>2, <2>3 DEF Moves
  <1>3. CASE ~(call[c].attempt >= MaxRetries)
    <2>1. /\ at' = [at EXCEPT ![c] = "act"]
          /\ call' = [call EXCEPT ![c].attempt = @ + 1, ![c].last = last]
      BY <1>3 DEF NextAttempt, Go
    <2>2. call' = [call EXCEPT ![c] = [call[c] EXCEPT !.attempt = call[c].attempt + 1,
                                                      !.last = last]]
      BY <2>1 DEF TypeOK
    <2> QED BY <2>1, <2>2 DEF Moves
  <1> QED BY <1>2, <1>3

LEMMA EntryType ==
    ASSUME TypeOK, NEW c \in Callers, at[c] \in Keyed,
           NEW kind \in {"strike", "resolution", "failure"}, NEW resolved \in BOOLEAN
    PROVE  /\ Entry(c, kind, resolved) \in Entries
           /\ Append(log, Entry(c, kind, resolved)) \in Seq(Entries)
  <1>1. call[c] \in Locals /\ call[c].key \in Keys
    BY DEF TypeOK
  <1>2. Entry(c, kind, resolved) \in Entries
    BY <1>1 DEF Entry, Entries, Locals
  <1> HIDE DEF Entry
  <1> QED BY <1>2 DEF TypeOK

LEMMA HookType ==
    ASSUME TypeOK, NEW c \in Callers, ClearNeedsReread(c) \/ IncrementToolCallCount(c)
    PROVE  /\ TypeOK' /\ task \in Task
           /\ task' = WithReread(task, FALSE) \/ task' = WithToolCall(task)
  <1>1. task \in Task /\ task.toolCalls < Threshold /\ task.toolCalls \in Nat
    BY DEF TypeOK, ClearNeedsReread, IncrementToolCallCount, Step1, Task
  <1>2. PICK x \in {"count", "idle"} : Moves(c, x, call[c])
    BY DEF ClearNeedsReread, IncrementToolCallCount, Step1, Go, Moves, TypeOK
  <1>3. strikes' = strikes /\ log' = log /\ quiet' \in {quiet, quiet + 1}
    BY DEF ClearNeedsReread, IncrementToolCallCount
  <1>4. task' = WithReread(task, FALSE) \/ task' = WithToolCall(task)
    BY DEF ClearNeedsReread, IncrementToolCallCount
  <1>5. task' \in Task /\ task'.toolCalls < Threshold
    <2>1. Threshold \in Nat \ {0}
      BY DataAssumption
    <2>2. CASE task' = WithReread(task, FALSE)
      BY <1>1, <2>2, EditsAreTasks
    <2>3. CASE task' = WithToolCall(task)
      <3>1. /\ WithToolCall(task) \in Task
            /\ IF task.toolCalls + 1 >= Threshold
               THEN WithToolCall(task).toolCalls = 0
               ELSE WithToolCall(task).toolCalls = task.toolCalls + 1
        BY <1>1, EditsAreTasks
      <3> QED BY <1>1, <2>1, <2>3, <3>1
    <2> QED BY <1>4, <2>2, <2>3
  <1>6. x \in Places /\ x \notin Keyed /\ call[c] \in Locals
    BY <1>2 DEF Places, Keyed, TypeOK
  <1>7. quiet' \in Nat
    BY <1>3 DEF TypeOK
  <1>8. TypeOK'
    BY <1>2, <1>3, <1>5, <1>6, <1>7, MovesType DEF TypeOK
  <1> QED BY <1>1, <1>4, <1>8

LEMMA TrackerType ==
    ASSUME TypeOK, NEW c \in Callers,
           \/ AddStrike(c) \/ RecordStrike(c)
           \/ NoteResolution(c) \/ ForgetStrikes(c) \/ RecordResolution(c)
    PROVE  TypeOK' /\ task \in Task
  <1>1. at[c] \in Keyed /\ at[c] # "idle"
    BY DEF AddStrike, RecordStrike, NoteResolution, ForgetStrikes, RecordResolution, Step1, Keyed
  <1>2. /\ task \in Task /\ task.toolCalls < Threshold
        /\ call[c] \in Locals /\ call[c].key \in Keys
    BY <1>1 DEF TypeOK
  <1>3. task' = task /\ quiet' = quiet
    BY DEF AddStrike, RecordStrike, NoteResolution, ForgetStrikes, RecordResolution
  <1>4. CASE AddStrike(c)
    <2> DEFINE l == [call[c] EXCEPT !.attempt = call[c].seen + 1]
    <2>1. /\ Moves(c, "record strike", l) /\ log' = log
          /\ strikes' = [strikes EXCEPT ![call[c].key] = call[c].seen + 1]
      BY <1>4 DEF AddStrike, Step1, Go, Moves, TypeOK
    <2>2. l \in Locals /\ l.key = call[c].key /\ call[c].seen \in Nat
      BY <1>2 DEF Locals
    <2>3. strikes' \in [Keys -> Nat]
      <3>1. strikes \in [Keys -> Nat] /\ call[c].seen + 1 \in Nat
        BY <2>2 DEF TypeOK
      <3> QED BY <1>2, <2>1, <3>1
    <2> HIDE DEF l
    <2> QED BY <1>2, <1>3, <2>1, <2>2, <2>3, MovesType DEF TypeOK, Places
  <1>5. CASE RecordStrike(c)
    <2>1. PICK last \in {"error", "escalate", "noted"} :
             Moves(c, "ended", [call[c] EXCEPT !.last = last])
      BY <1>5 DEF RecordStrike, Step1, Go, Moves, TypeOK
    <2> DEFINE l == [call[c] EXCEPT !.last = last]
    <2>2. l \in Locals
      BY <1>2 DEF Locals, Answers
    <2>3. log' \in Seq(Entries) /\ strikes' = strikes
      BY <1>1, <1>5, EntryType DEF RecordStrike, RecordError
    <2> HIDE DEF l
    <2> QED BY <1>2, <1>3, <2>1, <2>2, <2>3, MovesType DEF TypeOK, Places, Keyed, l
  <1>6. CASE NoteResolution(c)
    <2>1. Moves(c, "forget", call[c]) /\ strikes' = strikes
      BY <1>6 DEF NoteResolution, Step1, Go, Moves, TypeOK
    <2>2. log' = [log EXCEPT ![call[c].seen].resolved = TRUE] \/ log' = log
      BY <1>6 DEF NoteResolution
    <2>3. log' \in Seq(Entries)
      <3> DEFINE s == call[c].seen
                 marked == [i \in 1..Len(log) |->
                              IF i = s THEN [log[i] EXCEPT !.resolved = TRUE] ELSE log[i]]
      <3>0. /\ Len(log) \in Nat /\ DOMAIN log = 1..Len(log)
            /\ log = [i \in 1..Len(log) |-> log[i]]
            /\ \A i \in 1..Len(log) : log[i] \in Entries
        BY DEF TypeOK
      <3>1. \A i \in 1..Len(log) : marked[i] \in Entries
        BY <3>0 DEF Entries
      <3>2. [log EXCEPT ![s].resolved = TRUE] = marked
        BY <3>0
      <3>3. marked = [i \in 1..Len(log) |-> marked[i]]
        OBVIOUS
      <3> HIDE DEF marked
      <3>4. marked \in Seq(Entries)
        BY <3>0, <3>1, <3>3, SequenceByElements
      <3> QED BY <2>2, <3>2, <3>4 DEF TypeOK
    <2> QED BY <1>2, <1>3, <2>1, <2>3, MovesType DEF TypeOK, Places
  <1>7. CASE ForgetStrikes(c)
    <2>1. Moves(c, "record resolution", call[c]) /\ log' = log
      BY <1>7 DEF ForgetStrikes, Step1, Go, Moves, TypeOK
    <2>2. strikes' \in [Keys -> Nat]
      BY <1>2, <1>7 DEF ForgetStrikes, TypeOK
    <2> QED BY <1>2, <1>3, <2>1, <2>2, MovesType DEF TypeOK, Places
  <1>8. CASE RecordResolution(c)
    <2>1. Moves(c, "ended", call[c]) /\ strikes' = strikes
      BY <1>8 DEF RecordResolution, Step1, Go, Moves, TypeOK
    <2>2. log' \in Seq(Entries)
      BY <1>1, <1>8, EntryType DEF RecordResolution, RecordError
    <2> QED BY <1>2, <1>3, <2>1, <2>2, MovesType DEF TypeOK, Places, Keyed
  <1> QED BY <1>2, <1>4, <1>5, <1>6, <1>7, <1>8

LEMMA StepType ==
    ASSUME TypeOK, NEW c \in Callers, Act(c) \/ RecordFailure(c)
    PROVE  TypeOK' /\ task \in Task
  <1>1. at[c] \in {"act", "record failure"}
    BY DEF Act, Succeed, ActionError, Unsuccessful, Silent, RecordFailure, Step1
  <1>2. /\ task \in Task /\ task.toolCalls < Threshold /\ at[c] \in Keyed
        /\ call[c] \in Locals /\ call[c].key \in Keys
    BY <1>1 DEF TypeOK, Keyed
  <1>3. task' = task /\ quiet' = quiet /\ strikes' = strikes
    BY DEF Act, RecordFailure
  <1>4. log' \in Seq(Entries)
    <2>1. CASE Act(c)
      BY <2>1 DEF Act, TypeOK
    <2>2. CASE RecordFailure(c)
      BY <1>2, <2>2, EntryType DEF RecordFailure, RecordError
    <2> QED BY <2>1, <2>2
  <1>5. PICK x \in {"complete", "record failure", "ended", "act"} :
          \E l \in Locals : Moves(c, x, l) /\ l.key = call[c].key
    <2>1. ASSUME NEW last \in Answers, NextAttempt(c, last)
          PROVE  \E x \in {"ended", "act"} : \E l \in Locals :
                    Moves(c, x, l) /\ l.key = call[c].key
      <3>1. PICK x \in {"ended", "act"} : \E n \in {call[c].attempt, call[c].attempt + 1} :
                    Moves(c, x, [call[c] EXCEPT !.attempt = n, !.last = last])
        BY <2>1, NextAttemptMoves
      <3>2. PICK n \in {call[c].attempt, call[c].attempt + 1} :
                    Moves(c, x, [call[c] EXCEPT !.attempt = n, !.last = last])
        BY <3>1
      <3> DEFINE l == [call[c] EXCEPT !.attempt = n, !.last = last]
      <3>3. n \in Nat
        BY <1>2 DEF Locals
      <3>4. l \in Locals /\ l.key = call[c].key
        BY <1>2, <3>3 DEF Locals
      <3> HIDE DEF l
      <3> QED BY <3>2, <3>4 DEF l
    <2>2. CASE Succeed(c)
      BY <1>2, <2>2 DEF Succeed, Step1, Go, Moves, TypeOK
    <2>3. CASE ActionError(c)
      <3> DEFINE l == [call[c] EXCEPT !.failed = @ \cup {call[c].attempt}, !.seen = 1]
      <3>1. l \in Locals /\ l.key = call[c].key
        BY <1>2 DEF Locals
      <3>2. Moves(c, "record failure", l)
        BY <2>3 DEF ActionError, Step1, Go, Moves, TypeOK
      <3> QED BY <3>1, <3>2
    <2>4. CASE Unsuccessful(c)
      <3> DEFINE l == [call[c] EXCEPT !.failed = @ \cup {call[c].attempt}, !.seen = 0,
                                      !.last = "result"]
      <3>1. l \in Locals /\ l.key = call[c].key
        BY <1>2 DEF Locals, Answers
      <3>2. Moves(c, "record failure", l)
        BY <2>4 DEF Unsuccessful, Step1, Go, Moves, TypeOK
      <3> QED BY <3>1, <3>2
    <2>5. CASE Silent(c)
      <3>1. PICK last \in {"result", "unknown"} : NextAttempt(c, last)
        BY <2>5 DEF Silent
      <3> QED BY <2>1, <3>1 DEF Answers
    <2>6. CASE RecordFailure(c)
      <3>1. call[c].last \in Answers
        BY <1>2 DEF Locals
      <3>2. PICK last \in Answers : NextAttempt(c, last)
        BY <2>6, <3>1 DEF RecordFailure, Answers
      <3> QED BY <2>1, <3>2
    <2> QED BY <2>2, <2>3, <2>4, <2>5, <2>6 DEF Act
  <1>6. PICK l \in Locals : Moves(c, x, l) /\ l.key = call[c].key
    BY <1>5
  <1>7. x \in Places
    BY DEF Places
  <1> QED BY <1>2, <1>3, <1>4, <1>6, <1>7, MovesType DEF TypeOK

(* A change of the plan marks the checks that are under way. *)
Marking(d) == [call[d] EXCEPT !.changed = TRUE]

LEMMA PlanType ==
    ASSUME TypeOK, NEW c \in Callers, RebootCheck(c) \/ CompleteStep(c) \/ Return(c)
    PROVE  TypeOK' /\ task \in Task
  <1>1. at[c] \in {"reboot check", "complete", "ended"}
    BY DEF RebootCheck, CompleteStep, Return, Step1
  <1>2. /\ task \in Task /\ task.toolCalls < Threshold
        /\ call \in [Callers -> Locals] /\ strikes' = strikes /\ log' = log /\ quiet' = quiet
    BY <1>1 DEF TypeOK, RebootCheck, CompleteStep, Return
  <1>3. CASE RebootCheck(c)
    <2> DEFINE open == {i \in Incomplete : i > task.currentPhase}
               l == [call[c] EXCEPT !.going = open]
    <2>1. open \in SUBSET Nat
      BY <1>2 DEF Incomplete, Task
    <2>2. Moves(c, "ended", l) /\ task' = task
      BY <1>2, <1>3 DEF RebootCheck, Step1, Go, Moves
    <2> HIDE DEF open
    <2>3. l \in Locals
      BY <1>2, <2>1 DEF Locals
    <2> HIDE DEF l
    <2> QED BY <1>2, <2>2, <2>3, MovesType DEF TypeOK, Places, Keyed
  <1>4. CASE CompleteStep(c)
    <2>1. task' \in Task /\ task'.toolCalls < Threshold
      <3>1. task' = WithStepCompleted(task, 1, 1)
        BY <1>4 DEF CompleteStep
      <3>2. WithStepCompleted(task, 1, 1) \in Task
            /\ WithStepCompleted(task, 1, 1).toolCalls = task.toolCalls
        BY <1>2, EditsAreTasks DEF SameCounts
      <3> QED BY <1>2, <3>1, <3>2
    <2>2. at' = [at EXCEPT ![c] = "ended"]
      BY <1>4 DEF CompleteStep, Step1, Go
    <2>3. /\ DOMAIN call' = Callers /\ call' = [d \in Callers |-> call'[d]]
          /\ \A d \in Callers : call'[d] \in {[call[d] EXCEPT !.last = "success"],
                                             Marking(d), call[d]}
      BY <1>4 DEF CompleteStep, Marking
    <2>4. ASSUME NEW d \in Callers
          PROVE  call'[d] \in Locals /\ call'[d].key = call[d].key
      <3>1. /\ [call[d] EXCEPT !.last = "success"] \in Locals /\ Marking(d) \in Locals
            /\ [call[d] EXCEPT !.last = "success"].key = call[d].key
            /\ Marking(d).key = call[d].key
        BY <1>2 DEF Locals, Answers, Marking
      <3> QED BY <1>2, <2>3, <3>1
    <2>5. at' \in [Callers -> Places] /\ \A d \in Callers : at'[d] \in Keyed => at[d] \in Keyed
      BY <2>2 DEF TypeOK, Places, Keyed
    <2>6. task' # Nil
      BY <2>1, DataAssumption
    <2> QED BY <1>2, <2>1, <2>3, <2>4, <2>5, <2>6 DEF TypeOK
  <1>5. CASE Return(c)
    <2>1. Moves(c, "idle", Idle) /\ task' = task
      BY <1>5 DEF Return, Step1, Go, Moves
    <2> QED BY <1>2, <2>1, IdleType, MovesType DEF TypeOK, Places, Keyed
  <1> QED BY <1>2, <1>3, <1>4, <1>5

LEMMA ChangeMarks ==
    ASSUME TypeOK, UpdatePhaseStatus
    PROVE  /\ TypeOK' /\ task \in Task /\ SameCounts(task', task)
           /\ \A d \in Callers : call'[d] = IF at[d] = "reboot check" THEN Marking(d) ELSE call[d]
  <1>1. PICK p \in 1..NPhases : Changing(WithPhaseStatus(task, p, "complete"))
    BY DEF UpdatePhaseStatus
  <1>2. p \in Nat /\ task \in Task /\ task.toolCalls < Threshold /\ call \in [Callers -> Locals]
    BY DataAssumption DEF UpdatePhaseStatus, TypeOK
  <1>3. task' \in Task /\ SameCounts(task', task)
    BY <1>1, <1>2, EditsAreTasks DEF Changing
  <1>4. /\ DOMAIN call' = Callers /\ call' = [d \in Callers |-> call'[d]]
        /\ \A d \in Callers : call'[d] = IF at[d] = "reboot check" THEN Marking(d) ELSE call[d]
    BY <1>1 DEF Changing, Marking
  <1>5. \A d \in Callers : Marking(d) \in Locals /\ Marking(d).key = call[d].key
    BY <1>2 DEF Locals, Marking
  <1>6. call' \in [Callers -> Locals] /\ \A d \in Callers : call'[d].key = call[d].key
    BY <1>2, <1>4, <1>5
  <1>7. /\ strikes' = strikes /\ log' = log /\ at' = at /\ quiet' = quiet
    BY DEF UpdatePhaseStatus
  <1>8. task' # Nil /\ task'.toolCalls < Threshold
    BY <1>2, <1>3, DataAssumption DEF SameCounts
  <1>9. TypeOK'
    BY <1>3, <1>6, <1>7, <1>8 DEF TypeOK
  <1> QED BY <1>2, <1>3, <1>4, <1>9

LEMMA TypeInvariance == Spec => []TypeOK
<1>1. Init => TypeOK
  BY IdleType, DataAssumption DEF Init, TypeOK, Places, Keyed
<1>2. TypeOK /\ [Next]_vars => TypeOK'
  <2> SUFFICES ASSUME TypeOK, [Next]_vars
               PROVE  TypeOK'
    OBVIOUS
  <2>1. CASE StartSession
    <3>1. /\ task' = NewContext.task /\ strikes' = strikes /\ log' = log /\ at' = at
          /\ call' = call /\ quiet' = quiet
      BY <2>1 DEF StartSession
    <3>2. task' \in Task /\ task'.toolCalls < Threshold /\ task' # Nil
      BY <3>1, NewTaskType, DataAssumption
    <3> QED BY <3>1, <3>2 DEF TypeOK
  <2>2. CASE UpdatePhaseStatus
    BY <2>2, ChangeMarks
  <2>3. CASE Crash
    BY <2>3 DEF Crash, TypeOK
  <2>4. CASE \E c \in Callers : Call(c)
    BY <2>4, CallType
  <2>5. CASE \E c \in Callers : Continue(c)
    BY <2>5, HookType, TrackerType, StepType, PlanType DEF Continue
  <2>6. CASE UNCHANGED vars
    BY <2>6 DEF vars, TypeOK
  <2> QED BY <2>1, <2>2, <2>3, <2>4, <2>5, <2>6 DEF Next, Environment
<1> QED BY <1>1, <1>2, PTL DEF Spec
-----------------------------------------------------------------------------
(* The completion check.                                                    *)

(* A check that has said stop, and under which no phase has changed.        *)
StopInv ==
    \A c \in Callers :
        at[c] = "reboot check" /\ ~call[c].changed /\ call[c].last = "stop" => Incomplete = {}

(* What a step can do to a caller between the two looks of a check.         *)
LookKept(c) ==
    /\ at'[c] = at[c]
    /\ \/ call'[c] = call[c] /\ SamePlan(task', task)
       \/ call'[c] = Marking(c)

Outside(c) == at[c] # "reboot check" /\ at'[c] # "reboot check"

LEMMA OthersLook ==
    ASSUME TypeOK, NEW c \in Callers, NEW d \in Callers, NEW x \in Places, NEW l,
           Moves(d, x, l), SamePlan(task', task), d = c => Outside(c)
    PROVE  Outside(c) \/ LookKept(c)
  BY DEF TypeOK, Moves, LookKept

LEMMA CheckSteps ==
    ASSUME TypeOK, NEW c \in Callers, [Next]_vars
    PROVE  \/ RebootCheck(c) \/ CheckCompletion(c)
           \/ Outside(c) \/ (at[c] = "reboot check" /\ LookKept(c))
  <1>1. CASE StartSession
    BY <1>1 DEF StartSession, TypeOK, Outside
  <1>2. CASE UpdatePhaseStatus
    <2>1. at' = at
      BY <1>2 DEF UpdatePhaseStatus
    <2> QED BY <1>2, <2>1, ChangeMarks DEF Outside, LookKept
  <1>3. CASE Crash \/ UNCHANGED vars
    BY <1>3 DEF Crash, vars, Outside, LookKept, SamePlan
  <1>4. ASSUME NEW d \in Callers, Call(d), ~CheckCompletion(d)
        PROVE  Outside(c) \/ LookKept(c)
    <2>1. PostActionHook(d) => LookKept(c)
      BY DEF PostActionHook, LookKept, SamePlan
    <2>2. ~PostActionHook(d) => \E x \in Places \ {"reboot check"} : \E l :
                                   at[d] = "idle" /\ Moves(d, x, l) /\ task' = task
      BY <1>4 DEF Call, PreActionHook, TrackError, ResolveError, ExecuteStep, BeginTracking,
                  Begin, Go, Moves, Places
    <2> QED BY <2>1, <2>2, OthersLook DEF SamePlan, Outside, Moves, TypeOK
  <1>5. ASSUME NEW d \in Callers, CheckCompletion(d), d # c
        PROVE  Outside(c) \/ LookKept(c)
    BY <1>5 DEF CheckCompletion, Begin, Go, LookKept, SamePlan, TypeOK
  <1>6. ASSUME NEW d \in Callers, Continue(d), ~RebootCheck(d)
        PROVE  Outside(c) \/ LookKept(c)
    <2>1. CASE ClearNeedsReread(d) \/ IncrementToolCallCount(d)
      <3>1. PICK x \in {"count", "idle"} : Moves(d, x, call[d]) /\ at[d] \in {"clear", "count"}
        BY <2>1 DEF ClearNeedsReread, IncrementToolCallCount, Step1, Go, Moves, TypeOK
      <3>2. SamePlan(task', task)
        <4>1. task \in Task /\ (task' = WithReread(task, FALSE) \/ task' = WithToolCall(task))
          BY <2>1, HookType
        <4>2. task.toolCalls < Threshold
          BY <4>1 DEF TypeOK
        <4> QED BY <4>1, <4>2, EditsAreTasks
      <3>3. d = c => Outside(c)
        BY <3>1 DEF Moves, TypeOK, Outside
      <3>4. x \in Places
        BY <3>1 DEF Places
      <3> QED BY <3>1, <3>2, <3>3, <3>4, OthersLook
    <2>2. CASE CompleteStep(d)
      <3>1. d = c => Outside(c)
        BY <2>2 DEF CompleteStep, Step1, Go, TypeOK, Outside
      <3>2. d # c => at'[c] = at[c] /\ call'[c] \in {Marking(c), call[c]}
                     /\ (at[c] = "reboot check" => call'[c] = Marking(c))
        BY <2>2 DEF CompleteStep, Step1, Go, TypeOK, Marking
      <3> QED BY <3>1, <3>2 DEF Outside, LookKept
    <2>3. CASE ~(ClearNeedsReread(d) \/ IncrementToolCallCount(d) \/ CompleteStep(d))
      <3>1. task' = task /\ (d # c => call'[c] = call[c] /\ at'[c] = at[c])
        BY <1>6, <2>3 DEF Continue, AddStrike, RecordStrike, NoteResolution, ForgetStrikes,
             RecordResolution, Act, Succeed, ActionError, Unsuccessful, Silent, RecordFailure,
             NextAttempt, Return, Step1, Go, TypeOK
      <3>2. d = c => Outside(c)
        BY <1>6, <2>3 DEF Continue, AddStrike, RecordStrike, NoteResolution, ForgetStrikes,
             RecordResolution, Act, Succeed, ActionError, Unsuccessful, Silent, RecordFailure,
             NextAttempt, Return, Step1, Go, TypeOK, Outside
      <3> QED BY <3>1, <3>2 DEF LookKept, SamePlan
    <2> QED BY <2>1, <2>2, <2>3
  <1>7. ASSUME NEW d \in Callers, RebootCheck(d), d # c
        PROVE  Outside(c) \/ LookKept(c)
    BY <1>7 DEF RebootCheck, Step1, Go, LookKept, SamePlan, TypeOK
  <1>8. LookKept(c) => Outside(c) \/ at[c] = "reboot check"
    BY DEF LookKept, Outside
  <1>9. CASE Next
    <2>1. \/ StartSession \/ UpdatePhaseStatus \/ Crash
          \/ \E d \in Callers : Call(d) \/ Continue(d)
      BY <1>9 DEF Next, Environment
    <2> QED BY <1>1, <1>2, <1>3, <1>4, <1>5, <1>6, <1>7, <1>8, <2>1
  <1> QED BY <1>3, <1>8, <1>9

LEMMA StopInvariance == Spec => []StopInv
<1>1. Init => StopInv
  BY DEF Init, StopInv
<1>2. TypeOK /\ StopInv /\ [Next]_vars => StopInv'
  <2> SUFFICES ASSUME TypeOK, StopInv, [Next]_vars, NEW c \in Callers, at'[c] = "reboot check",
                      ~call'[c].changed, call'[c].last = "stop"
               PROVE  Incomplete' = {}
    BY DEF StopInv
  <2>1. CASE RebootCheck(c)
    BY <2>1 DEF RebootCheck, Step1, Go, TypeOK
  <2>2. CASE CheckCompletion(c)
    <3>1. /\ call'[c] = [Idle EXCEPT !.last = IF Incomplete = {} THEN "stop" ELSE "go on"]
          /\ task' = task
      BY <2>2 DEF CheckCompletion, Begin, TypeOK
    <3>2. Incomplete = {}
      BY <3>1 DEF Idle
    <3> QED BY <3>1, <3>2 DEF Incomplete
  <2>3. CASE at[c] = "reboot check" /\ LookKept(c)
    <3>1. call'[c] # Marking(c)
      BY DEF Marking, TypeOK, Locals
    <3>2. call'[c] = call[c] /\ SamePlan(task', task)
      BY <2>3, <3>1 DEF LookKept
    <3>3. Incomplete' = Incomplete
      BY <3>2 DEF Incomplete, SamePlan
    <3> QED BY <2>3, <3>2, <3>3 DEF StopInv
  <2> QED BY <2>1, <2>2, <2>3, CheckSteps DEF Outside
<1> QED BY <1>1, <1>2, TypeInvariance, PTL DEF Spec

(* CompletionChecker.Check (executor.go:622-642), for any number of callers *)
(* and phases: when the first of its two looks said stop and no phase has    *)
(* changed since, every phase is complete and the second look names none.   *)
THEOREM StopsAreJustified == Spec => StopIsJustified
<1>1. TypeOK /\ StopInv /\ [Next]_vars =>
         [\A c \in Callers :
             at[c] = "reboot check" /\ at'[c] = "ended" /\ call'[c].last = "stop"
             /\ ~call[c].changed => Incomplete = {} /\ call'[c].going = {}]_vars
  <2> SUFFICES ASSUME TypeOK, StopInv, [Next]_vars, NEW c \in Callers, at[c] = "reboot check",
                      at'[c] = "ended", call'[c].last = "stop", ~call[c].changed
               PROVE  Incomplete = {} /\ call'[c].going = {}
    OBVIOUS
  <2>1. RebootCheck(c)
    BY CheckSteps DEF Outside, LookKept, CheckCompletion, Begin
  <2> DEFINE open == {i \in Incomplete : i > task.currentPhase}
  <2>2. call'[c] = [call[c] EXCEPT !.going = open] /\ call[c] \in Locals
    BY <2>1 DEF RebootCheck, TypeOK
  <2>3. call[c].last = "stop" /\ call'[c].going = open
    BY <2>2 DEF Locals
  <2>4. Incomplete = {}
    BY <2>3 DEF StopInv
  <2> QED BY <2>3, <2>4
<1> QED BY <1>1, TypeInvariance, StopInvariance, PTL DEF Spec, StopIsJustified
-----------------------------------------------------------------------------
(* The attention hooks.  Of n callers, a are about to clear the mark and b to *)
(* count a call.  Every clearing can take back one mark: until the k-th of   *)
(* them, no more than k marks went unseen, the j-th with at most j - 1 calls  *)
(* that were under way when it was set.                                     *)
Marks(k) == k * Threshold
Unseen(k) == k * Threshold + (k * (k - 1)) \div 2

LEMMA MarksGrow ==
    ASSUME NEW k \in Nat
    PROVE  /\ Marks(k) \in Nat /\ Marks(k) >= k /\ Marks(k + 1) = Marks(k) + Threshold
           /\ Unseen(k) \in Nat /\ Unseen(k) >= k /\ Unseen(k + 1) = Unseen(k) + Threshold + k
  <1>1. Threshold \in Nat /\ Threshold >= 1
    BY DataAssumption
  <1>2. Marks(k) \in Nat /\ Marks(k) >= k /\ Marks(k + 1) = Marks(k) + Threshold
    BY <1>1 DEF Marks
  <1> DEFINE m == k * (k - 1)
  <1>3. (k + 1) * ((k + 1) - 1) = m + 2 * k
    OBVIOUS
  <1>4. m \in Nat
    <2>1. CASE k = 0
      BY <2>1
    <2>2. CASE k > 0
      <3>1. k - 1 \in Nat
        BY <2>2
      <3> QED BY <3>1
    <2> QED BY <2>1, <2>2
  <1> HIDE DEF m
  <1>5. (m + 2 * k) \div 2 = (m \div 2) + k /\ m \div 2 \in Nat
    BY <1>4
  <1>6. Unseen(k) = Marks(k) + (m \div 2)
    BY DEF Unseen, Marks, m
  <1>7. Unseen(k + 1) = Marks(k + 1) + (m \div 2) + k
    <2>1. Unseen(k + 1) = Marks(k + 1) + ((m + 2 * k) \div 2)
      BY <1>3 DEF Unseen, Marks
    <2>2. Marks(k + 1) \in Nat
      BY <1>2, <1>1
    <2> QED BY <1>5, <2>1, <2>2
  <1> QED BY <1>1, <1>2, <1>5, <1>6, <1>7

(* With t calls since the last mark, q calls unseen is no more than these     *)
(* many: the second bound is for callers too few to set a mark unseen.      *)
Bounded(n, a, b, t, marked, q) ==
    IF marked
    THEN /\ q + b <= Unseen(n - a)
         /\ n <= Threshold + 1 =>
               \/ q + b <= n - a
               \/ q <= Marks(n - a) + t /\ t + b <= n - a - 1
               \/ a = 0 /\ q + b <= Marks(n) + n - 1
    ELSE /\ a < n
         /\ q <= Unseen(n - a - 1) + t
         /\ n <= Threshold + 1 => q <= Marks(n - a - 1) + t

LEMMA MarksMonotone ==
    ASSUME NEW j \in Nat, NEW k \in Nat, j <= k
    PROVE  Marks(j) <= Marks(k) /\ Unseen(j) <= Unseen(k)
  <1>1. Threshold \in Nat
    BY DataAssumption
  <1>2. PICK d \in Nat : k = j + d
    <2>1. k - j \in Nat /\ k = j + (k - j)
      OBVIOUS
    <2> QED BY <2>1
  <1>3. Marks(k) = Marks(j) + d * Threshold /\ d * Threshold \in Nat /\ Marks(j) \in Nat
    BY <1>1, <1>2 DEF Marks
  <1> DEFINE m == j * (j - 1)
             e == k * (k - 1)
  <1>4. m \in Nat /\ e \in Nat /\ m <= e
    <2>1. ASSUME NEW i \in Nat PROVE i * (i - 1) \in Nat
      <3>1. CASE i = 0
        BY <3>1
      <3>2. CASE i > 0
        <4>1. i - 1 \in Nat
          BY <3>2
        <4> QED BY <4>1
      <3> QED BY <3>1, <3>2
    <2>2. e = m + 2 * (j * d) + d * (d - 1)
      BY <1>2
    <2>3. j * d \in Nat /\ d * (d - 1) \in Nat /\ m \in Nat /\ e \in Nat
      BY <2>1
    <2> HIDE DEF m, e
    <2> QED BY <2>2, <2>3
  <1> HIDE DEF m, e
  <1>5. m \div 2 \in Nat /\ e \div 2 \in Nat /\ m \div 2 <= e \div 2
    BY <1>4
  <1>6. Unseen(j) = Marks(j) + (m \div 2) /\ Unseen(k) = Marks(k) + (e \div 2)
    BY DEF Unseen, Marks, m, e
  <1> QED BY <1>3, <1>5, <1>6

LEMMA BoundedAlways ==
    ASSUME NEW n \in Nat, NEW a \in Nat, NEW b \in Nat, NEW t \in Nat, NEW q \in Nat,
           NEW marked, a + b <= n, n > 0, t < Threshold, Bounded(n, a, b, t, marked, q)
    PROVE  q <= Unseen(n) /\ (n <= Threshold + 1 => q <= Marks(n) + n - 1)
  <1>1. Threshold \in Nat /\ Threshold >= 1
    BY DataAssumption
  <1>2. n - a \in Nat /\ n - a <= n
    OBVIOUS
  <1>3. /\ Marks(n - a) <= Marks(n) /\ Unseen(n - a) <= Unseen(n)
        /\ Marks(n - a) \in Nat /\ Unseen(n - a) \in Nat /\ Marks(n) \in Nat /\ Marks(n) >= n
    <2>1. Marks(n - a) <= Marks(n) /\ Unseen(n - a) <= Unseen(n)
      BY <1>2, MarksMonotone
    <2> QED BY <1>2, <2>1, MarksGrow
  <1>4. Unseen(n) \in Nat
    BY MarksGrow
  <1>5. CASE marked
    BY <1>1, <1>3, <1>4, <1>5 DEF Bounded
  <1>6. CASE ~marked
    <2> DEFINE k == n - a - 1
    <2>1. k \in Nat /\ k + 1 = n - a
      BY <1>6 DEF Bounded
    <2>2. /\ Marks(k) \in Nat /\ Unseen(k) \in Nat /\ Marks(k + 1) = Marks(k) + Threshold
          /\ Unseen(k + 1) = Unseen(k) + Threshold + k
      BY <2>1, MarksGrow
    <2>3. q <= Unseen(k) + t /\ (n <= Threshold + 1 => q <= Marks(k) + t)
      BY <1>6 DEF Bounded
    <2> HIDE DEF k
    <2> QED BY <1>1, <1>3, <1>4, <2>1, <2>2, <2>3
  <1> QED BY <1>5, <1>6

(* A call is counted. *)
LEMMA BoundedCount ==
    ASSUME NEW n \in Nat, NEW a \in Nat, NEW b \in Nat, NEW t \in Nat, NEW q \in Nat,
           NEW marked, a + b <= n, b > 0, t < Threshold, Bounded(n, a, b, t, marked, q)
    PROVE  IF t + 1 >= Threshold THEN Bounded(n, a, b - 1, 0, TRUE, q + 1)
           ELSE Bounded(n, a, b - 1, t + 1, marked, q + 1)
  <1>1. Threshold \in Nat /\ Threshold >= 1
    BY DataAssumption
  <1> DEFINE k == n - a - 1
  <1>2. k \in Nat /\ k + 1 = n - a
    OBVIOUS
  <1>3. /\ Marks(k) \in Nat /\ Unseen(k) \in Nat /\ Marks(k + 1) = Marks(k) + Threshold
        /\ Unseen(k + 1) = Unseen(k) + Threshold + k
    BY <1>2, MarksGrow
  <1>4. Marks(n) \in Nat
    BY MarksGrow
  <1> HIDE DEF k
  <1>5. CASE t + 1 >= Threshold /\ marked
    <2>1. (q + 1) + (b - 1) <= Unseen(n - a)
      BY <1>5 DEF Bounded
    <2>2. ASSUME n <= Threshold + 1
          PROVE  \/ (q + 1) + (b - 1) <= n - a
                 \/ a = 0 /\ (q + 1) + (b - 1) <= Marks(n) + n - 1
      <3>1. \/ q + b <= n - a
            \/ q <= Marks(n - a) + t /\ t + b <= n - a - 1
            \/ a = 0 /\ q + b <= Marks(n) + n - 1
        BY <1>5, <2>2 DEF Bounded
      <3>2. CASE q <= Marks(n - a) + t /\ t + b <= n - a - 1
        <4>1. a = 0
          BY <1>1, <1>5, <2>2, <3>2
        <4>2. n - a = n
          BY <4>1
        <4> QED BY <1>4, <3>2, <4>1, <4>2
      <3> QED BY <3>1, <3>2
    <2> QED BY <1>5, <2>1, <2>2 DEF Bounded
  <1>6. CASE t + 1 >= Threshold /\ ~marked
    <2>1. q <= Unseen(k) + t /\ (n <= Threshold + 1 => q <= Marks(k) + t)
      BY <1>6 DEF Bounded, k
    <2>2. t = Threshold - 1
      BY <1>1, <1>6
    <2>3. (q + 1) + (b - 1) <= Unseen(k + 1)
      BY <1>1, <1>2, <1>3, <2>1, <2>2
    <2>4. n <= Threshold + 1 => q + 1 <= Marks(k + 1) + 0 /\ 0 + (b - 1) <= n - a - 1
      BY <1>1, <1>2, <1>3, <2>1, <2>2
    <2> QED BY <1>2, <1>6, <2>3, <2>4 DEF Bounded
  <1>7. CASE ~(t + 1 >= Threshold) /\ marked
    <2>1. (q + 1) + (b - 1) <= Unseen(n - a)
      BY <1>7 DEF Bounded
    <2>2. Marks(n - a) \in Nat
      BY <1>1, <1>2, <1>3
    <2>3. ASSUME n <= Threshold + 1
          PROVE  \/ (q + 1) + (b - 1) <= n - a
                 \/ q + 1 <= Marks(n - a) + (t + 1) /\ (t + 1) + (b - 1) <= n - a - 1
                 \/ a = 0 /\ (q + 1) + (b - 1) <= Marks(n) + n - 1
      <3>1. \/ q + b <= n - a
            \/ q <= Marks(n - a) + t /\ t + b <= n - a - 1
            \/ a = 0 /\ q + b <= Marks(n) + n - 1
        BY <1>7, <2>3 DEF Bounded
      <3> QED BY <1>4, <2>2, <3>1
    <2> QED BY <1>7, <2>1, <2>3 DEF Bounded
  <1>8. CASE ~(t + 1 >= Threshold) /\ ~marked
    <2>1. a < n /\ q <= Unseen(k) + t /\ (n <= Threshold + 1 => q <= Marks(k) + t)
      BY <1>8 DEF Bounded, k
    <2>2. q + 1 <= Unseen(k) + (t + 1) /\ (n <= Threshold + 1 => q + 1 <= Marks(k) + (t + 1))
      BY <1>3, <2>1
    <2> QED BY <1>8, <2>1, <2>2 DEF Bounded, k
  <1> QED BY <1>5, <1>6, <1>7, <1>8

(* A call sees the mark, or begins without one. *)
LEMMA BoundedBegin ==
    ASSUME NEW n \in Nat, NEW a \in Nat, NEW b \in Nat, NEW t \in Nat, NEW q \in Nat,
           NEW marked, a + b < n, Bounded(n, a, b, t, marked, q)
    PROVE  IF marked THEN Bounded(n, a + 1, b, t, marked, 0)
           ELSE Bounded(n, a, b + 1, t, marked, q)
  <1>1. CASE marked
    <2>1. n - (a + 1) \in Nat /\ b <= n - (a + 1)
      OBVIOUS
    <2>2. Unseen(n - (a + 1)) \in Nat /\ Unseen(n - (a + 1)) >= n - (a + 1)
      BY <2>1, MarksGrow
    <2>3. 0 + b <= Unseen(n - (a + 1)) /\ 0 + b <= n - (a + 1)
      BY <2>1, <2>2
    <2> QED BY <1>1, <2>3 DEF Bounded
  <1>2. CASE ~marked
    BY <1>2 DEF Bounded
  <1> QED BY <1>1, <1>2

(* A mark is cleared, whether or not it is the one that was seen. *)
LEMMA BoundedClear ==
    ASSUME NEW n \in Nat, NEW a \in Nat, NEW b \in Nat, NEW t \in Nat, NEW q \in Nat,
           NEW marked, a + b <= n, a > 0, t < Threshold, Bounded(n, a, b, t, marked, q)
    PROVE  Bounded(n, a - 1, b + 1, t, FALSE, q)
  <1>1. Threshold \in Nat /\ Threshold >= 1
    BY DataAssumption
  <1> DEFINE j == n - a
  <1>2. j \in Nat /\ n - (a - 1) - 1 = j /\ a - 1 < n
    OBVIOUS
  <1>3. /\ Marks(j) \in Nat /\ Unseen(j) \in Nat /\ Marks(j) >= j
    BY <1>2, MarksGrow
  <1>4. q <= Unseen(j) + t /\ (n <= Threshold + 1 => q <= Marks(j) + t)
    <2>1. CASE marked
      <3>1. q + b <= Unseen(j)
        BY <2>1 DEF Bounded
      <3>2. n <= Threshold + 1 => q + b <= j \/ q <= Marks(j) + t
        BY <2>1 DEF Bounded
      <3> HIDE DEF j
      <3> QED BY <1>2, <1>3, <3>1, <3>2
    <2>2. CASE ~marked
      <3> DEFINE k == n - a - 1
      <3>1. /\ a < n /\ q <= Unseen(k) + t /\ (n <= Threshold + 1 => q <= Marks(k) + t)
        BY <2>2 DEF Bounded
      <3>2. k \in Nat /\ k + 1 = j
        BY <3>1
      <3>3. /\ Marks(k) \in Nat /\ Unseen(k) \in Nat /\ Marks(k + 1) = Marks(k) + Threshold
            /\ Unseen(k + 1) = Unseen(k) + Threshold + k
        BY <3>2, MarksGrow
      <3> HIDE DEF j, k
      <3> QED BY <1>1, <3>1, <3>2, <3>3
    <2> QED BY <2>1, <2>2
  <1> QED BY <1>2, <1>4 DEF Bounded

Clearing == {c \in Callers : at[c] = "clear"}
Counting == {c \in Callers : at[c] = "count"}

RereadInv ==
    /\ N = 0 => quiet = 0
    /\ N > 0 /\ task \in Task =>
          Bounded(N, Cardinality(Clearing), Cardinality(Counting), task.toolCalls,
                  task.needsReread, quiet)

LEMMA HooksCounted ==
    /\ IsFiniteSet(Clearing) /\ IsFiniteSet(Counting)
    /\ Cardinality(Clearing) \in Nat /\ Cardinality(Counting) \in Nat /\ N \in Nat
    /\ Cardinality(Clearing) + Cardinality(Counting) <= N
    /\ \A c \in Callers : /\ N > 0
                          /\ at[c] \notin {"clear", "count"} =>
                                Cardinality(Clearing) + Cardinality(Counting) < N
                          /\ c \in Clearing => Cardinality(Clearing) > 0
                          /\ c \in Counting => Cardinality(Counting) > 0
  <1> DEFINE U == Clearing \cup Counting
  <1>1. IsFiniteSet(Callers) /\ N \in Nat
    BY SessionsAssumption, FS_CardinalityType DEF N
  <1>2. Clearing \in SUBSET Callers /\ Counting \in SUBSET Callers /\ U \in SUBSET Callers
    BY DEF Clearing, Counting
  <1>3. /\ IsFiniteSet(Clearing) /\ IsFiniteSet(Counting) /\ IsFiniteSet(U)
        /\ Cardinality(Clearing) \in Nat /\ Cardinality(Counting) \in Nat
    BY <1>1, <1>2, FS_Subset, FS_CardinalityType
  <1>4. Clearing \cap Counting = {}
    BY DEF Clearing, Counting
  <1>5. Cardinality(U) = Cardinality(Clearing) + Cardinality(Counting)
    <2>1. Cardinality(Clearing \cap Counting) = 0
      BY <1>4, FS_EmptySet, Zenon
    <2>2. Cardinality(U) = Cardinality(Clearing) + Cardinality(Counting)
                             - Cardinality(Clearing \cap Counting)
      BY <1>3, FS_Union
    <2> HIDE DEF U
    <2> QED BY <1>3, <2>1, <2>2
  <1>6. Cardinality(U) <= N
    BY <1>1, <1>2, FS_Subset DEF N
  <1>7. ASSUME NEW c \in Callers
        PROVE  /\ N > 0
               /\ at[c] \notin {"clear", "count"} => Cardinality(U) < N
               /\ c \in Clearing => Cardinality(Clearing) > 0
               /\ c \in Counting => Cardinality(Counting) > 0
    <2>1. N > 0
      BY <1>1, FS_EmptySet DEF N
    <2>2. ASSUME at[c] \notin {"clear", "count"} PROVE Cardinality(U) < N
      <3>1. c \notin U
        BY <2>2 DEF Clearing, Counting
      <3>2. U # Callers
        BY <3>1
      <3> HIDE DEF U
      <3>3. Cardinality(U) # Cardinality(Callers)
        BY <1>1, <1>2, <3>2, FS_Subset
      <3>4. Cardinality(U) \in Nat
        BY <1>3, FS_CardinalityType
      <3> QED BY <1>1, <1>6, <3>3, <3>4 DEF N
    <2>3. c \in Clearing => Cardinality(Clearing) > 0
      BY <1>3, FS_EmptySet
    <2>4. c \in Counting => Cardinality(Counting) > 0
      BY <1>3, FS_EmptySet
    <2> QED BY <2>1, <2>2, <2>3, <2>4
  <1> HIDE DEF U
  <1> QED BY <1>1, <1>3, <1>5, <1>6, <1>7

LEMMA HooksMove ==
    ASSUME TypeOK, NEW c \in Callers, NEW x \in {"idle", "clear", "count"},
           at[c] \in {"idle", "clear", "count"}, x # at[c], at' = [at EXCEPT ![c] = x]
    PROVE  /\ Cardinality(Clearing)' = IF x = "clear" THEN Cardinality(Clearing) + 1
                                       ELSE IF at[c] = "clear" THEN Cardinality(Clearing) - 1
                                       ELSE Cardinality(Clearing)
           /\ Cardinality(Counting)' = IF x = "count" THEN Cardinality(Counting) + 1
                                       ELSE IF at[c] = "count" THEN Cardinality(Counting) - 1
                                       ELSE Cardinality(Counting)
  <1>1. /\ Clearing' = IF x = "clear" THEN Clearing \cup {c}
                       ELSE IF at[c] = "clear" THEN Clearing \ {c} ELSE Clearing
        /\ Counting' = IF x = "count" THEN Counting \cup {c}
                       ELSE IF at[c] = "count" THEN Counting \ {c} ELSE Counting
    BY DEF Clearing, Counting, TypeOK
  <1>2. /\ x = "clear" => c \notin Clearing
        /\ x = "count" => c \notin Counting
        /\ at[c] = "clear" => c \in Clearing
        /\ at[c] = "count" => c \in Counting
    BY DEF Clearing, Counting
  <1>3. ASSUME NEW S, IsFiniteSet(S)
        PROVE  /\ c \notin S => Cardinality(S \cup {c}) = Cardinality(S) + 1
               /\ c \in S => Cardinality(S \ {c}) = Cardinality(S) - 1
    BY <1>3, FS_AddElement, FS_RemoveElement
  <1> QED BY <1>1, <1>2, <1>3, HooksCounted

LEMMA RereadAside ==
    ASSUME TypeOK, RereadInv, task \in Task, SameCounts(task', task), quiet' = quiet,
           \A c \in Callers : \/ at'[c] = at[c]
                              \/ {at[c], at'[c]} \cap {"clear", "count"} = {}
    PROVE  RereadInv'
  <1>1. Clearing' = Clearing /\ Counting' = Counting
    BY DEF Clearing, Counting
  <1> QED BY <1>1 DEF RereadInv, SameCounts, N

LEMMA RereadHooks ==
    ASSUME TypeOK, RereadInv, NEW c \in Callers, task' \in Task,
           PreActionHook(c) \/ ClearNeedsReread(c) \/ IncrementToolCallCount(c)
    PROVE  RereadInv'
  <1> DEFINE a == Cardinality(Clearing)
             b == Cardinality(Counting)
             t == task.toolCalls
             marked == task.needsReread
  <1>1. task \in Task
    BY DEF TypeOK, PreActionHook, ClearNeedsReread, IncrementToolCallCount, Begin, Step1
  <1>2. t \in Nat /\ t < Threshold /\ marked \in BOOLEAN /\ quiet \in Nat
    BY <1>1 DEF TypeOK, Task
  <1>3. N \in Nat /\ N > 0 /\ a \in Nat /\ b \in Nat /\ a + b <= N
    BY HooksCounted
  <1>4. Bounded(N, a, b, t, marked, quiet)
    BY <1>1, <1>3 DEF RereadInv
  <1>5. N' = N
    BY DEF N
  <1>6. CASE PreActionHook(c)
    <2>1. /\ at[c] = "idle"
          /\ at' = [at EXCEPT ![c] = IF marked THEN "clear" ELSE "count"]
          /\ quiet' = IF marked THEN 0 ELSE quiet
          /\ task' = task
      BY <1>6 DEF PreActionHook, Begin, Go
    <2>2. a + b < N
      BY <2>1, HooksCounted
    <2>3. IF marked THEN Bounded(N, a + 1, b, t, marked, 0)
          ELSE Bounded(N, a, b + 1, t, marked, quiet)
      BY <1>2, <1>3, <1>4, <2>2, BoundedBegin
    <2>4. CASE marked
      <3>1. at' = [at EXCEPT ![c] = "clear"] /\ quiet' = 0
        BY <2>1, <2>4
      <3>2. Cardinality(Clearing)' = a + 1 /\ Cardinality(Counting)' = b
        BY <2>1, <3>1, HooksMove
      <3> HIDE DEF a, b
      <3> QED BY <1>3, <1>5, <2>1, <2>3, <2>4, <3>1, <3>2 DEF RereadInv
    <2>5. CASE ~marked
      <3>1. at' = [at EXCEPT ![c] = "count"] /\ quiet' = quiet
        BY <2>1, <2>5
      <3>2. Cardinality(Clearing)' = a /\ Cardinality(Counting)' = b + 1
        BY <2>1, <3>1, HooksMove
      <3> HIDE DEF a, b
      <3> QED BY <1>3, <1>5, <2>1, <2>3, <2>5, <3>1, <3>2 DEF RereadInv
    <2> QED BY <2>4, <2>5
  <1>7. CASE ClearNeedsReread(c)
    <2>1. /\ at[c] = "clear" /\ at' = [at EXCEPT ![c] = "count"] /\ quiet' = quiet
          /\ task' = WithReread(task, FALSE)
      BY <1>7 DEF ClearNeedsReread, Step1, Go
    <2>2. task'.toolCalls = t /\ task'.needsReread = FALSE
      <3>1. task'.toolCalls = t /\ ~task'.needsReread
        BY <1>1, <1>2, <2>1, EditsAreTasks
      <3>2. task'.needsReread \in BOOLEAN
        BY DEF Task
      <3> QED BY <3>1, <3>2
    <2>3. a > 0
      BY <2>1, HooksCounted DEF Clearing
    <2>4. Bounded(N, a - 1, b + 1, t, FALSE, quiet)
      BY <1>2, <1>3, <1>4, <2>3, BoundedClear
    <2>5. Cardinality(Clearing)' = a - 1 /\ Cardinality(Counting)' = b + 1
      BY <2>1, HooksMove
    <2> HIDE DEF a, b
    <2> QED BY <1>3, <1>5, <2>1, <2>2, <2>4, <2>5 DEF RereadInv
  <1>8. CASE IncrementToolCallCount(c)
    <2>1. /\ at[c] = "count" /\ at' = [at EXCEPT ![c] = "idle"] /\ quiet' = quiet + 1
          /\ task' = WithToolCall(task)
      BY <1>8 DEF IncrementToolCallCount, Step1, Go
    <2>2. IF t + 1 >= Threshold THEN task'.toolCalls = 0 /\ task'.needsReread
          ELSE task'.toolCalls = t + 1 /\ task'.needsReread = marked
      BY <1>1, <1>2, <2>1, EditsAreTasks
    <2>3. b > 0
      BY <2>1, HooksCounted DEF Counting
    <2>4. IF t + 1 >= Threshold THEN Bounded(N, a, b - 1, 0, TRUE, quiet + 1)
          ELSE Bounded(N, a, b - 1, t + 1, marked, quiet + 1)
      BY <1>2, <1>3, <1>4, <2>3, BoundedCount
    <2>5. Cardinality(Clearing)' = a /\ Cardinality(Counting)' = b - 1
      BY <2>1, HooksMove
    <2>6. task'.needsReread \in BOOLEAN
      BY DEF Task
    <2>7. Bounded(N, a, b - 1, task'.toolCalls, task'.needsReread, quiet')
      <3> HIDE DEF a, b
      <3>1. CASE t + 1 >= Threshold
        <4>1. task'.toolCalls = 0 /\ task'.needsReread = TRUE
          BY <2>2, <2>6, <3>1
        <4> QED BY <2>1, <2>4, <3>1, <4>1
      <3>2. CASE ~(t + 1 >= Threshold)
        BY <2>1, <2>2, <2>4, <3>2
      <3> QED BY <3>1, <3>2
    <2> HIDE DEF a, b
    <2> QED BY <1>3, <1>5, <2>1, <2>5, <2>7 DEF RereadInv
  <1> QED BY <1>6, <1>7, <1>8

LEMMA RereadInvariance == Spec => []RereadInv
<1>1. Init => RereadInv
  BY DataAssumption DEF Init, RereadInv
<1>2. TypeOK /\ TypeOK' /\ RereadInv /\ [Next]_vars => RereadInv'
  <2> SUFFICES ASSUME TypeOK, TypeOK', RereadInv, [Next]_vars
               PROVE  RereadInv'
    OBVIOUS
  <2>1. CASE StartSession
    <3>1. /\ task = Nil /\ task' = NewContext.task /\ at' = at /\ quiet' = quiet
      BY <2>1 DEF StartSession
    <3>2. quiet' = 0 /\ Clearing' = {} /\ Counting' = {}
      BY <3>1 DEF TypeOK, Clearing, Counting
    <3>3. Cardinality({}) = 0
      BY FS_EmptySet, Zenon
    <3>4. Cardinality(Clearing)' = 0 /\ Cardinality(Counting)' = 0
      BY <3>2, <3>3
    <3>5. task'.toolCalls = 0 /\ task'.needsReread = FALSE
      BY <3>1, NewTaskType
    <3>6. ASSUME N > 0 PROVE Bounded(N, 0, 0, 0, FALSE, 0)
      <4>1. N \in Nat /\ N - 0 - 1 \in Nat
        BY <3>6, HooksCounted
      <4>2. Unseen(N - 0 - 1) \in Nat /\ Marks(N - 0 - 1) \in Nat
        BY <4>1, MarksGrow
      <4> QED BY <3>6, <4>1, <4>2 DEF Bounded
    <3> QED BY <3>2, <3>4, <3>5, <3>6 DEF RereadInv, N
  <2>2. CASE UpdatePhaseStatus
    <3>1. at' = at /\ quiet' = quiet
      BY <2>2 DEF UpdatePhaseStatus
    <3> QED BY <2>2, <3>1, ChangeMarks, RereadAside
  <2>3. CASE Crash \/ UNCHANGED vars
    BY <2>3 DEF Crash, vars, RereadInv, Clearing, Counting, N
  <2>4. ASSUME NEW c \in Callers, Call(c)
        PROVE  RereadInv'
    <3>1. task \in Task /\ task' = task
      BY <2>4, CallType DEF Call, PreActionHook, PostActionHook, CheckCompletion, TrackError,
           ResolveError, ExecuteStep, BeginTracking
    <3>2. CASE ~PreActionHook(c)
      <4>1. /\ quiet' = quiet
            /\ \A d \in Callers : \/ at'[d] = at[d]
                                  \/ {at[d], at'[d]} \cap {"clear", "count"} = {}
        BY <2>4, <3>2 DEF Call, PostActionHook, CheckCompletion, TrackError, ResolveError,
             ExecuteStep, BeginTracking, Begin, Go, TypeOK
      <4> QED BY <3>1, <4>1, RereadAside DEF SameCounts
    <3> QED BY <3>1, <3>2, RereadHooks
  <2>5. ASSUME NEW c \in Callers, Continue(c)
        PROVE  RereadInv'
    <3>1. CASE ClearNeedsReread(c) \/ IncrementToolCallCount(c)
      <4>1. task \in Task /\ task' \in Task
        <5>1. task \in Task /\ (task' = WithReread(task, FALSE) \/ task' = WithToolCall(task))
          BY <3>1, HookType
        <5> QED BY <5>1, EditsAreTasks DEF TypeOK
      <4> QED BY <3>1, <4>1, RereadHooks
    <3>2. CASE CompleteStep(c)
      <4>1. task \in Task /\ task' = WithStepCompleted(task, 1, 1) /\ quiet' = quiet
        BY <3>2, PlanType DEF CompleteStep
      <4>2. SameCounts(task', task)
        BY <4>1, EditsAreTasks DEF TypeOK
      <4>3. \A d \in Callers : \/ at'[d] = at[d]
                               \/ {at[d], at'[d]} \cap {"clear", "count"} = {}
        BY <3>2 DEF CompleteStep, Step1, Go, TypeOK
      <4> QED BY <4>1, <4>2, <4>3, RereadAside
    <3>3. CASE ~(ClearNeedsReread(c) \/ IncrementToolCallCount(c) \/ CompleteStep(c))
      <4>1. task \in Task
        BY <2>5, TrackerType, StepType, PlanType, HookType DEF Continue
      <4>2. /\ task' = task /\ quiet' = quiet
            /\ \A d \in Callers : \/ at'[d] = at[d]
                                  \/ {at[d], at'[d]} \cap {"clear", "count"} = {}
        BY <2>5, <3>3 DEF Continue, AddStrike, RecordStrike, NoteResolution, ForgetStrikes,
             RecordResolution, RebootCheck, Act, Succeed, ActionError, Unsuccessful, Silent,
             RecordFailure, NextAttempt, Return, Step1, Go, TypeOK
      <4> QED BY <4>1, <4>2, RereadAside DEF SameCounts
    <3> QED BY <3>1, <3>2, <3>3
  <2> QED BY <2>1, <2>2, <2>3, <2>4, <2>5 DEF Next, Environment
<1> QED BY <1>1, <1>2, TypeInvariance, PTL DEF Spec

(* The attention hooks (executor.go:496-520), for any number of callers and *)
(* any threshold: so many calls, and no more, go by unseen.                 *)
THEOREM PlanReread == Spec => []PlanIsReread
<1>1. TypeOK /\ RereadInv => PlanIsReread
  <2> SUFFICES ASSUME TypeOK, RereadInv
               PROVE  PlanIsReread
    OBVIOUS
  <2>1. /\ N \in Nat /\ quiet \in Nat /\ Unseen(N) = N * Threshold + (N * (N - 1)) \div 2
        /\ Marks(N) = N * Threshold
    BY HooksCounted DEF TypeOK, Unseen, Marks
  <2>2. Unseen(N) \in Nat /\ Marks(N) \in Nat /\ Marks(N) >= N
    BY <2>1, MarksGrow
  <2>3. CASE N = 0
    <3>1. quiet = 0 /\ N \notin 1..(Threshold + 1)
      BY <2>3 DEF RereadInv
    <3> HIDE DEF N
    <3> QED BY <2>1, <2>2, <3>1 DEF PlanIsReread
  <2>4. CASE N > 0 /\ task \in Task
    <3>1. task.toolCalls \in Nat /\ task.toolCalls < Threshold
      BY <2>4 DEF TypeOK, Task
    <3>2. quiet <= Unseen(N) /\ (N <= Threshold + 1 => quiet <= Marks(N) + N - 1)
      BY <2>1, <2>4, <3>1, HooksCounted, BoundedAlways DEF RereadInv
    <3> HIDE DEF N
    <3> QED BY <2>1, <3>2 DEF PlanIsReread
  <2>5. CASE N > 0 /\ task = Nil
    <3>1. quiet = 0
      BY <2>5 DEF TypeOK
    <3> HIDE DEF N
    <3> QED BY <2>1, <2>2, <2>5, <3>1 DEF PlanIsReread
  <2> QED BY <2>1, <2>3, <2>4, <2>5 DEF TypeOK
<1> QED BY <1>1, TypeInvariance, RereadInvariance, PTL
-----------------------------------------------------------------------------
(* The log, and what one caller's step leaves of another's.                 *)

SameEntry(e, f) == e.by = f.by /\ e.kind = f.kind /\ e.key = f.key /\ e.attempt = f.attempt

LogKept ==
    DOMAIN log' = DOMAIN log /\ \A i \in DOMAIN log : SameEntry(log'[i], log[i])

LEMMA Appended ==
    ASSUME TypeOK, NEW e \in Entries, log' = Append(log, e)
    PROVE  /\ Len(log) \in Nat /\ DOMAIN log = 1..Len(log) /\ DOMAIN log' = 1..(Len(log) + 1)
           /\ \A i \in DOMAIN log : log'[i] = log[i] /\ log[i] \in Entries
           /\ log'[Len(log) + 1] = e
  BY DEF TypeOK

LEMMA NoteKeeps ==
    ASSUME TypeOK, NEW c \in Callers, NoteResolution(c)
    PROVE  LogKept
  <1>1. /\ DOMAIN log = 1..Len(log) /\ Len(log) \in Nat
        /\ \A i \in DOMAIN log : log[i] \in Entries
    BY DEF TypeOK
  <1>2. log' = [log EXCEPT ![call[c].seen].resolved = TRUE] \/ log' = log
    BY DEF NoteResolution
  <1>3. \A i \in DOMAIN log : SameEntry([log[i] EXCEPT !.resolved = TRUE], log[i])
    BY <1>1 DEF SameEntry, Entries
  <1>4. DOMAIN log' = DOMAIN log
    BY <1>2
  <1>5. ASSUME NEW i \in DOMAIN log
        PROVE  SameEntry(log'[i], log[i])
    <2>1. log'[i] = log[i] \/ log'[i] = [log[i] EXCEPT !.resolved = TRUE]
      BY <1>2
    <2> QED BY <1>3, <2>1 DEF SameEntry
  <1> QED BY <1>4, <1>5 DEF LogKept

(* What d records is an entry of its own. *)
Records(d) ==
    \E e \in Entries : /\ log' = Append(log, e) /\ e.by = d /\ e.key = call[d].key
                       /\ e.attempt = call[d].attempt
                       /\ \/ e.kind = "strike" /\ RecordStrike(d)
                          \/ e.kind = "resolution" /\ RecordResolution(d)
                          \/ e.kind = "failure" /\ RecordFailure(d)

LEMMA LogSteps ==
    ASSUME TypeOK, NEW d \in Callers, Call(d) \/ Continue(d)
    PROVE  log' = log \/ LogKept \/ Records(d)
  <1>1. CASE Call(d)
    BY <1>1 DEF Call, PreActionHook, PostActionHook, CheckCompletion, TrackError, ResolveError,
         ExecuteStep, BeginTracking
  <1>2. CASE NoteResolution(d)
    BY <1>2, NoteKeeps
  <1>3. ASSUME NEW kind \in {"strike", "resolution", "failure"}, NEW resolved \in BOOLEAN,
               at[d] \in Keyed, RecordError(d, kind, resolved),
               \/ kind = "strike" /\ RecordStrike(d)
               \/ kind = "resolution" /\ RecordResolution(d)
               \/ kind = "failure" /\ RecordFailure(d)
        PROVE  Records(d)
    <2> DEFINE e == Entry(d, kind, resolved)
    <2>1. e \in Entries /\ log' = Append(log, e)
      BY <1>3, EntryType DEF RecordError
    <2>2. e.by = d /\ e.kind = kind /\ e.key = call[d].key /\ e.attempt = call[d].attempt
      BY DEF Entry
    <2> HIDE DEF e
    <2> QED BY <1>3, <2>1, <2>2 DEF Records
  <1>4. CASE RecordStrike(d)
    BY <1>3, <1>4 DEF RecordStrike, Step1, Keyed
  <1>5. CASE RecordResolution(d)
    BY <1>3, <1>5 DEF RecordResolution, Step1, Keyed
  <1>6. CASE RecordFailure(d)
    BY <1>3, <1>6 DEF RecordFailure, Keyed
  <1>7. CASE /\ Continue(d) /\ ~NoteResolution(d) /\ ~RecordStrike(d)
             /\ ~RecordResolution(d) /\ ~RecordFailure(d)
    BY <1>7 DEF Continue, ClearNeedsReread, IncrementToolCallCount, AddStrike, ForgetStrikes,
         RebootCheck, Act, CompleteStep, Return
  <1> QED BY <1>1, <1>2, <1>4, <1>5, <1>6, <1>7

LEMMA OthersKept ==
    ASSUME TypeOK, NEW c \in Callers, NEW d \in Callers, c # d, Call(d) \/ Continue(d)
    PROVE  at'[c] = at[c] /\ call'[c] \in {call[c], Marking(c)}
  <1>1. CASE Call(d)
    BY <1>1 DEF Call, PreActionHook, PostActionHook, CheckCompletion, TrackError, ResolveError,
         ExecuteStep, BeginTracking, Begin, Go, TypeOK
  <1>2. CASE CompleteStep(d)
    BY <1>2 DEF CompleteStep, Step1, Go, TypeOK, Marking
  <1>3. CASE Continue(d) /\ ~CompleteStep(d)
    BY <1>3 DEF Continue, ClearNeedsReread, IncrementToolCallCount, AddStrike, RecordStrike,
         NoteResolution, ForgetStrikes, RecordResolution, RebootCheck, Act, Succeed, ActionError,
         Unsuccessful, Silent, RecordFailure, NextAttempt, Return, Step1, Go, TypeOK
  <1> QED BY <1>1, <1>2, <1>3
-----------------------------------------------------------------------------
(* ExecuteStep.                                                             *)

Attempts(c) == {log[i].attempt : i \in Mine(c)}

InOrder(c) == \A i, j \in Mine(c) : i < j => log[i].attempt < log[j].attempt

(* What the log holds of the step c is at.                                  *)
Recorded(c) ==
    /\ at[c] \notin {"act", "record failure", "complete", "ended"} => call[c].failed = {}
    /\ at[c] \in {"act", "record failure"} =>
          /\ call[c].attempt \in 1..MaxRetries /\ call[c].start <= Len(log)
          /\ call[c].last # "escalate"
          /\ \A i \in Mine(c) : log[i].attempt < call[c].attempt
    /\ at[c] = "record failure" => call[c].failed = Attempts(c) \cup {call[c].attempt}
    /\ at[c] \in {"act", "complete"} => call[c].failed = Attempts(c)
    /\ at[c] = "ended" /\ call[c].failed # {} =>
          /\ call[c].failed = Attempts(c)
          /\ call[c].last # "success" => call[c].attempt = MaxRetries
          /\ call[c].last = "escalate" => call[c].seen = 1
    /\ at[c] \in {"act", "record failure", "complete"} \/ call[c].failed # {} => InOrder(c)

RecordInv == \A c \in Callers : Recorded(c)

LEMMA SameLength ==
    ASSUME NEW m \in Nat, NEW n \in Nat, 1..m = 1..n
    PROVE  m = n
  <1>1. CASE m < n
    <2>1. n \in 1..n /\ n \notin 1..m
      BY <1>1
    <2> QED BY <2>1
  <1>2. CASE n < m
    <2>1. m \in 1..m /\ m \notin 1..n
      BY <1>2
    <2> QED BY <2>1
  <1> QED BY <1>1, <1>2

LEMMA AttemptsKept ==
    ASSUME TypeOK, TypeOK', NEW c \in Callers, call'[c].start = call[c].start, InOrder(c),
           \/ log' = log \/ LogKept
           \/ \E e \in Entries : /\ log' = Append(log, e)
                                 /\ e.by # c \/ e.kind # "failure"
    PROVE  /\ Mine(c)' = Mine(c) /\ Attempts(c)' = Attempts(c) /\ InOrder(c)'
           /\ \A i \in Mine(c) : log'[i].attempt = log[i].attempt
           /\ call[c].start <= Len(log) => call[c].start <= Len(log')
  <1>1. /\ Mine(c)' = Mine(c) /\ \A i \in Mine(c) : log'[i].attempt = log[i].attempt
        /\ call[c].start <= Len(log) => call[c].start <= Len(log')
    <2>1. CASE log' = log
      BY <2>1 DEF Mine
    <2>2. CASE LogKept
      <3>1. Len(log') = Len(log)
        <4>1. /\ DOMAIN log = 1..Len(log) /\ Len(log) \in Nat /\ DOMAIN log' = DOMAIN log
              /\ DOMAIN log' = 1..Len(log') /\ Len(log') \in Nat
          BY <2>2 DEF TypeOK, LogKept
        <4> QED BY <4>1, SameLength
      <3> QED BY <2>2, <3>1 DEF LogKept, SameEntry, Mine
    <2>3. ASSUME NEW e \in Entries, log' = Append(log, e), e.by # c \/ e.kind # "failure"
          PROVE  /\ Mine(c)' = Mine(c) /\ \A i \in Mine(c) : log'[i].attempt = log[i].attempt
                 /\ call[c].start <= Len(log) => call[c].start <= Len(log')
      <3>1. /\ Len(log) \in Nat /\ DOMAIN log = 1..Len(log) /\ DOMAIN log' = 1..(Len(log) + 1)
            /\ \A i \in DOMAIN log : log'[i] = log[i]
            /\ log'[Len(log) + 1] = e
        BY <2>3, Appended
      <3>2. Len(log') = Len(log) + 1 /\ call[c].start \in Nat
        BY <2>3 DEF TypeOK, Locals
      <3>3. ASSUME NEW i
            PROVE  i \in Mine(c)' <=> i \in Mine(c)
        <4>1. CASE i \in DOMAIN log
          <5>1. i \in DOMAIN log' /\ log'[i] = log[i]
            BY <3>1, <4>1
          <5> QED BY <4>1, <5>1 DEF Mine
        <4>2. CASE i = Len(log) + 1
          <5>1. i \notin DOMAIN log /\ log'[i] = e
            BY <3>1, <4>2
          <5> QED BY <2>3, <5>1 DEF Mine
        <4>3. CASE i \notin DOMAIN log /\ i # Len(log) + 1
          <5>1. i \notin DOMAIN log'
            BY <3>1, <4>3
          <5> QED BY <4>3, <5>1 DEF Mine
        <4> QED BY <4>1, <4>2, <4>3
      <3>4. \A i \in Mine(c) : log'[i].attempt = log[i].attempt
        BY <3>1 DEF Mine
      <3>5. call[c].start <= Len(log) => call[c].start <= Len(log')
        BY <3>1, <3>2
      <3> QED BY <3>3, <3>4, <3>5
    <2> QED BY <2>1, <2>2, <2>3
  <1> QED BY <1>1 DEF Attempts, InOrder

(* A step of another, or of this one outside its attempts. *)
LEMMA RecordedAside ==
    ASSUME TypeOK, TypeOK', NEW c \in Callers, Recorded(c), at'[c] = at[c],
           call'[c] \in {call[c], Marking(c)},
           \/ log' = log \/ LogKept
           \/ \E e \in Entries : /\ log' = Append(log, e)
                                 /\ e.by # c \/ e.kind # "failure"
    PROVE  Recorded(c)'
  <1>1. /\ call'[c].start = call[c].start /\ call'[c].failed = call[c].failed
        /\ call'[c].attempt = call[c].attempt /\ call'[c].last = call[c].last
        /\ call'[c].seen = call[c].seen
    BY DEF Marking, TypeOK, Locals
  <1>2. CASE at[c] \in {"act", "record failure", "complete"} \/ call[c].failed # {}
    <2>1. InOrder(c)
      BY <1>2 DEF Recorded
    <2>2. /\ Mine(c)' = Mine(c) /\ Attempts(c)' = Attempts(c) /\ InOrder(c)'
          /\ \A i \in Mine(c) : log'[i].attempt = log[i].attempt
          /\ call[c].start <= Len(log) => call[c].start <= Len(log')
      BY <1>1, <2>1, AttemptsKept
    <2> QED BY <1>1, <2>2 DEF Recorded
  <1>3. CASE ~(at[c] \in {"act", "record failure", "complete"} \/ call[c].failed # {})
    BY <1>1, <1>3 DEF Recorded
  <1> QED BY <1>2, <1>3

LEMMA NothingRecorded ==
    ASSUME NEW c \in Callers, at'[c] \notin {"act", "record failure", "complete"},
           call'[c].failed = {}
    PROVE  Recorded(c)'
  BY DEF Recorded

LEMMA BeginsRecorded ==
    ASSUME TypeOK, TypeOK', NEW c \in Callers, Call(c), Recorded(c)
    PROVE  Recorded(c)'
  <1>1. CASE PostActionHook(c)
    BY <1>1, RecordedAside DEF PostActionHook
  <1>2. ASSUME NEW k \in Keys, ExecuteStep(c, k)
        PROVE  Recorded(c)'
    <2>1. /\ call'[c] = [Idle EXCEPT !.key = k, !.attempt = 1, !.start = Len(log)]
          /\ at'[c] = "act" /\ log' = log
      BY <1>2 DEF ExecuteStep, Begin, Go, TypeOK
    <2>2. /\ call'[c].attempt = 1 /\ call'[c].start = Len(log) /\ call'[c].failed = {}
          /\ call'[c].last = "none"
      BY <2>1 DEF Idle
    <2>3. Mine(c)' = {}
      BY <2>1, <2>2 DEF Mine, TypeOK
    <2>4. 1 \in 1..MaxRetries /\ Len(log) \in Nat
      BY SessionsAssumption DEF TypeOK
    <2>5. Attempts(c)' = {} /\ InOrder(c)'
      BY <2>3 DEF Attempts, InOrder
    <2>6. call'[c].attempt \in 1..MaxRetries /\ call'[c].start <= Len(log')
      BY <2>1, <2>2, <2>4
    <2> QED BY <2>1, <2>2, <2>3, <2>5, <2>6 DEF Recorded
  <1>3. CASE PreActionHook(c)
    BY <1>3, IdleType, NothingRecorded DEF PreActionHook, Begin, Go, TypeOK
  <1>4. CASE CheckCompletion(c)
    <2>1. at'[c] = "reboot check" /\ call'[c].failed = Idle.failed
      BY <1>4 DEF CheckCompletion, Begin, Go, TypeOK, Idle
    <2> QED BY <2>1, IdleType, NothingRecorded
  <1>5. ASSUME NEW k \in Keys, TrackError(c, k) \/ ResolveError(c, k)
        PROVE  Recorded(c)'
    <2>1. at'[c] \in {"strike", "note"} /\ call'[c].failed = Idle.failed
      BY <1>5 DEF TrackError, ResolveError, BeginTracking, Begin, Go, TypeOK, Idle
    <2> QED BY <2>1, IdleType, NothingRecorded
  <1> QED BY <1>1, <1>2, <1>3, <1>4, <1>5 DEF Call

LEMMA OutsideRecorded ==
    ASSUME TypeOK, NEW c \in Callers, Continue(c), Recorded(c),
           ~Act(c), ~RecordFailure(c), ~CompleteStep(c)
    PROVE  Recorded(c)'
  <1>1. CASE Return(c)
    BY <1>1, IdleType, NothingRecorded DEF Return, Step1, Go, TypeOK
  <1>2. CASE ~Return(c)
    <2>1. at[c] \notin {"act", "record failure", "complete", "ended"}
      BY <1>2 DEF Continue, ClearNeedsReread, IncrementToolCallCount, AddStrike, RecordStrike,
           NoteResolution, ForgetStrikes, RecordResolution, RebootCheck, Step1
    <2>2. at'[c] \notin {"act", "record failure", "complete"}
      BY <1>2 DEF Continue, ClearNeedsReread, IncrementToolCallCount, AddStrike, RecordStrike,
           NoteResolution, ForgetStrikes, RecordResolution, RebootCheck, Step1, Go, TypeOK
    <2>3. call'[c].failed = call[c].failed
      <3>1. call[c] \in Locals
        BY DEF TypeOK
      <3>2. \/ call' = call
            \/ \E n : call' = [call EXCEPT ![c].attempt = n]
            \/ \E n : call' = [call EXCEPT ![c].last = n]
            \/ \E n : call' = [call EXCEPT ![c].going = n]
        BY <1>2 DEF Continue, ClearNeedsReread, IncrementToolCallCount, AddStrike, RecordStrike,
             NoteResolution, ForgetStrikes, RecordResolution, RebootCheck, Step1, Go
      <3> QED BY <3>1, <3>2 DEF Locals, TypeOK
    <2>4. call[c].failed = {}
      BY <2>1 DEF Recorded
    <2> QED BY <2>2, <2>3, <2>4, NothingRecorded
  <1> QED BY <1>1, <1>2

LEMMA EntryFields ==
    ASSUME TypeOK
    PROVE  \A i \in DOMAIN log : log[i] \in Entries /\ log[i].attempt \in Nat
  <1>1. \A i \in DOMAIN log : log[i] \in Entries
    BY DEF TypeOK
  <1> QED BY <1>1 DEF Entries

LEMMA NextAttemptKeeps ==
    ASSUME TypeOK, NEW c \in Callers, NEW last, NextAttempt(c, last)
    PROVE  call'[c].start = call[c].start
  BY DEF NextAttempt, Locals, TypeOK

LEMMA AttemptRecorded ==
    ASSUME TypeOK, NEW c \in Callers, NEW last \in Answers, NextAttempt(c, last),
           call[c].attempt \in 1..MaxRetries,
           last = "escalate" => call[c].attempt = MaxRetries /\ call[c].seen = 1,
           Attempts(c)' = call[c].failed, InOrder(c)',
           Mine(c)' \subseteq DOMAIN log', \A i \in Mine(c)' : log'[i].attempt <= call[c].attempt,
           \A i \in Mine(c)' : log'[i].attempt \in Nat,
           call[c].start <= Len(log')
    PROVE  Recorded(c)'
  <1>1. call[c] \in Locals /\ MaxRetries \in Nat /\ call[c].attempt \in Nat
    BY SessionsAssumption DEF TypeOK, Locals
  <1>2. PICK x \in {"ended", "act"} : \E n \in {call[c].attempt, call[c].attempt + 1} :
           Moves(c, x, [call[c] EXCEPT !.attempt = n, !.last = last])
    BY NextAttemptMoves
  <1>3. CASE call[c].attempt >= MaxRetries
    <2>1. at'[c] = "ended" /\ call'[c] = [call[c] EXCEPT !.last = last]
      BY <1>3 DEF NextAttempt, Go, TypeOK
    <2>2. /\ call'[c].failed = call[c].failed /\ call'[c].last = last
          /\ call'[c].attempt = MaxRetries /\ call'[c].seen = call[c].seen
      BY <1>1, <1>3, <2>1 DEF Locals
    <2> QED BY <2>1, <2>2 DEF Recorded
  <1>4. CASE ~(call[c].attempt >= MaxRetries)
    <2>1. /\ at'[c] = "act"
          /\ call'[c] = [call[c] EXCEPT !.attempt = call[c].attempt + 1, !.last = last]
      BY <1>4 DEF NextAttempt, Go, TypeOK
    <2>2. /\ call'[c].failed = call[c].failed /\ call'[c].last = last
          /\ call'[c].attempt = call[c].attempt + 1 /\ call'[c].start = call[c].start
      BY <1>1, <2>1 DEF Locals
    <2>3. /\ call'[c].attempt \in 1..MaxRetries /\ last # "escalate"
          /\ \A i \in Mine(c)' : log'[i].attempt < call'[c].attempt
      BY <1>1, <1>4, <2>2
    <2> QED BY <2>1, <2>2, <2>3 DEF Recorded
  <1> QED BY <1>3, <1>4

LEMMA ActRecorded ==
    ASSUME TypeOK, TypeOK', NEW c \in Callers, Act(c), Recorded(c)
    PROVE  Recorded(c)'
  <1>1. /\ at[c] = "act" /\ log' = log /\ call[c] \in Locals
    BY DEF Act, Succeed, ActionError, Unsuccessful, Silent, Step1, TypeOK
  <1>2. /\ call[c].attempt \in 1..MaxRetries /\ call[c].start <= Len(log)
        /\ call[c].last # "escalate" /\ call[c].failed = Attempts(c) /\ InOrder(c)
        /\ \A i \in Mine(c) : log[i].attempt < call[c].attempt
    BY <1>1 DEF Recorded
  <1>3. ASSUME call'[c].start = call[c].start
        PROVE  /\ Mine(c)' = Mine(c) /\ Attempts(c)' = Attempts(c) /\ InOrder(c)'
               /\ \A i \in Mine(c) : log'[i].attempt = log[i].attempt
    BY <1>1, <1>2, <1>3, AttemptsKept
  <1>4. CASE Succeed(c)
    <2>1. at'[c] = "complete" /\ call'[c] = call[c]
      BY <1>4 DEF Succeed, Step1, Go, TypeOK
    <2> QED BY <1>2, <1>3, <2>1 DEF Recorded
  <1>5. CASE ActionError(c) \/ Unsuccessful(c)
    <2>1. /\ at'[c] = "record failure"
          /\ \E seen \in {0, 1} : \E last \in {call[c].last, "result"} :
                call'[c] = [call[c] EXCEPT !.failed = call[c].failed \cup {call[c].attempt},
                                           !.seen = seen, !.last = last]
      <3>1. CASE ActionError(c)
        <4>1. /\ at'[c] = "record failure"
              /\ call'[c] = [call[c] EXCEPT !.failed = call[c].failed \cup {call[c].attempt},
                                            !.seen = 1]
          BY <3>1 DEF ActionError, Step1, Go, TypeOK
        <4>2. [call[c] EXCEPT !.failed = call[c].failed \cup {call[c].attempt}, !.seen = 1]
                 = [call[c] EXCEPT !.failed = call[c].failed \cup {call[c].attempt},
                                   !.seen = 1, !.last = call[c].last]
          BY <1>1 DEF Locals
        <4> QED BY <4>1, <4>2
      <3>2. CASE Unsuccessful(c)
        BY <3>2 DEF Unsuccessful, Step1, Go, TypeOK
      <3> QED BY <1>5, <3>1, <3>2
    <2>2. /\ call'[c].failed = call[c].failed \cup {call[c].attempt}
          /\ call'[c].attempt = call[c].attempt /\ call'[c].start = call[c].start
          /\ call'[c].last \in {call[c].last, "result"}
      BY <1>1, <2>1 DEF Locals
    <2> QED BY <1>1, <1>2, <1>3, <2>1, <2>2 DEF Recorded
  <1>6. CASE Silent(c)
    <2>1. PICK last \in {"result", "unknown"} : NextAttempt(c, last)
      BY <1>6 DEF Silent
    <2>2. last \in Answers
      BY DEF Answers
    <2>3. call'[c].start = call[c].start
      BY <1>1, <2>1 DEF NextAttempt, Locals, TypeOK
    <2>4. /\ Mine(c)' \subseteq DOMAIN log'
          /\ \A i \in Mine(c)' : /\ log'[i].attempt \in Nat
                                 /\ log'[i].attempt <= call[c].attempt
      <3>1. \A i \in DOMAIN log : log[i].attempt \in Nat
        BY EntryFields
      <3>2. Mine(c) \subseteq DOMAIN log /\ call[c].attempt \in Nat
        BY <1>1 DEF Mine, Locals
      <3> QED BY <1>1, <1>2, <1>3, <2>3, <3>1, <3>2
    <2> QED BY <1>1, <1>2, <1>3, <2>1, <2>2, <2>3, <2>4, AttemptRecorded
  <1> QED BY <1>4, <1>5, <1>6 DEF Act

LEMMA FailureRecorded ==
    ASSUME TypeOK, TypeOK', NEW c \in Callers, RecordFailure(c), Recorded(c)
    PROVE  Recorded(c)'
  <1> DEFINE erred == call[c].seen = 1
             last == IF erred /\ call[c].attempt >= MaxRetries THEN "escalate" ELSE call[c].last
             e == Entry(c, "failure", FALSE)
  <1>1. /\ at[c] = "record failure" /\ call[c] \in Locals /\ log' = Append(log, e)
        /\ NextAttempt(c, last)
    BY DEF RecordFailure, RecordError, TypeOK
  <1>2. /\ call[c].attempt \in 1..MaxRetries /\ call[c].start <= Len(log)
        /\ call[c].last # "escalate" /\ InOrder(c)
        /\ call[c].failed = Attempts(c) \cup {call[c].attempt}
        /\ \A i \in Mine(c) : log[i].attempt < call[c].attempt
    BY <1>1 DEF Recorded
  <1>3. e \in Entries /\ e.by = c /\ e.kind = "failure" /\ e.attempt = call[c].attempt
    BY <1>1, EntryType DEF Entry, Keyed
  <1> HIDE DEF e, last
  <1>4. /\ Len(log) \in Nat /\ DOMAIN log = 1..Len(log) /\ DOMAIN log' = 1..(Len(log) + 1)
        /\ \A i \in DOMAIN log : log'[i] = log[i] /\ log[i] \in Entries
        /\ log'[Len(log) + 1] = e
    BY <1>1, <1>3, Appended
  <1>5. Len(log') = Len(log) + 1 /\ call[c].start \in Nat /\ call[c].attempt \in Nat
    <2>1. call[c].start \in Nat /\ call[c].attempt \in Nat
      BY <1>1 DEF Locals
    <2>2. Len(log') = Len(log) + 1
      <3>1. DOMAIN log' = 1..Len(log') /\ Len(log') \in Nat
        BY DEF TypeOK
      <3> QED BY <1>4, <3>1, SameLength
    <2> QED BY <2>1, <2>2
  <1>6. call'[c].start = call[c].start
    BY <1>1, NextAttemptKeeps
  <1>7. Mine(c)' = Mine(c) \cup {Len(log) + 1} /\ Mine(c) \subseteq 1..Len(log)
    <2>1. ASSUME NEW i
          PROVE  i \in Mine(c)' <=> i \in Mine(c) \cup {Len(log) + 1}
      <3>1. CASE i \in DOMAIN log
        <4>1. i \in DOMAIN log' /\ log'[i] = log[i] /\ i # Len(log) + 1
          BY <1>4, <3>1
        <4> QED BY <1>6, <3>1, <4>1 DEF Mine
      <3>2. CASE i = Len(log) + 1
        <4>1. i \in DOMAIN log' /\ log'[i] = e /\ i > call[c].start
          BY <1>2, <1>4, <1>5, <3>2
        <4> QED BY <1>3, <1>6, <3>2, <4>1 DEF Mine
      <3>3. CASE i \notin DOMAIN log /\ i # Len(log) + 1
        <4>1. i \notin DOMAIN log'
          BY <1>4, <3>3
        <4> QED BY <3>3, <4>1 DEF Mine
      <3> QED BY <3>1, <3>2, <3>3
    <2> QED BY <1>4, <2>1 DEF Mine
  <1>8. \A i \in Mine(c)' : \/ i = Len(log) + 1 /\ log'[i].attempt = call[c].attempt
                            \/ i \in Mine(c) /\ i < Len(log) + 1 /\ log'[i] = log[i]
    BY <1>3, <1>4, <1>7
  <1>9. Attempts(c)' = Attempts(c) \cup {call[c].attempt}
    BY <1>3, <1>4, <1>7, <1>8 DEF Attempts
  <1>10. \A i \in Mine(c) : log[i].attempt \in Nat
    BY EntryFields DEF Mine
  <1>11. InOrder(c)'
    <2> SUFFICES ASSUME NEW i \in Mine(c)', NEW j \in Mine(c)', i < j
                 PROVE  log'[i].attempt < log'[j].attempt
      BY DEF InOrder
    <2>1. i \in Mine(c) /\ log'[i] = log[i]
      BY <1>4, <1>7, <1>8
    <2> QED BY <1>2, <1>8, <2>1 DEF InOrder
  <1>12. /\ Mine(c)' \subseteq DOMAIN log'
         /\ \A i \in Mine(c)' : /\ log'[i].attempt \in Nat
                                /\ log'[i].attempt <= call[c].attempt
    <2>1. Mine(c)' \subseteq DOMAIN log'
      BY DEF Mine
    <2> QED BY <1>2, <1>5, <1>8, <1>10, <2>1
  <1>13. /\ last \in Answers
         /\ last = "escalate" => call[c].attempt = MaxRetries /\ call[c].seen = 1
    <2>1. call[c].last \in Answers /\ MaxRetries \in Nat
      BY <1>1, SessionsAssumption DEF Locals
    <2>2. call[c].attempt >= MaxRetries => call[c].attempt = MaxRetries
      BY <1>2, <2>1
    <2> QED BY <1>2, <2>1, <2>2 DEF last, Answers
  <1>14. Attempts(c)' = call[c].failed
    BY <1>2, <1>9
  <1>15. call[c].start <= Len(log')
    BY <1>2, <1>4, <1>5
  <1> QED BY <1>1, <1>2, <1>11, <1>12, <1>13, <1>14, <1>15, AttemptRecorded

LEMMA CompletionRecorded ==
    ASSUME TypeOK, TypeOK', NEW c \in Callers, CompleteStep(c), Recorded(c)
    PROVE  Recorded(c)'
  <1>1. /\ at[c] = "complete" /\ at'[c] = "ended" /\ log' = log /\ call[c] \in Locals
        /\ call'[c] = [call[c] EXCEPT !.last = "success"]
    BY DEF CompleteStep, Step1, Go, TypeOK
  <1>2. call'[c].failed = call[c].failed /\ call'[c].last = "success"
        /\ call'[c].start = call[c].start
    BY <1>1 DEF Locals
  <1>3. InOrder(c) /\ call[c].failed = Attempts(c)
    BY <1>1 DEF Recorded
  <1>4. Attempts(c)' = Attempts(c) /\ InOrder(c)'
    BY <1>1, <1>2, <1>3, AttemptsKept
  <1> QED BY <1>1, <1>2, <1>3, <1>4 DEF Recorded

LEMMA RecordInvariance == Spec => []RecordInv
<1>1. Init => RecordInv
  BY IdleType DEF Init, RecordInv, Recorded
<1>2. TypeOK /\ TypeOK' /\ RecordInv /\ [Next]_vars => RecordInv'
  <2> SUFFICES ASSUME TypeOK, TypeOK', RecordInv, [Next]_vars, NEW c \in Callers
               PROVE  Recorded(c)'
    BY DEF RecordInv
  <2>1. Recorded(c)
    BY DEF RecordInv
  <2>2. CASE StartSession \/ Crash \/ UNCHANGED vars
    <3>1. at' = at /\ call' = call /\ log' = log
      BY <2>2 DEF StartSession, Crash, vars
    <3> QED BY <2>1, <3>1, RecordedAside
  <2>3. CASE UpdatePhaseStatus
    <3>1. at' = at /\ log' = log
      BY <2>3 DEF UpdatePhaseStatus
    <3> QED BY <2>1, <2>3, <3>1, ChangeMarks, RecordedAside
  <2>4. ASSUME NEW d \in Callers, d # c, Call(d) \/ Continue(d)
        PROVE  Recorded(c)'
    <3>1. at'[c] = at[c] /\ call'[c] \in {call[c], Marking(c)}
      BY <2>4, OthersKept
    <3>2. log' = log \/ LogKept \/ Records(d)
      BY <2>4, LogSteps
    <3>3. \/ log' = log \/ LogKept
          \/ \E e \in Entries : log' = Append(log, e) /\ (e.by # c \/ e.kind # "failure")
      BY <2>4, <3>2 DEF Records
    <3> QED BY <2>1, <3>1, <3>3, RecordedAside
  <2>5. CASE Call(c)
    BY <2>1, <2>5, BeginsRecorded
  <2>6. CASE Continue(c)
    BY <2>1, <2>6, OutsideRecorded, ActRecorded, FailureRecorded, CompletionRecorded
  <2> QED BY <2>2, <2>3, <2>4, <2>5, <2>6 DEF Next, Environment
<1> QED BY <1>1, <1>2, TypeInvariance, PTL DEF Spec

(* ExecuteStep (executor.go:70-127), for any number of callers and any     *)
(* MaxRetries: the log holds the attempts that gave a reason, in their order, *)
(* nothing is given up before the last, and guidance is asked for only after *)
(* an error.                                                                *)
THEOREM FailuresRecorded == Spec => []FailuresAreOnRecord
<1>1. RecordInv => FailuresAreOnRecord
  BY DEF RecordInv, Recorded, FailuresAreOnRecord, Attempts, InOrder
<1> QED BY <1>1, RecordInvariance, PTL
-----------------------------------------------------------------------------
(* The tracker.                                                             *)

Numbered(k) == \A i \in Since(k) : log[i].attempt = Cardinality({j \in Since(k) : j <= i})

(* A strike or a resolution of k is counted and not yet in the log.         *)
Ahead(k) ==
    \E c \in Callers : at[c] \in {"record strike", "record resolution"} /\ call[c].key = k

InHand(c) ==
    /\ at[c] = "strike" => call[c].seen = strikes[call[c].key]
    /\ at[c] = "record strike" =>
          /\ call[c].attempt = Cardinality(Since(call[c].key)) + 1
          /\ strikes[call[c].key] = call[c].attempt
    /\ at[c] = "record resolution" => strikes[call[c].key] = 0

StrikeInv ==
    ~met =>
        /\ \A c, d \in Callers : InTracker(c) /\ InTracker(d) => c = d
        /\ \A c \in Callers : InHand(c)
        /\ \A k \in Keys : /\ Numbered(k)
                           /\ ~Ahead(k) => strikes[k] = Cardinality(Since(k))

LEMMA SinceType ==
    ASSUME TypeOK, NEW k
    PROVE  /\ Since(k) \subseteq 1..Len(log) /\ Len(log) \in Nat
           /\ IsFiniteSet(Since(k)) /\ Cardinality(Since(k)) \in Nat
  <1>1. DOMAIN log = 1..Len(log) /\ Len(log) \in Nat
    BY DEF TypeOK
  <1>2. Since(k) \in SUBSET (1..Len(log)) /\ IsFiniteSet(1..Len(log))
    BY <1>1, FS_Interval DEF Since
  <1> QED BY <1>1, <1>2, FS_Subset, FS_CardinalityType

(* What is recorded for other keys, or of a failure, counts for nothing.    *)
LEMMA SinceKept ==
    ASSUME TypeOK, NEW k,
           \/ log' = log \/ LogKept
           \/ \E e \in Entries : /\ log' = Append(log, e)
                                 /\ e.key # k \/ e.kind = "failure"
    PROVE  Since(k)' = Since(k) /\ (Numbered(k) => Numbered(k)')
  <1>1. Since(k)' = Since(k) /\ \A i \in Since(k) : log'[i].attempt = log[i].attempt
    <2>1. CASE log' = log
      BY <2>1 DEF Since
    <2>2. CASE LogKept
      BY <2>2 DEF LogKept, SameEntry, Since
    <2>3. ASSUME NEW e \in Entries, log' = Append(log, e), e.key # k \/ e.kind = "failure"
          PROVE  Since(k)' = Since(k) /\ \A i \in Since(k) : log'[i].attempt = log[i].attempt
      <3> DEFINE n == Len(log)
      <3>1. /\ n \in Nat /\ DOMAIN log = 1..n /\ DOMAIN log' = 1..(n + 1)
            /\ \A i \in DOMAIN log : log'[i] = log[i]
            /\ log'[n + 1] = e
        BY <2>3, Appended
      <3> HIDE DEF n
      <3>2. /\ DOMAIN log' = DOMAIN log \cup {n + 1} /\ n + 1 \notin DOMAIN log
            /\ \A i, j \in DOMAIN log : i < n + 1
        BY <3>1
      <3> QED BY <2>3, <3>1, <3>2 DEF Since
    <2> QED BY <2>1, <2>2, <2>3
  <1> QED BY <1>1 DEF Numbered

LEMMA SinceRecorded ==
    ASSUME TypeOK, NEW e \in Entries, log' = Append(log, e)
    PROVE  /\ e.kind = "strike" =>
                 /\ Cardinality(Since(e.key))' = Cardinality(Since(e.key)) + 1
                 /\ Numbered(e.key) /\ e.attempt = Cardinality(Since(e.key)) + 1 =>
                       Numbered(e.key)'
           /\ e.kind = "resolution" => Cardinality(Since(e.key))' = 0 /\ Numbered(e.key)'
  <1> DEFINE n == Len(log)
             k == e.key
             S == Since(k)
  <1>1. /\ n \in Nat /\ DOMAIN log = 1..n /\ DOMAIN log' = 1..(n + 1)
        /\ \A i \in DOMAIN log : log'[i] = log[i]
        /\ log'[n + 1] = e
    BY Appended
  <1>2. S \subseteq 1..n /\ IsFiniteSet(S) /\ Cardinality(S) \in Nat
    BY SinceType
  <1>3. /\ DOMAIN log' = DOMAIN log \cup {n + 1} /\ n + 1 \notin DOMAIN log
        /\ \A i \in DOMAIN log : i < n + 1
    <2> HIDE DEF n
    <2> QED BY <1>1
  <1> HIDE DEF n
  <1>4. CASE e.kind = "strike"
    <2>1. Since(k)' = S \cup {n + 1}
      BY <1>1, <1>3, <1>4 DEF Since
    <2>2. n + 1 \notin S
      BY <1>2, <1>1
    <2>3. Cardinality(S \cup {n + 1}) = Cardinality(S) + 1
      BY <1>2, <2>2, FS_AddElement
    <2>4. ASSUME Numbered(k), e.attempt = Cardinality(S) + 1, NEW i \in S \cup {n + 1}
          PROVE  log'[i].attempt = Cardinality({j \in S \cup {n + 1} : j <= i})
      <3> HIDE DEF k, S
      <3>1. CASE i = n + 1
        <4>1. {j \in S \cup {n + 1} : j <= i} = S \cup {n + 1}
          <5>1. \A j \in S \cup {n + 1} : j <= n + 1
            BY <1>1, <1>2
          <5> QED BY <3>1, <5>1
        <4> QED BY <1>1, <2>3, <2>4, <3>1, <4>1
      <3>2. CASE i \in S
        <4>1. {j \in S \cup {n + 1} : j <= i} = {j \in S : j <= i}
          BY <1>1, <1>2, <3>2
        <4>2. log'[i] = log[i]
          BY <1>1, <1>2, <3>2
        <4> QED BY <2>4, <3>2, <4>1, <4>2 DEF Numbered, S
      <3> QED BY <2>4, <3>1, <3>2
    <2>5. ASSUME Numbered(k), e.attempt = Cardinality(S) + 1
          PROVE  Numbered(k)'
      <3> HIDE DEF S, k
      <3>1. \A i \in S \cup {n + 1} :
               log'[i].attempt = Cardinality({j \in S \cup {n + 1} : j <= i})
        BY <2>4, <2>5
      <3> QED BY <2>1, <3>1 DEF Numbered, k
    <2> HIDE DEF S
    <2> QED BY <1>4, <2>1, <2>3, <2>5 DEF S
  <1>5. CASE e.kind = "resolution"
    <2>1. Since(k)' = {}
      BY <1>1, <1>3, <1>5 DEF Since
    <2>2. Cardinality({}) = 0
      BY FS_EmptySet, Zenon
    <2>3. Numbered(k)'
      BY <2>1 DEF Numbered
    <2> HIDE DEF S
    <2> QED BY <1>5, <2>1, <2>2, <2>3
  <1> QED BY <1>4, <1>5

InPlaces == {"strike", "record strike", "note", "forget", "record resolution"}

(* A step that no key's count is about. *)
LEMMA StrikeAside ==
    ASSUME TypeOK, StrikeInv, met' = met, strikes' = strikes,
           \/ log' = log \/ LogKept
           \/ \E e \in Entries : log' = Append(log, e) /\ e.kind = "failure",
           \A c \in Callers : \/ at'[c] = at[c] /\ call'[c] \in {call[c], Marking(c)}
                              \/ at[c] \notin InPlaces /\ at'[c] \notin InPlaces
    PROVE  StrikeInv'
  <1> SUFFICES ASSUME ~met
               PROVE  /\ \A c, d \in Callers : InTracker(c)' /\ InTracker(d)' => c = d
                      /\ \A c \in Callers : InHand(c)'
                      /\ \A k \in Keys : /\ Numbered(k)'
                                         /\ ~Ahead(k)' => strikes'[k] = Cardinality(Since(k))'
    BY DEF StrikeInv
  <1>1. /\ \A c, d \in Callers : InTracker(c) /\ InTracker(d) => c = d
        /\ \A c \in Callers : InHand(c)
        /\ \A k \in Keys : /\ Numbered(k)
                           /\ ~Ahead(k) => strikes[k] = Cardinality(Since(k))
    BY DEF StrikeInv
  <1>2. \A k : Since(k)' = Since(k) /\ (Numbered(k) => Numbered(k)')
    BY SinceKept
  <1>3. \A c \in Callers : /\ Marking(c).key = call[c].key /\ Marking(c).seen = call[c].seen
                           /\ Marking(c).attempt = call[c].attempt
    BY DEF Marking, TypeOK, Locals
  <1>4. ASSUME NEW c \in Callers
        PROVE  /\ (at[c] \in InPlaces <=> at'[c] \in InPlaces)
               /\ at[c] \in InPlaces => /\ at'[c] = at[c] /\ call'[c].key = call[c].key
                                        /\ call'[c].seen = call[c].seen
                                        /\ call'[c].attempt = call[c].attempt
    BY <1>3
  <1>5. \A c \in Callers : InTracker(c)' <=> InTracker(c)
    BY <1>4 DEF InTracker, InPlaces
  <1>6. \A k : Ahead(k)' <=> Ahead(k)
    BY <1>4 DEF Ahead, InPlaces
  <1>7. ASSUME NEW c \in Callers
        PROVE  InHand(c)'
    <2>1. CASE at[c] \in InPlaces
      <3>1. PICK k : k = call[c].key
        OBVIOUS
      <3>2. /\ at'[c] = at[c] /\ call'[c].key = k /\ call'[c].seen = call[c].seen
            /\ call'[c].attempt = call[c].attempt
        BY <1>4, <2>1, <3>1
      <3>3. Since(k)' = Since(k) /\ strikes' = strikes
        BY <1>2
      <3> QED BY <1>1, <3>1, <3>2, <3>3 DEF InHand
    <2>2. CASE at[c] \notin InPlaces
      BY <1>4, <2>2 DEF InHand, InPlaces
    <2> QED BY <2>1, <2>2
  <1> QED BY <1>1, <1>2, <1>5, <1>6, <1>7

(* One caller alone in the tracker moves on; the others are outside it.     *)
LEMMA TrackerSteps ==
    ASSUME TypeOK, StrikeInv, ~met, NEW c \in Callers, InTracker(c),
           \/ AddStrike(c) \/ RecordStrike(c) \/ NoteResolution(c) \/ ForgetStrikes(c)
           \/ RecordResolution(c)
    PROVE  StrikeInv'
  <1>0. PICK q \in Keys : q = call[c].key
    BY DEF TypeOK, InTracker, Keyed
  <1>1. /\ \A d \in Callers : d # c => ~InTracker(d)
        /\ InHand(c)
        /\ \A k \in Keys : /\ Numbered(k)
                           /\ ~Ahead(k) => strikes[k] = Cardinality(Since(k))
    BY DEF StrikeInv
  <1>2. \A d \in Callers : d # c => at'[d] = at[d] /\ ~InTracker(d)'
    <2>1. \A d \in Callers : d # c => at'[d] = at[d]
      BY DEF AddStrike, RecordStrike, NoteResolution, ForgetStrikes, RecordResolution, Step1, Go,
             TypeOK
    <2> QED BY <1>1, <2>1 DEF InTracker
  <1>3. call[c] \in Locals
    BY DEF TypeOK
  <1>4. \A k : Ahead(k) <=> at[c] \in {"record strike", "record resolution"} /\ q = k
    BY <1>0, <1>1 DEF Ahead, InTracker
  <1>5. \A k : Ahead(k)' <=> at'[c] \in {"record strike", "record resolution"} /\ call'[c].key = k
    BY <1>2 DEF Ahead, InTracker
  <1>6. ASSUME InHand(c)',
               \A k \in Keys : /\ Numbered(k)'
                               /\ ~Ahead(k)' => strikes'[k] = Cardinality(Since(k))'
        PROVE  StrikeInv'
    BY <1>2, <1>6 DEF StrikeInv, InHand, InTracker
  <1>7. CASE AddStrike(c)
    <2>1. /\ at[c] = "strike" /\ at'[c] = "record strike" /\ log' = log
          /\ strikes' = [strikes EXCEPT ![q] = call[c].seen + 1]
          /\ call'[c] = [call[c] EXCEPT !.attempt = call[c].seen + 1]
      BY <1>0, <1>7 DEF AddStrike, Step1, Go, TypeOK
    <2>2. call'[c].key = q /\ call'[c].attempt = call[c].seen + 1
      BY <1>0, <1>3, <2>1 DEF Locals
    <2>3. \A k : Since(k)' = Since(k) /\ (Numbered(k) => Numbered(k)')
      BY <2>1, SinceKept
    <2>4. call[c].seen = Cardinality(Since(q))
      BY <1>0, <1>1, <1>4, <2>1 DEF InHand
    <2>5. strikes'[q] = call[c].seen + 1 /\ \A k \in Keys : k # q => strikes'[k] = strikes[k]
      BY <2>1 DEF TypeOK
    <2>6. InHand(c)'
      BY <2>1, <2>2, <2>3, <2>4, <2>5 DEF InHand
    <2>7. \A k \in Keys : ~Ahead(k)' => strikes'[k] = Cardinality(Since(k))'
      BY <1>1, <1>4, <1>5, <2>1, <2>2, <2>3, <2>5
    <2> QED BY <1>1, <1>6, <2>3, <2>6, <2>7
  <1>8. CASE NoteResolution(c)
    <2>1. /\ at[c] = "note" /\ at'[c] = "forget" /\ strikes' = strikes
      BY <1>8 DEF NoteResolution, Step1, Go, TypeOK
    <2>2. \A k : Since(k)' = Since(k) /\ (Numbered(k) => Numbered(k)')
      BY <1>8, NoteKeeps, SinceKept
    <2>3. InHand(c)'
      BY <2>1 DEF InHand
    <2> QED BY <1>1, <1>4, <1>6, <2>1, <2>2, <2>3
  <1>9. CASE ForgetStrikes(c)
    <2>1. /\ at[c] = "forget" /\ at'[c] = "record resolution" /\ log' = log
          /\ strikes' = [strikes EXCEPT ![q] = 0] /\ call'[c].key = q
      BY <1>0, <1>9 DEF ForgetStrikes, Step1, Go, TypeOK
    <2>2. \A k : Since(k)' = Since(k) /\ (Numbered(k) => Numbered(k)')
      BY <2>1, SinceKept
    <2>3. strikes'[q] = 0 /\ \A k \in Keys : k # q => strikes'[k] = strikes[k]
      BY <2>1 DEF TypeOK
    <2>4. InHand(c)'
      BY <2>1, <2>3 DEF InHand
    <2>5. \A k \in Keys : ~Ahead(k)' => strikes'[k] = Cardinality(Since(k))'
      BY <1>1, <1>4, <1>5, <2>1, <2>2, <2>3
    <2> QED BY <1>1, <1>6, <2>2, <2>4, <2>5
  <1>10. ASSUME RecordStrike(c) \/ RecordResolution(c)
         PROVE  StrikeInv'
    <2>1. at'[c] = "ended" /\ strikes' = strikes
      BY <1>10 DEF RecordStrike, RecordResolution, Step1, Go, TypeOK
    <2>2. PICK e \in Entries :
             /\ log' = Append(log, e) /\ e.key = q /\ e.attempt = call[c].attempt
             /\ \/ e.kind = "strike" /\ at[c] = "record strike"
                \/ e.kind = "resolution" /\ at[c] = "record resolution"
      <3> DEFINE s == Entry(c, "strike", FALSE)
                 r == Entry(c, "resolution", TRUE)
      <3>1. at[c] \in Keyed
        BY <1>10 DEF RecordStrike, RecordResolution, Step1, Keyed
      <3>2. s \in Entries /\ r \in Entries
        BY <3>1, EntryType
      <3>3. /\ s.key = q /\ s.attempt = call[c].attempt /\ s.kind = "strike"
            /\ r.key = q /\ r.attempt = call[c].attempt /\ r.kind = "resolution"
        BY <1>0 DEF Entry
      <3>4. \/ log' = Append(log, s) /\ at[c] = "record strike"
            \/ log' = Append(log, r) /\ at[c] = "record resolution"
        BY <1>10 DEF RecordStrike, RecordResolution, RecordError, Step1
      <3> HIDE DEF s, r
      <3> QED BY <3>2, <3>3, <3>4
    <2>3. \A k : k # q => Since(k)' = Since(k) /\ (Numbered(k) => Numbered(k)')
      BY <2>2, SinceKept
    <2>4. /\ e.kind = "strike" =>
                /\ Cardinality(Since(q))' = Cardinality(Since(q)) + 1
                /\ Numbered(q) /\ e.attempt = Cardinality(Since(q)) + 1 => Numbered(q)'
          /\ e.kind = "resolution" => Cardinality(Since(q))' = 0 /\ Numbered(q)'
      <3>1. /\ e.kind = "strike" =>
                  /\ Cardinality(Since(e.key))' = Cardinality(Since(e.key)) + 1
                  /\ Numbered(e.key) /\ e.attempt = Cardinality(Since(e.key)) + 1 =>
                        Numbered(e.key)'
            /\ e.kind = "resolution" => Cardinality(Since(e.key))' = 0 /\ Numbered(e.key)'
        BY <2>2, SinceRecorded
      <3>2. e.key = q
        BY <2>2
      <3> QED BY <3>1, <3>2
    <2>5. /\ at[c] = "record strike" =>
                call[c].attempt = Cardinality(Since(q)) + 1 /\ strikes[q] = call[c].attempt
          /\ at[c] = "record resolution" => strikes[q] = 0
      BY <1>0, <1>1 DEF InHand
    <2>6. Numbered(q)' /\ strikes'[q] = Cardinality(Since(q))'
      BY <1>1, <1>3, <2>1, <2>2, <2>4, <2>5
    <2>7. \A k \in Keys : Numbered(k)' /\ strikes'[k] = Cardinality(Since(k))'
      BY <1>1, <1>4, <2>1, <2>3, <2>6
    <2>8. InHand(c)'
      BY <2>1 DEF InHand
    <2> QED BY <1>6, <2>7, <2>8
  <1> QED BY <1>7, <1>8, <1>9, <1>10

LEMMA TrackerBegins ==
    ASSUME TypeOK, StrikeInv, NEW c \in Callers, NEW k \in Keys,
           TrackError(c, k) \/ ResolveError(c, k)
    PROVE  StrikeInv'
  <1>1. /\ met' = (met \/ \E d \in Callers : InTracker(d))
        /\ strikes' = strikes /\ log' = log
    BY DEF TrackError, ResolveError, BeginTracking
  <1> SUFFICES ASSUME ~met'
               PROVE  StrikeInv'
    BY DEF StrikeInv
  <1>2. ~met /\ \A d \in Callers : ~InTracker(d)
    BY <1>1
  <1>3. \A d \in Callers : d # c => at'[d] = at[d]
    BY DEF TrackError, ResolveError, BeginTracking, Begin, Go, TypeOK
  <1>4. \/ at'[c] = "strike" /\ call'[c].key = k /\ call'[c].seen = strikes[k]
        \/ at'[c] = "note"
    <2>1. CASE TrackError(c, k)
      <3>1. call'[c] = [Idle EXCEPT !.key = k, !.seen = strikes[k]] /\ at'[c] = "strike"
        BY <2>1 DEF TrackError, BeginTracking, Begin, Go, TypeOK
      <3> QED BY <3>1 DEF Idle
    <2>2. CASE ResolveError(c, k)
      BY <2>2 DEF ResolveError, BeginTracking, Begin, Go, TypeOK
    <2> QED BY <2>1, <2>2
  <1>5. \A z : Since(z)' = Since(z) /\ (Numbered(z) => Numbered(z)')
    BY <1>1, SinceKept
  <1>6. \A z : ~Ahead(z) /\ ~Ahead(z)'
    BY <1>2, <1>3, <1>4 DEF Ahead, InTracker
  <1>7. \A d \in Callers : InHand(d)'
    BY <1>1, <1>2, <1>3, <1>4 DEF InHand, InTracker
  <1>8. \A d, f \in Callers : InTracker(d)' /\ InTracker(f)' => d = f
    BY <1>2, <1>3 DEF InTracker
  <1>9. \A z \in Keys : Numbered(z) /\ strikes[z] = Cardinality(Since(z))
    BY <1>2, <1>6 DEF StrikeInv
  <1> QED BY <1>1, <1>5, <1>7, <1>8, <1>9 DEF StrikeInv

LEMMA StrikeInvariance == Spec => []StrikeInv
<1>1. Init => StrikeInv
  <2> SUFFICES ASSUME Init
               PROVE  StrikeInv
    OBVIOUS
  <2>1. \A c \in Callers : at[c] = "idle"
    BY DEF Init
  <2>2. \A k : Since(k) = {}
    BY DEF Init, Since
  <2>3. Cardinality({}) = 0
    BY FS_EmptySet, Zenon
  <2>4. \A k \in Keys : strikes[k] = 0
    BY DEF Init
  <2>5. \A c \in Callers : InHand(c) /\ ~InTracker(c)
    BY <2>1 DEF InHand, InTracker
  <2> QED BY <2>2, <2>3, <2>4, <2>5 DEF StrikeInv, Numbered
<1>2. TypeOK /\ StrikeInv /\ [Next]_vars => StrikeInv'
  <2> SUFFICES ASSUME TypeOK, StrikeInv, [Next]_vars
               PROVE  StrikeInv'
    OBVIOUS
  <2>1. CASE StartSession \/ Crash \/ UNCHANGED vars
    <3>1. at' = at /\ call' = call /\ log' = log /\ strikes' = strikes /\ met' = met
      BY <2>1 DEF StartSession, Crash, Kept, vars
    <3> QED BY <3>1, StrikeAside
  <2>2. CASE UpdatePhaseStatus
    <3>1. at' = at /\ log' = log /\ strikes' = strikes /\ met' = met
      BY <2>2 DEF UpdatePhaseStatus
    <3> QED BY <2>2, <3>1, ChangeMarks, StrikeAside
  <2>3. ASSUME NEW c \in Callers, Call(c)
        PROVE  StrikeInv'
    <3>1. ASSUME NEW k \in Keys, TrackError(c, k) \/ ResolveError(c, k)
          PROVE  StrikeInv'
      BY <3>1, TrackerBegins
    <3>2. CASE ~\E k \in Keys : TrackError(c, k) \/ ResolveError(c, k)
      <4>1. /\ log' = log /\ strikes' = strikes /\ met' = met
            /\ \/ at'[c] = at[c] /\ call'[c] = call[c]
               \/ at[c] = "idle" /\ at'[c] \notin InPlaces
        BY <2>3, <3>2 DEF Call, PreActionHook, PostActionHook, CheckCompletion, ExecuteStep,
             Begin, Go, Kept, TypeOK, InPlaces
      <4>2. at[c] = "idle" => at[c] \notin InPlaces
        BY DEF InPlaces
      <4> QED BY <2>3, <4>1, <4>2, OthersKept, StrikeAside
    <3> QED BY <3>1, <3>2
  <2>4. ASSUME NEW c \in Callers, Continue(c)
        PROVE  StrikeInv'
    <3>1. CASE \/ AddStrike(c) \/ RecordStrike(c) \/ NoteResolution(c) \/ ForgetStrikes(c)
               \/ RecordResolution(c)
      <4>1. met' = met /\ InTracker(c)
        BY <3>1 DEF AddStrike, RecordStrike, NoteResolution, ForgetStrikes, RecordResolution,
             Kept, Step1, InTracker
      <4> QED BY <3>1, <4>1, TrackerSteps DEF StrikeInv
    <3>2. CASE ~(\/ AddStrike(c) \/ RecordStrike(c) \/ NoteResolution(c) \/ ForgetStrikes(c)
                 \/ RecordResolution(c))
      <4>1. strikes' = strikes /\ met' = met /\ at[c] \notin InPlaces /\ at'[c] \notin InPlaces
        BY <2>4, <3>2 DEF Continue, ClearNeedsReread, IncrementToolCallCount, RebootCheck, Act,
             Succeed, ActionError, Unsuccessful, Silent, RecordFailure, NextAttempt, CompleteStep,
             Return, Step1, Go, Kept, TypeOK, InPlaces
      <4>2. \/ log' = log \/ LogKept
            \/ \E e \in Entries : log' = Append(log, e) /\ e.kind = "failure"
        BY <2>4, <3>2, LogSteps DEF Records
      <4> QED BY <2>4, <4>1, <4>2, OthersKept, StrikeAside
    <3> QED BY <3>1, <3>2
  <2> QED BY <2>1, <2>2, <2>3, <2>4 DEF Next, Environment
<1> QED BY <1>1, <1>2, TypeInvariance, PTL DEF Spec

(* ErrorTracker (executor.go:555-599), for any number of callers and keys:  *)
(* without overlapping calls its counts are those of the log.               *)
THEOREM StrikesCounted == Spec => []StrikesAreCounted
<1>1. StrikeInv => StrikesAreCounted
  <2> SUFFICES ASSUME StrikeInv, ~met, \A c \in Callers : ~InTracker(c), NEW k \in Keys
               PROVE  /\ strikes[k] = Cardinality(Since(k))
                      /\ \A i \in Since(k) :
                            log[i].attempt = Cardinality({j \in Since(k) : j <= i})
    BY DEF StrikesAreCounted
  <2>1. ~Ahead(k)
    BY DEF Ahead, InTracker
  <2> QED BY <2>1 DEF StrikeInv, Numbered
<1> QED BY <1>1, StrikeInvariance, PTL

=============================================================================
