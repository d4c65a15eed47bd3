----------------------------- MODULE Repository -----------------------------
(***************************************************************************)
(* pkg/task/storage_db.go over repository/xormimplement/task.go, statement   *)
(* by statement.  A save reads and then inserts or updates, a deletion is a  *)
(* transaction of three statements, a query counts and then finds, the        *)
(* statistics are five counts: what keeps them apart is DBStorage.mu alone,   *)
(* for the tables of findings and progress have no unique key (full.sql).     *)
(*                                                                         *)
(* A row of tasks is its status, a row of the other tables its version.  A   *)
(* save overwrites all that is modelled of a row; JSON that json.Marshal     *)
(* wrote always parses.  Filters, which select the same rows in both          *)
(* statements of a query, are left out.                                     *)
(***************************************************************************)
EXTENDS RWMutex, Sequences, FiniteSets

CONSTANTS
    Tasks,
    NoRow,
    Statuses,   \* the statuses tasks are saved with
    Versions,   \* the versions findings and progress are saved with
    Pages,      \* records [limit, offset] of queries
    MaxFaults   \* bound on failed statements and process deaths

Tables == <<"tasks", "task_findings", "task_progress">>
TableSet == {Tables[i] : i \in DOMAIN Tables}
Counted == <<"pending", "in_progress", "completed", "failed">>
TaskStatuses == {"pending", "in_progress", "completed", "failed", "cancelled"}
ValuesOf(b) == IF b = "tasks" THEN Statuses ELSE Versions

ASSUME RepositoryAssumption ==
    /\ MaxFaults \in Nat
    /\ Statuses \subseteq TaskStatuses
    /\ NoRow \notin Statuses \cup Versions
    /\ IsFiniteSet(Tasks)
    /\ Pages \subseteq [limit: Nat, offset: Nat]

VARIABLES
    rows,       \* of each table and task, in the order they were inserted
    at, call,   \* each caller's step and local variables
    faults

vars == <<rows, at, call, faults, mutex>>

Idle == [op |-> "none", task |-> NoRow, table |-> NoRow, value |-> NoRow, page |-> NoRow,
         done |-> 0, total |-> 0, found |-> 0, counts |-> <<>>]

Init ==
    /\ rows = [b \in TableSet |-> [t \in Tasks |-> <<>>]]
    /\ at = [c \in Procs |-> "idle"]
    /\ call = [c \in Procs |-> Idle]
    /\ faults = 0
    /\ MutexInit

Begin(c, locals) ==
    /\ at[c] = "idle"
    /\ at' = [at EXCEPT ![c] = "lock"]
    /\ call' = [call EXCEPT ![c] = locals]
    /\ UNCHANGED <<rows, faults>>

Go(c, from, to) == at[c] = from /\ at' = [at EXCEPT ![c] = to]
LockKept == UNCHANGED mutex

\* The end of a call, with or without an error.
Leave(c) == at' = [at EXCEPT ![c] = "idle"] /\ call' = [call EXCEPT ![c] = Idle]
-----------------------------------------------------------------------------
Save(c, t, b, v) == Announce(c) /\ Begin(c, [Idle EXCEPT !.op = "get", !.task = t, !.table = b, !.value = v])

DeleteTask(c, t) == Announce(c) /\ Begin(c, [Idle EXCEPT !.op = "delete", !.task = t])

Query(c, p) == RLock(c) /\ Begin(c, [Idle EXCEPT !.op = "count", !.page = p])

GetStats(c) == RLock(c) /\ Begin(c, [Idle EXCEPT !.op = "total"])

Writing(c) == call[c].op \in {"get", "delete"}

Enter(c) ==
    /\ Go(c, "lock", call[c].op)
    /\ IF Writing(c) THEN Acquire(c) ELSE c \notin waiting /\ LockKept
    /\ UNCHANGED <<rows, call, faults>>
-----------------------------------------------------------------------------
(* Upsert *)
Existing(c) == rows[call[c].table][call[c].task]

FaultyGet(c) ==  \* finds only a row that differs
    /\ Go(c, "get", IF Existing(c) \in {<<>>, <<call[c].value>>} THEN "insert" ELSE "update")
    /\ UNCHANGED <<rows, call, faults>> /\ LockKept

Get(c) ==
    /\ Go(c, "get", IF Existing(c) = <<>> THEN "insert" ELSE "update")
    /\ UNCHANGED <<rows, call, faults>> /\ LockKept

Write(c, new) ==
    /\ rows' = [rows EXCEPT ![call[c].table][call[c].task] = new]
    /\ Leave(c)
    /\ Unlock(c)
    /\ UNCHANGED faults

Update(c) == at[c] = "update" /\ Write(c, [i \in DOMAIN Existing(c) |-> call[c].value])

\* The id of tasks is a primary key: a second insert fails.
Insert(c) ==
    /\ at[c] = "insert"
    /\ IF call[c].table = "tasks" /\ Existing(c) # <<>> THEN Write(c, Existing(c))
       ELSE Write(c, Append(Existing(c), call[c].value))
-----------------------------------------------------------------------------
(* Delete: a transaction, whose statements no other session sees before it    *)
(* commits.                                                                *)
FaultyDeleteRows(c) ==  \* each statement for itself
    /\ Go(c, "delete", IF call[c].done + 1 = Len(Tables) THEN "commit" ELSE "delete")
    /\ call' = [call EXCEPT ![c].done = @ + 1]
    /\ rows' = [rows EXCEPT ![Tables[call[c].done + 1]][call[c].task] = <<>>]
    /\ UNCHANGED faults /\ LockKept

DeleteRows(c) ==
    /\ Go(c, "delete", IF call[c].done + 1 = Len(Tables) THEN "commit" ELSE "delete")
    /\ call' = [call EXCEPT ![c].done = @ + 1]
    /\ UNCHANGED <<rows, faults>> /\ LockKept

Without(t) == [b \in TableSet |-> [rows[b] EXCEPT ![t] = <<>>]]

Commit(c) ==
    /\ at[c] = "commit"
    /\ rows' = Without(call[c].task)
    /\ Leave(c) /\ Unlock(c)
    /\ UNCHANGED faults
-----------------------------------------------------------------------------
(* Query: without a limit, the offset is not used either. *)
TaskRows == {t \in Tasks : rows["tasks"][t] # <<>>}
Page(n, p) ==
    LET rest == IF p.offset < n THEN n - p.offset ELSE 0
    IN  IF p.limit = 0 THEN n ELSE IF rest < p.limit THEN rest ELSE p.limit

Count(c) ==
    /\ Go(c, "count", "find")
    /\ call' = [call EXCEPT ![c].total = Cardinality(TaskRows)]
    /\ UNCHANGED <<rows, faults>> /\ LockKept

Find(c) ==
    /\ Go(c, "find", "answered")
    /\ call' = [call EXCEPT ![c].found = Page(Cardinality(TaskRows), call[c].page)]
    /\ UNCHANGED <<rows, faults>> /\ LockKept

(* GetStats: the total, then a count for each of four of the five statuses.   *)
With(s) == {t \in TaskRows : rows["tasks"][t][1] = s}

CountTotal(c) ==
    /\ Go(c, "total", "status")
    /\ call' = [call EXCEPT ![c].total = Cardinality(TaskRows)]
    /\ UNCHANGED <<rows, faults>> /\ LockKept

FaultyCountStatus(c) ==  \* the last status is left out
    /\ Go(c, "status", IF Len(call[c].counts) + 2 >= Len(Counted) THEN "answered" ELSE "status")
    /\ call' = [call EXCEPT ![c].counts = Append(@, Cardinality(With(Counted[Len(@) + 1])))]
    /\ UNCHANGED <<rows, faults>> /\ LockKept

CountStatus(c) ==
    /\ Go(c, "status", IF Len(call[c].counts) + 1 = Len(Counted) THEN "answered" ELSE "status")
    /\ call' = [call EXCEPT ![c].counts = Append(@, Cardinality(With(Counted[Len(@) + 1])))]
    /\ UNCHANGED <<rows, faults>> /\ LockKept

Return(c) ==
    /\ at[c] = "answered"
    /\ Leave(c) /\ RUnlock(c)
    /\ UNCHANGED <<rows, faults>>
-----------------------------------------------------------------------------
Fault == faults < MaxFaults /\ faults' = faults + 1

\* A statement fails: the error is returned, a transaction rolled back.  A
\* commit that fails may have reached the database.
Fail(c) ==
    /\ Fault
    /\ at[c] \notin {"idle", "lock", "answered"}
    /\ Leave(c)
    /\ IF Writing(c) THEN Unlock(c) ELSE RUnlock(c)
    /\ \/ UNCHANGED rows
       \/ at[c] = "commit" /\ rows' = Without(call[c].task)

Die ==
    /\ Fault
    /\ at' = [c \in Procs |-> "idle"]
    /\ call' = [c \in Procs |-> Idle]
    /\ active' = [c \in Procs |-> 0]
    /\ waiting' = {}
    /\ writer' = NoProc
    /\ locked' = FALSE
    /\ UNCHANGED rows

Continue(c) ==
    \/ Enter(c) \/ Get(c) \/ Update(c) \/ Insert(c)
    \/ DeleteRows(c) \/ Commit(c)
    \/ Count(c) \/ Find(c) \/ CountTotal(c) \/ CountStatus(c) \/ Return(c)

Call(c) ==
    \/ \E t \in Tasks :
          \/ DeleteTask(c, t)
          \/ \E b \in TableSet : \E v \in ValuesOf(b) : Save(c, t, b, v)
    \/ \E p \in Pages : Query(c, p)
    \/ GetStats(c)

Next == Die \/ \E c \in Procs : Call(c) \/ Continue(c) \/ Fail(c)

Spec == Init /\ [][Next]_vars
-----------------------------------------------------------------------------
(* No save adds a second row for a task, although nothing in the tables of    *)
(* findings and progress forbids it.                                       *)
OneRow == \A b \in TableSet, t \in Tasks : Len(rows[b][t]) <= 1

(* The page a query returns is one of the rows it counted.                   *)
PagesMatchTotals ==
    \A c \in Procs : at[c] = "answered" /\ call[c].op = "count" =>
        call[c].found = Page(call[c].total, call[c].page)

(* The statistics add up, but for the cancelled tasks, which only the total    *)
(* has: no task changes its status between two of the five counts.            *)
StatsAddUp ==
    \A c \in Procs : at[c] = "answered" /\ call[c].op = "total" =>
        LET n == call[c].counts
        IN  /\ Len(n) = Len(Counted)
            /\ call[c].total = n[1] + n[2] + n[3] + n[4] + Cardinality(With("cancelled"))

(* The statements of saves and deletions, with their failures and deaths in   *)
(* between, add up to what the storage promises.                            *)
Stored == [t \in Tasks |->
    [b \in TableSet |-> IF rows[b][t] = <<>> THEN NoRow ELSE rows[b][t][1]]]

Promise == INSTANCE TaskTables
    WITH Tables <- TableSet, Values <- Statuses \cup Versions, stored <- Stored

KeepsPromise == Promise!Spec
=============================================================================
