----------------------------- MODULE StorageLock -----------------------------
(***************************************************************************)
(* Who waits for whom around the storage: Manager.mu and the RWMutex of     *)
(* FileStorage, for one task whose context is in the cache or on the disk.  *)
(* DBStorage takes its lock in the same places, except that its ListTasks   *)
(* takes it once.                                                          *)
(*                                                                         *)
(* A part on the disk is the number of changes in it: recorded errors in    *)
(* the task and in the progress, findings in the findings; 0 when there is  *)
(* no file.  Failed writes are left to TaskManager.                         *)
(***************************************************************************)
EXTENDS RWMutex, Sequences

CONSTANTS
    Listers,    \* callers of ListTasks
    Readers,    \* callers of GetTaskContext
    Mutators,   \* callers of the manager's operations, DeleteTask included
    Planners,   \* calls of Service.CreateTask that have reached their SaveTask
    MaxOps      \* bound on the calls

ASSUME StorageAssumption ==
    /\ Procs = Listers \cup Readers \cup Mutators \cup Planners
    /\ MaxOps \in Nat

VARIABLES
    op,         \* what each process is doing
    at,         \* it has asked for the lock of its next section, or is outside
    todo,       \* the parts it has still to read or to write
    got,        \* the parts it has read
    manager,    \* the process in Manager.mu, or NoProc
    memory,     \* the context in Manager.activeTasks, or Uncached
    disk,       \* the files
    touched,    \* files that are being written or removed
    deleted,    \* DeleteTask has removed the files
    ops

calls == <<op, at, todo, got>>
store == <<manager, memory, disk, touched, deleted>>
vars == <<mutex, calls, store, ops>>

Parts == {"task", "findings", "progress"}
InOrder == <<"task", "findings", "progress">>
Versions == [Parts -> Nat]
Nothing == [f \in Parts |-> 0]
Uncached == [f \in {} |-> 0]

Ops == {"idle", "list", "entries", "read", "load", "save", "plan", "delete"}
Reading == {"entries", "read", "load"}
Writing == {"save", "plan", "delete"}
UnderManager == {"load", "save", "delete"}

TypeOK ==
    /\ MutexTypeOK
    /\ op \in [Procs -> Ops]
    /\ at \in [Procs -> {"outside", "asked"}]
    /\ todo \in [Procs -> Seq(Parts)]
    /\ got \in [Procs -> Versions]
    /\ manager \in Procs \cup {NoProc}
    /\ memory \in Versions \cup {Uncached}
    /\ disk \in Versions
    /\ touched \subseteq Parts
    /\ deleted \in BOOLEAN
    /\ ops \in 0..MaxOps

\* Service.CreateTask has created the task and stores its plan, without Manager.mu.
Planning(p) == p \in Planners /\ memory # Uncached

Init ==
    /\ MutexInit
    /\ disk = [f \in Parts |-> 1]
    /\ memory \in {Uncached, disk}
    /\ op = [p \in Procs |-> IF Planning(p) THEN "plan" ELSE "idle"]
    /\ todo = [p \in Procs |-> IF Planning(p) THEN <<"task">> ELSE <<>>]
    /\ got = [p \in Procs |-> IF Planning(p) THEN memory ELSE Nothing]
    /\ at = [p \in Procs |-> "outside"]
    /\ manager = NoProc
    /\ touched = {}
    /\ deleted = FALSE
    /\ ops = 0
-----------------------------------------------------------------------------
(* Calls. *)
Call(p, o, parts) ==
    /\ op[p] = "idle"
    /\ ops < MaxOps
    /\ ops' = ops + 1
    /\ op' = [op EXCEPT ![p] = o]
    /\ todo' = [todo EXCEPT ![p] = parts]
    /\ got' = [got EXCEPT ![p] = Nothing]

Return(p) ==
    /\ op' = [op EXCEPT ![p] = "idle"]
    /\ UNCHANGED <<at, todo, got, ops>>

\* ListTasks takes the read lock for the whole listing.
ListTasks(p) ==
    /\ p \in Listers
    /\ Call(p, "list", <<>>)
    /\ at' = [at EXCEPT ![p] = "asked"]
    /\ RLock(p)
    /\ UNCHANGED store

\* GetTaskContext looks into the cache under Manager.mu, and loads without it.
GetTaskContext(p) ==
    /\ p \in Readers
    /\ manager = NoProc
    /\ memory = Uncached
    /\ Call(p, "read", InOrder)
    /\ UNCHANGED <<mutex, at, store>>

FaultyOperate(p) ==  \* loads without Manager.mu
    /\ p \in Mutators
    /\ Call(p, "load", IF memory = Uncached THEN InOrder ELSE <<>>)
    /\ UNCHANGED <<mutex, at, store>>

\* A manager's operation: getOrLoadContext under Manager.mu.
Operate(p) ==
    /\ p \in Mutators
    /\ manager = NoProc
    /\ manager' = p
    /\ Call(p, "load", IF memory = Uncached THEN InOrder ELSE <<>>)
    /\ UNCHANGED <<mutex, at, memory, disk, touched, deleted>>

DeleteTask(p) ==
    /\ p \in Mutators
    /\ manager = NoProc
    /\ manager' = p
    /\ memory' = Uncached
    /\ Call(p, "delete", <<"task">>)
    /\ UNCHANGED <<mutex, at, disk, touched, deleted>>
-----------------------------------------------------------------------------
(* Sections under the storage's lock: one for each part. *)
AskRead(p) ==
    /\ op[p] \in Reading
    /\ at[p] = "outside"
    /\ todo[p] # <<>>
    /\ RLock(p)
    /\ at' = [at EXCEPT ![p] = "asked"]
    /\ UNCHANGED <<op, todo, got, store, ops>>

InRead(p) == op[p] \in Reading /\ at[p] = "asked" /\ p \notin waiting

ReadPart(p) ==
    /\ InRead(p)
    /\ got' = [got EXCEPT ![p][Head(todo[p])] = disk[Head(todo[p])]]
    /\ todo' = [todo EXCEPT ![p] = Tail(@)]
    /\ at' = [at EXCEPT ![p] = "outside"]
    /\ RUnlock(p)
    /\ UNCHANGED <<op, store, ops>>

\* A plan holds the object it has created, also when the manager has dropped it.
Object(p) == IF memory = Uncached \/ (op[p] = "plan" /\ deleted) THEN got[p] ELSE memory

\* SaveContext passes over a missing part.
Skips(p) == op[p] = "save" /\ Object(p)[Head(todo[p])] = 0

SkipPart(p) ==
    /\ at[p] = "outside"
    /\ todo[p] # <<>>
    /\ Skips(p)
    /\ todo' = [todo EXCEPT ![p] = Tail(@)]
    /\ UNCHANGED <<mutex, op, at, got, store, ops>>

AskWrite(p) ==
    /\ op[p] \in Writing
    /\ at[p] = "outside"
    /\ todo[p] # <<>>
    /\ ~Skips(p)
    /\ Announce(p)
    /\ at' = [at EXCEPT ![p] = "asked"]
    /\ UNCHANGED <<op, todo, got, store, ops>>

\* os.WriteFile has truncated the file, RemoveAll has begun.
BeginWrite(p) ==
    /\ op[p] \in Writing
    /\ at[p] = "asked"
    /\ Acquire(p)
    /\ touched' = IF op[p] = "delete" THEN Parts ELSE {Head(todo[p])}
    /\ UNCHANGED <<calls, manager, memory, disk, deleted, ops>>

EndWrite(p) ==
    /\ op[p] \in Writing
    /\ writer = p
    /\ locked
    /\ disk' = IF op[p] = "delete" THEN Nothing
               ELSE [disk EXCEPT ![Head(todo[p])] = Object(p)[Head(todo[p])]]
    /\ deleted' = (deleted \/ op[p] = "delete")
    /\ touched' = {}
    /\ todo' = [todo EXCEPT ![p] = Tail(@)]
    /\ at' = [at EXCEPT ![p] = "outside"]
    /\ Unlock(p)
    /\ UNCHANGED <<op, got, manager, memory, ops>>
-----------------------------------------------------------------------------
(* What follows a section. *)
\* ListTasks has the directory's entries, and loads each of them.
FaultyReadDir(p) ==  \* gives the lock back before it loads, and after it again
    /\ op[p] = "list"
    /\ p \notin waiting
    /\ op' = [op EXCEPT ![p] = "entries"]
    /\ todo' = [todo EXCEPT ![p] = IF disk = Nothing THEN <<>> ELSE <<"task">>]
    /\ at' = [at EXCEPT ![p] = "outside"]
    /\ RUnlock(p)
    /\ UNCHANGED <<got, store, ops>>

ReadDir(p) ==
    /\ op[p] = "list"
    /\ p \notin waiting
    /\ op' = [op EXCEPT ![p] = "entries"]
    /\ todo' = [todo EXCEPT ![p] = IF disk = Nothing THEN <<>> ELSE <<"task">>]
    /\ at' = [at EXCEPT ![p] = "outside"]
    /\ UNCHANGED <<mutex, got, store, ops>>

FaultyEndList(p) ==  \* keeps the read lock
    /\ op[p] = "entries"
    /\ at[p] = "outside"
    /\ todo[p] = <<>>
    /\ Return(p)
    /\ UNCHANGED <<mutex, store>>

EndList(p) ==
    /\ op[p] = "entries"
    /\ at[p] = "outside"
    /\ todo[p] = <<>>
    /\ RUnlock(p)
    /\ Return(p)
    /\ UNCHANGED store

EndRead(p) ==
    /\ op[p] \in {"read", "plan"}
    /\ at[p] = "outside"
    /\ todo[p] = <<>>
    /\ Return(p)
    /\ UNCHANGED <<mutex, store>>

(* The operations of the manager: the parts they change, and those they save. *)
FaultyEdits == {  \* RecordError saves the task alone
    [changes |-> {"task", "progress"}, needs |-> {"task", "progress"}, saves |-> <<"task">>],
    [changes |-> {"findings"}, needs |-> {"findings"}, saves |-> InOrder],
    [changes |-> {}, needs |-> {"task"}, saves |-> <<"task">>]}

Edits == {
    [changes |-> {"task", "progress"}, needs |-> {"task", "progress"}, saves |-> InOrder],  \* RecordError
    [changes |-> {"findings"}, needs |-> {"findings"}, saves |-> InOrder],                  \* AddFinding
    [changes |-> {}, needs |-> {"task"}, saves |-> InOrder],                                \* AddDecision
    [changes |-> {}, needs |-> {"task"}, saves |-> <<"task">>]}              \* IncrementToolCallCount

Edit(p, e) ==
    LET context == IF memory = Uncached THEN got[p] ELSE memory
        whole == \A f \in e.needs : context[f] > 0
        changed == [f \in Parts |-> IF f \in e.changes THEN context[f] + 1 ELSE context[f]]
    IN  /\ op[p] = "load"
        /\ at[p] = "outside"
        /\ todo[p] = <<>>
        /\ \/ /\ whole
              /\ memory' = changed
              /\ op' = [op EXCEPT ![p] = "save"]
              /\ todo' = [todo EXCEPT ![p] = e.saves]
              /\ UNCHANGED manager
           \/ /\ ~whole            \* the missing part's nil pointer: a panic
              /\ memory' = context
              /\ op' = [op EXCEPT ![p] = "idle"]
              /\ manager' = NoProc
              /\ UNCHANGED todo
        /\ UNCHANGED <<mutex, at, got, disk, touched, deleted, ops>>

EndOperation(p) ==
    /\ op[p] \in {"save", "delete"}
    /\ at[p] = "outside"
    /\ todo[p] = <<>>
    /\ manager' = NoProc
    /\ Return(p)
    /\ UNCHANGED <<mutex, memory, disk, touched, deleted>>

Continue(p) ==
    \/ AskRead(p) \/ ReadPart(p)
    \/ SkipPart(p) \/ AskWrite(p) \/ BeginWrite(p) \/ EndWrite(p)
    \/ ReadDir(p) \/ EndList(p) \/ EndRead(p)
    \/ \E e \in Edits : Edit(p, e)
    \/ EndOperation(p)

Next ==
    \/ \E p \in Procs :
          ListTasks(p) \/ GetTaskContext(p) \/ Operate(p) \/ DeleteTask(p)
    \/ \E p \in Procs : Continue(p)

Spec == Init /\ [][Next]_vars

\* The scheduler lets every process run, and a mutex is handed on.
FairSpec == Spec /\ \A p \in Procs : WF_vars(Continue(p))
-----------------------------------------------------------------------------
(* No process reads a part while a file of the task is half written or half *)
(* removed: a load never meets a truncated task.json.                       *)
NoTornReads == \A p \in Procs : InRead(p) \/ (op[p] = "list" /\ p \notin waiting) => touched = {}

(* A context that is loaded under Manager.mu is the outcome of whole         *)
(* operations: an error in the task is in the progress log too.             *)
Loaded(p, o) == op[p] = o /\ at[p] = "outside" /\ todo[p] = <<>>

ManagerLoadsWhole ==
    \A p \in Procs : Loaded(p, "load") /\ memory = Uncached /\ ~deleted =>
        got[p]["task"] = got[p]["progress"]

(* GetTaskContext loads without Manager.mu, so that the parts of its answer *)
(* may come from different operations; as it reads them in the order they   *)
(* are saved in, the task is ahead of the progress by one error at most.    *)
ReaderAheadByOne ==
    \A p \in Procs : Loaded(p, "read") /\ p \in Readers /\ ~deleted =>
        got[p]["task"] <= got[p]["progress"] + 1

(* The storage stands still: a writer is announced and waits for listings    *)
(* that wait for it, each for the second read lock that LoadTask takes.      *)
StandsStill ==
    /\ writer # NoProc
    /\ ~locked
    /\ \E p \in Procs : op[p] = "entries" /\ p \in waiting /\ active[p] > 0

(* Every call on the storage comes to its end unless the storage stands still *)
(* over a listing: nothing else in the two locks can block for good.        *)
CallsEndOrStandStill == \A p \in Procs : op[p] # "idle" ~> op[p] = "idle" \/ StandsStill
=============================================================================
