-------------------------- MODULE StorageLockProofs --------------------------
(***************************************************************************)
(* Proofs about StorageLock, for every number of listings, readers,        *)
(* operations and plans: no read meets a file that is being written, and    *)
(* the parts that a call has read belong together.  The first invariant     *)
(* counts the read locks of a process by where it is, so that no unlock is  *)
(* without its lock, and ties the announced writer to its section; the      *)
(* second says which parts a save has still to bring up to the memory.      *)
(***************************************************************************)
EXTENDS StorageLock, SequenceTheorems, TLAPS

(* The process is in the section of a part, or in that of the listing. *)
InSection(p) == InRead(p) \/ (op[p] = "list" /\ p \notin waiting)

\* A listing holds its own lock while it loads the entries.
Locks(p) == (IF op[p] = "entries" THEN 1 ELSE 0) + (IF InSection(p) THEN 1 ELSE 0)

ReadersCounted == \A p \in Procs : active[p] = Locks(p)

WritersKnown ==
    /\ \A p \in Procs : op[p] \in Writing /\ at[p] = "asked" => writer = p
    /\ \A p \in Procs : writer = p => op[p] \in Writing /\ at[p] = "asked"
    /\ writer = NoProc => waiting = {}

WriterAlone == locked => writer # NoProc /\ \A p \in Procs : active[p] = 0

TouchedUnderLock == touched # {} => locked

SectionsKnown ==
    \A p \in Procs :
       /\ p \in waiting => at[p] = "asked" /\ op[p] \in Reading \cup {"list"}
       /\ op[p] = "list" => at[p] = "asked"
       /\ op[p] = "idle" => at[p] = "outside"
       /\ at[p] = "asked" /\ op[p] # "list" => todo[p] # <<>>

ManagerKnown ==
    \A p \in Procs :
       /\ op[p] \in UnderManager => manager = p
       /\ op[p] = "save" => memory # Uncached

IInv ==
    /\ TypeOK
    /\ ReadersCounted
    /\ WritersKnown
    /\ WriterAlone
    /\ TouchedUnderLock
    /\ SectionsKnown
    /\ ManagerKnown
-----------------------------------------------------------------------------
LEMMA PartsInOrder ==
    /\ InOrder \in Seq(Parts) /\ <<"task">> \in Seq(Parts) /\ <<>> \in Seq(Parts)
  BY DEF InOrder, Parts

(* What the mutex keeps. *)
LEMMA RLockType ==
    ASSUME MutexTypeOK, NEW p \in Procs, RLock(p)
    PROVE  MutexTypeOK'
  <1>1. CASE writer = NoProc
    <2>1. active' \in [Procs -> Nat]
      BY <1>1 DEF MutexTypeOK, RLock
    <2> QED BY <1>1, <2>1 DEF MutexTypeOK, RLock
  <1>2. CASE writer # NoProc
    BY <1>2 DEF MutexTypeOK, RLock
  <1> QED BY <1>1, <1>2

LEMMA UnlockType ==
    ASSUME MutexTypeOK, NEW p \in Procs, Unlock(p)
    PROVE  MutexTypeOK'
  <1>1. \A q \in Procs : active[q] \in Nat /\ active[q] + 1 \in Nat
    BY DEF MutexTypeOK
  <1>2. active' \in [Procs -> Nat]
    BY <1>1 DEF Unlock
  <1> QED BY <1>2 DEF MutexTypeOK, Unlock

(* Every step of a call keeps the invariant. *)
LEMMA ListTasksStep ==
    ASSUME IInv, NEW p \in Procs, ListTasks(p)
    PROVE  IInv'
  <1> USE MutexAssumption DEF IInv
  <1>1. TypeOK'
    <2>1. MutexTypeOK'
      BY RLockType DEF TypeOK, ListTasks
    <2>2. /\ op' \in [Procs -> Ops] /\ at' \in [Procs -> {"outside", "asked"}]
          /\ manager' \in Procs \cup {NoProc} /\ deleted' \in BOOLEAN /\ ops' \in 0..MaxOps
      BY StorageAssumption DEF TypeOK, Ops, ListTasks, Call, RLock, store
    <2>3. todo' \in [Procs -> Seq(Parts)]
      BY PartsInOrder DEF TypeOK, SectionsKnown, Writing, Reading, InRead, ListTasks,
             Call, RLock, store
    <2>4. /\ got' \in [Procs -> Versions] /\ memory' \in Versions \cup {Uncached}
          /\ disk' \in Versions /\ touched' \subseteq Parts
      BY DEF TypeOK, Versions, Nothing, Parts, Uncached, ListTasks, Call, RLock, store
    <2> QED BY <2>1, <2>2, <2>3, <2>4 DEF TypeOK
  <1>2. ReadersCounted'
    BY DEF TypeOK, MutexTypeOK, Reading, Writing, UnderManager, ReadersCounted, Locks,
           InSection, InRead, SectionsKnown, WritersKnown, ListTasks, Call, RLock, store
  <1>3. WritersKnown'
    BY DEF TypeOK, MutexTypeOK, Reading, Writing, UnderManager, WritersKnown,
           SectionsKnown, ListTasks, Call, RLock, store
  <1>4. WriterAlone' /\ TouchedUnderLock'
    BY DEF TypeOK, MutexTypeOK, Reading, Writing, UnderManager, WriterAlone,
           TouchedUnderLock, WritersKnown, SectionsKnown, ReadersCounted, Locks,
           InSection, InRead, ListTasks, Call, RLock, store
  <1>5. SectionsKnown'
    BY DEF TypeOK, MutexTypeOK, Reading, Writing, UnderManager, SectionsKnown,
           WritersKnown, ListTasks, Call, RLock, store
  <1>6. ManagerKnown'
    BY DEF TypeOK, MutexTypeOK, Reading, Writing, UnderManager, ManagerKnown,
           ListTasks, Call, RLock, store
  <1> QED BY <1>1, <1>2, <1>3, <1>4, <1>5, <1>6

LEMMA GetTaskContextStep ==
    ASSUME IInv, NEW p \in Procs, GetTaskContext(p)
    PROVE  IInv'
  <1> USE MutexAssumption DEF IInv
  <1>1. TypeOK'
    <2>1. MutexTypeOK'
      BY DEF TypeOK, MutexTypeOK, GetTaskContext, Call, mutex, store
    <2>2. /\ op' \in [Procs -> Ops] /\ at' \in [Procs -> {"outside", "asked"}]
          /\ manager' \in Procs \cup {NoProc} /\ deleted' \in BOOLEAN /\ ops' \in 0..MaxOps
      BY StorageAssumption DEF TypeOK, Ops, GetTaskContext, Call, mutex, store
    <2>3. todo' \in [Procs -> Seq(Parts)]
      BY PartsInOrder DEF TypeOK, SectionsKnown, Writing, Reading, InRead,
             GetTaskContext, Call, mutex, store
    <2>4. /\ got' \in [Procs -> Versions] /\ memory' \in Versions \cup {Uncached}
          /\ disk' \in Versions /\ touched' \subseteq Parts
      BY DEF TypeOK, Versions, Nothing, Parts, Uncached, GetTaskContext, Call, mutex,
             store
    <2> QED BY <2>1, <2>2, <2>3, <2>4 DEF TypeOK
  <1>2. ReadersCounted'
    BY DEF TypeOK, MutexTypeOK, Reading, Writing, UnderManager, ReadersCounted, Locks,
           InSection, InRead, SectionsKnown, WritersKnown, GetTaskContext, Call, mutex,
           store
  <1>3. WritersKnown'
    BY DEF TypeOK, MutexTypeOK, Reading, Writing, UnderManager, WritersKnown,
           SectionsKnown, GetTaskContext, Call, mutex, store
  <1>4. WriterAlone' /\ TouchedUnderLock'
    BY DEF TypeOK, MutexTypeOK, Reading, Writing, UnderManager, WriterAlone,
           TouchedUnderLock, WritersKnown, SectionsKnown, ReadersCounted, Locks,
           InSection, InRead, GetTaskContext, Call, mutex, store
  <1>5. SectionsKnown'
    BY DEF TypeOK, MutexTypeOK, Reading, Writing, UnderManager, SectionsKnown,
           WritersKnown, GetTaskContext, Call, mutex, store
  <1>6. ManagerKnown'
    BY DEF TypeOK, MutexTypeOK, Reading, Writing, UnderManager, ManagerKnown,
           GetTaskContext, Call, mutex, store
  <1> QED BY <1>1, <1>2, <1>3, <1>4, <1>5, <1>6

LEMMA OperateStep ==
    ASSUME IInv, NEW p \in Procs, Operate(p)
    PROVE  IInv'
  <1> USE MutexAssumption DEF IInv
  <1>1. TypeOK'
    <2>1. MutexTypeOK'
      BY DEF TypeOK, MutexTypeOK, Operate, Call, mutex
    <2>2. /\ op' \in [Procs -> Ops] /\ at' \in [Procs -> {"outside", "asked"}]
          /\ manager' \in Procs \cup {NoProc} /\ deleted' \in BOOLEAN /\ ops' \in 0..MaxOps
      BY StorageAssumption DEF TypeOK, Ops, Operate, Call, mutex
    <2>3. todo' \in [Procs -> Seq(Parts)]
      BY PartsInOrder DEF TypeOK, SectionsKnown, Writing, Reading, InRead, Operate,
             Call, mutex
    <2>4. /\ got' \in [Procs -> Versions] /\ memory' \in Versions \cup {Uncached}
          /\ disk' \in Versions /\ touched' \subseteq Parts
      BY DEF TypeOK, Versions, Nothing, Parts, Uncached, Operate, Call, mutex
    <2> QED BY <2>1, <2>2, <2>3, <2>4 DEF TypeOK
  <1>2. ReadersCounted'
    BY DEF TypeOK, MutexTypeOK, Reading, Writing, UnderManager, ReadersCounted, Locks,
           InSection, InRead, SectionsKnown, WritersKnown, Operate, Call, mutex
  <1>3. WritersKnown'
    BY DEF TypeOK, MutexTypeOK, Reading, Writing, UnderManager, WritersKnown,
           SectionsKnown, Operate, Call, mutex
  <1>4. WriterAlone' /\ TouchedUnderLock'
    BY DEF TypeOK, MutexTypeOK, Reading, Writing, UnderManager, WriterAlone,
           TouchedUnderLock, WritersKnown, SectionsKnown, ReadersCounted, Locks,
           InSection, InRead, Operate, Call, mutex
  <1>5. SectionsKnown'
    BY DEF TypeOK, MutexTypeOK, Reading, Writing, UnderManager, SectionsKnown,
           WritersKnown, Operate, Call, mutex
  <1>6. ManagerKnown'
    BY DEF TypeOK, MutexTypeOK, Reading, Writing, UnderManager, ManagerKnown, Operate,
           Call, mutex
  <1> QED BY <1>1, <1>2, <1>3, <1>4, <1>5, <1>6

LEMMA DeleteTaskStep ==
    ASSUME IInv, NEW p \in Procs, DeleteTask(p)
    PROVE  IInv'
  <1> USE MutexAssumption DEF IInv
  <1>1. TypeOK'
    BY StorageAssumption DEF TypeOK, MutexTypeOK, Versions, Ops, Parts, InOrder,
           Nothing, Uncached, Reading, Writing, UnderManager, ReadersCounted, Locks,
           InSection, InRead, SectionsKnown, ManagerKnown, DeleteTask, Call, mutex
  <1>2. ReadersCounted'
    BY DEF TypeOK, MutexTypeOK, Reading, Writing, UnderManager, ReadersCounted, Locks,
           InSection, InRead, SectionsKnown, WritersKnown, DeleteTask, Call, mutex
  <1>3. WritersKnown'
    BY DEF TypeOK, MutexTypeOK, Reading, Writing, UnderManager, WritersKnown,
           SectionsKnown, DeleteTask, Call, mutex
  <1>4. WriterAlone' /\ TouchedUnderLock'
    BY DEF TypeOK, MutexTypeOK, Reading, Writing, UnderManager, WriterAlone,
           TouchedUnderLock, WritersKnown, SectionsKnown, ReadersCounted, Locks,
           InSection, InRead, DeleteTask, Call, mutex
  <1>5. SectionsKnown'
    BY DEF TypeOK, MutexTypeOK, Reading, Writing, UnderManager, SectionsKnown,
           WritersKnown, DeleteTask, Call, mutex
  <1>6. ManagerKnown'
    BY DEF TypeOK, MutexTypeOK, Reading, Writing, UnderManager, ManagerKnown,
           DeleteTask, Call, mutex
  <1> QED BY <1>1, <1>2, <1>3, <1>4, <1>5, <1>6

LEMMA AskReadStep ==
    ASSUME IInv, NEW p \in Procs, AskRead(p)
    PROVE  IInv'
  <1> USE MutexAssumption DEF IInv
  <1>1. TypeOK'
    <2>1. MutexTypeOK'
      BY RLockType DEF TypeOK, AskRead
    <2>2. /\ op' \in [Procs -> Ops] /\ at' \in [Procs -> {"outside", "asked"}]
          /\ manager' \in Procs \cup {NoProc} /\ deleted' \in BOOLEAN /\ ops' \in 0..MaxOps
      BY StorageAssumption DEF TypeOK, Ops, AskRead, RLock, store
    <2>3. todo' \in [Procs -> Seq(Parts)]
      BY PartsInOrder DEF TypeOK, SectionsKnown, Writing, Reading, InRead, AskRead,
             RLock, store
    <2>4. /\ got' \in [Procs -> Versions] /\ memory' \in Versions \cup {Uncached}
          /\ disk' \in Versions /\ touched' \subseteq Parts
      BY DEF TypeOK, Versions, Nothing, Parts, Uncached, AskRead, RLock, store
    <2> QED BY <2>1, <2>2, <2>3, <2>4 DEF TypeOK
  <1>2. ReadersCounted'
    BY DEF TypeOK, MutexTypeOK, Reading, Writing, UnderManager, ReadersCounted, Locks,
           InSection, InRead, SectionsKnown, WritersKnown, AskRead, RLock, store
  <1>3. WritersKnown'
    BY DEF TypeOK, MutexTypeOK, Reading, Writing, UnderManager, WritersKnown,
           SectionsKnown, AskRead, RLock, store
  <1>4. WriterAlone' /\ TouchedUnderLock'
    BY DEF TypeOK, MutexTypeOK, Reading, Writing, UnderManager, WriterAlone,
           TouchedUnderLock, WritersKnown, SectionsKnown, ReadersCounted, Locks,
           InSection, InRead, AskRead, RLock, store
  <1>5. SectionsKnown'
    BY DEF TypeOK, MutexTypeOK, Reading, Writing, UnderManager, SectionsKnown,
           WritersKnown, AskRead, RLock, store
  <1>6. ManagerKnown'
    BY DEF TypeOK, MutexTypeOK, Reading, Writing, UnderManager, ManagerKnown, AskRead,
           RLock, store
  <1> QED BY <1>1, <1>2, <1>3, <1>4, <1>5, <1>6

LEMMA ReadPartStep ==
    ASSUME IInv, NEW p \in Procs, ReadPart(p)
    PROVE  IInv'
  <1> USE MutexAssumption DEF IInv
  <1>1. TypeOK'
    <2>1. MutexTypeOK'
      BY DEF TypeOK, MutexTypeOK, ReadersCounted, Locks, InSection, InRead,
             SectionsKnown, WritersKnown, Reading, Writing, UnderManager, ReadPart,
             RUnlock, InRead, store
    <2>2. /\ op' \in [Procs -> Ops] /\ at' \in [Procs -> {"outside", "asked"}]
          /\ manager' \in Procs \cup {NoProc} /\ deleted' \in BOOLEAN /\ ops' \in 0..MaxOps
      BY StorageAssumption DEF TypeOK, Ops, ReadPart, RUnlock, InRead, store
    <2>3. todo' \in [Procs -> Seq(Parts)]
      <3>1. todo[p] \in Seq(Parts) /\ todo[p] # <<>>
        BY DEF TypeOK, SectionsKnown, InRead, Reading, Writing, WritersKnown, ReadPart,
               RUnlock, InRead, store
      <3>2. Tail(todo[p]) \in Seq(Parts)
        BY <3>1, HeadTailProperties
      <3> QED BY <3>2 DEF TypeOK, ReadPart, RUnlock, InRead, store
    <2>4. /\ got' \in [Procs -> Versions] /\ memory' \in Versions \cup {Uncached}
          /\ disk' \in Versions /\ touched' \subseteq Parts
      <3>1. Head(todo[p]) \in Parts
        BY HeadTailProperties DEF TypeOK, SectionsKnown, InRead, Reading, Writing,
               WritersKnown, ReadPart, RUnlock, InRead, store
      <3> QED BY <3>1 DEF TypeOK, Versions, Nothing, ManagerKnown, Writing, ReadPart,
                 RUnlock, InRead, store
    <2> QED BY <2>1, <2>2, <2>3, <2>4 DEF TypeOK
  <1>2. ReadersCounted'
    BY DEF TypeOK, MutexTypeOK, Reading, Writing, UnderManager, ReadersCounted, Locks,
           InSection, InRead, SectionsKnown, WritersKnown, ReadPart, RUnlock, InRead,
           store
  <1>3. WritersKnown'
    BY DEF TypeOK, MutexTypeOK, Reading, Writing, UnderManager, WritersKnown,
           SectionsKnown, ReadPart, RUnlock, InRead, store
  <1>4. WriterAlone' /\ TouchedUnderLock'
    BY DEF TypeOK, MutexTypeOK, Reading, Writing, UnderManager, WriterAlone,
           TouchedUnderLock, WritersKnown, SectionsKnown, ReadersCounted, Locks,
           InSection, InRead, ReadPart, RUnlock, InRead, store
  <1>5. SectionsKnown'
    BY DEF TypeOK, MutexTypeOK, Reading, Writing, UnderManager, SectionsKnown,
           WritersKnown, ReadPart, RUnlock, InRead, store
  <1>6. ManagerKnown'
    BY DEF TypeOK, MutexTypeOK, Reading, Writing, UnderManager, ManagerKnown, ReadPart,
           RUnlock, InRead, store
  <1> QED BY <1>1, <1>2, <1>3, <1>4, <1>5, <1>6

LEMMA SkipPartStep ==
    ASSUME IInv, NEW p \in Procs, SkipPart(p)
    PROVE  IInv'
  <1> USE MutexAssumption DEF IInv
  <1>1. TypeOK'
    <2>1. MutexTypeOK'
      BY DEF TypeOK, MutexTypeOK, SkipPart, mutex, store
    <2>2. /\ op' \in [Procs -> Ops] /\ at' \in [Procs -> {"outside", "asked"}]
          /\ manager' \in Procs \cup {NoProc} /\ deleted' \in BOOLEAN /\ ops' \in 0..MaxOps
      BY StorageAssumption DEF TypeOK, Ops, SkipPart, mutex, store
    <2>3. todo' \in [Procs -> Seq(Parts)]
      <3>1. todo[p] \in Seq(Parts) /\ todo[p] # <<>>
        BY DEF TypeOK, SectionsKnown, InRead, Reading, Writing, WritersKnown, SkipPart,
               mutex, store
      <3>2. Tail(todo[p]) \in Seq(Parts)
        BY <3>1, HeadTailProperties
      <3> QED BY <3>2 DEF TypeOK, SkipPart, mutex, store
    <2>4. /\ got' \in [Procs -> Versions] /\ memory' \in Versions \cup {Uncached}
          /\ disk' \in Versions /\ touched' \subseteq Parts
      BY DEF TypeOK, Versions, Nothing, Parts, Uncached, SkipPart, mutex, store
    <2> QED BY <2>1, <2>2, <2>3, <2>4 DEF TypeOK
  <1>2. ReadersCounted'
    BY DEF TypeOK, MutexTypeOK, Reading, Writing, UnderManager, ReadersCounted, Locks,
           InSection, InRead, SectionsKnown, WritersKnown, SkipPart, mutex, store
  <1>3. WritersKnown'
    BY DEF TypeOK, MutexTypeOK, Reading, Writing, UnderManager, WritersKnown,
           SectionsKnown, SkipPart, mutex, store
  <1>4. WriterAlone' /\ TouchedUnderLock'
    BY DEF TypeOK, MutexTypeOK, Reading, Writing, UnderManager, WriterAlone,
           TouchedUnderLock, WritersKnown, SectionsKnown, ReadersCounted, Locks,
           InSection, InRead, SkipPart, mutex, store
  <1>5. SectionsKnown'
    BY DEF TypeOK, MutexTypeOK, Reading, Writing, UnderManager, SectionsKnown,
           WritersKnown, SkipPart, mutex, store
  <1>6. ManagerKnown'
    BY DEF TypeOK, MutexTypeOK, Reading, Writing, UnderManager, ManagerKnown, SkipPart,
           mutex, store
  <1> QED BY <1>1, <1>2, <1>3, <1>4, <1>5, <1>6

LEMMA AskWriteStep ==
    ASSUME IInv, NEW p \in Procs, AskWrite(p)
    PROVE  IInv'
  <1> USE MutexAssumption DEF IInv
  <1>1. TypeOK'
    BY StorageAssumption DEF TypeOK, MutexTypeOK, Versions, Ops, Parts, InOrder,
           Nothing, Uncached, Reading, Writing, UnderManager, ReadersCounted, Locks,
           InSection, InRead, SectionsKnown, ManagerKnown, AskWrite, Announce, store
  <1>2. ReadersCounted'
    BY DEF TypeOK, MutexTypeOK, Reading, Writing, UnderManager, ReadersCounted, Locks,
           InSection, InRead, SectionsKnown, WritersKnown, AskWrite, Announce, store
  <1>3. WritersKnown'
    BY DEF TypeOK, MutexTypeOK, Reading, Writing, UnderManager, WritersKnown,
           SectionsKnown, AskWrite, Announce, store
  <1>4. WriterAlone' /\ TouchedUnderLock'
    BY DEF TypeOK, MutexTypeOK, Reading, Writing, UnderManager, WriterAlone,
           TouchedUnderLock, WritersKnown, SectionsKnown, ReadersCounted, Locks,
           InSection, InRead, AskWrite, Announce, store
  <1>5. SectionsKnown'
    BY DEF TypeOK, MutexTypeOK, Reading, Writing, UnderManager, SectionsKnown,
           WritersKnown, AskWrite, Announce, store
  <1>6. ManagerKnown'
    BY DEF TypeOK, MutexTypeOK, Reading, Writing, UnderManager, ManagerKnown, AskWrite,
           Announce, store
  <1> QED BY <1>1, <1>2, <1>3, <1>4, <1>5, <1>6

LEMMA BeginWriteStep ==
    ASSUME IInv, NEW p \in Procs, BeginWrite(p)
    PROVE  IInv'
  <1> USE MutexAssumption DEF IInv
  <1>1. TypeOK'
    <2>1. MutexTypeOK'
      BY DEF TypeOK, MutexTypeOK, BeginWrite, Acquire, calls
    <2>2. /\ op' \in [Procs -> Ops] /\ at' \in [Procs -> {"outside", "asked"}]
          /\ manager' \in Procs \cup {NoProc} /\ deleted' \in BOOLEAN /\ ops' \in 0..MaxOps
      BY StorageAssumption DEF TypeOK, Ops, BeginWrite, Acquire, calls
    <2>3. todo' \in [Procs -> Seq(Parts)]
      BY PartsInOrder DEF TypeOK, SectionsKnown, Writing, Reading, InRead, BeginWrite,
             Acquire, calls
    <2>4. /\ got' \in [Procs -> Versions] /\ memory' \in Versions \cup {Uncached}
          /\ disk' \in Versions /\ touched' \subseteq Parts
      <3>1. Head(todo[p]) \in Parts
        BY HeadTailProperties DEF TypeOK, SectionsKnown, InRead, Reading, Writing,
               WritersKnown, BeginWrite, Acquire, calls
      <3> QED BY <3>1 DEF TypeOK, Versions, Nothing, ManagerKnown, Writing, BeginWrite,
                 Acquire, calls
    <2> QED BY <2>1, <2>2, <2>3, <2>4 DEF TypeOK
  <1>2. ReadersCounted'
    BY DEF TypeOK, MutexTypeOK, Reading, Writing, UnderManager, ReadersCounted, Locks,
           InSection, InRead, SectionsKnown, WritersKnown, BeginWrite, Acquire, calls
  <1>3. WritersKnown'
    BY DEF TypeOK, MutexTypeOK, Reading, Writing, UnderManager, WritersKnown,
           SectionsKnown, BeginWrite, Acquire, calls
  <1>4. WriterAlone' /\ TouchedUnderLock'
    BY DEF TypeOK, MutexTypeOK, Reading, Writing, UnderManager, WriterAlone,
           TouchedUnderLock, WritersKnown, SectionsKnown, ReadersCounted, Locks,
           InSection, InRead, BeginWrite, Acquire, calls
  <1>5. SectionsKnown'
    BY DEF TypeOK, MutexTypeOK, Reading, Writing, UnderManager, SectionsKnown,
           WritersKnown, BeginWrite, Acquire, calls
  <1>6. ManagerKnown'
    BY DEF TypeOK, MutexTypeOK, Reading, Writing, UnderManager, ManagerKnown,
           BeginWrite, Acquire, calls
  <1> QED BY <1>1, <1>2, <1>3, <1>4, <1>5, <1>6

LEMMA EndWriteStep ==
    ASSUME IInv, NEW p \in Procs, EndWrite(p)
    PROVE  IInv'
  <1> USE MutexAssumption DEF IInv
  <1>1. TypeOK'
    <2>1. MutexTypeOK'
      BY UnlockType DEF TypeOK, EndWrite
    <2>2. /\ op' \in [Procs -> Ops] /\ at' \in [Procs -> {"outside", "asked"}]
          /\ manager' \in Procs \cup {NoProc} /\ deleted' \in BOOLEAN /\ ops' \in 0..MaxOps
      BY StorageAssumption DEF TypeOK, Ops, EndWrite, Unlock, Object
    <2>3. todo' \in [Procs -> Seq(Parts)]
      <3>1. todo[p] \in Seq(Parts) /\ todo[p] # <<>>
        BY DEF TypeOK, SectionsKnown, InRead, Reading, Writing, WritersKnown, EndWrite,
               Unlock, Object
      <3>2. Tail(todo[p]) \in Seq(Parts)
        BY <3>1, HeadTailProperties
      <3> QED BY <3>2 DEF TypeOK, EndWrite, Unlock, Object
    <2>4. /\ got' \in [Procs -> Versions] /\ memory' \in Versions \cup {Uncached}
          /\ disk' \in Versions /\ touched' \subseteq Parts
      <3>1. Head(todo[p]) \in Parts
        BY HeadTailProperties DEF TypeOK, SectionsKnown, InRead, Reading, Writing,
               WritersKnown, EndWrite, Unlock, Object
      <3> QED BY <3>1 DEF TypeOK, Versions, Nothing, ManagerKnown, Writing, EndWrite,
                 Unlock, Object
    <2> QED BY <2>1, <2>2, <2>3, <2>4 DEF TypeOK
  <1>2. ReadersCounted'
    BY DEF TypeOK, MutexTypeOK, Reading, Writing, UnderManager, ReadersCounted, Locks,
           InSection, InRead, SectionsKnown, WritersKnown, EndWrite, Unlock, Object
  <1>3. WritersKnown'
    BY DEF TypeOK, MutexTypeOK, Reading, Writing, UnderManager, WritersKnown,
           SectionsKnown, EndWrite, Unlock, Object
  <1>4. WriterAlone' /\ TouchedUnderLock'
    BY DEF TypeOK, MutexTypeOK, Reading, Writing, UnderManager, WriterAlone,
           TouchedUnderLock, WritersKnown, SectionsKnown, ReadersCounted, Locks,
           InSection, InRead, EndWrite, Unlock, Object
  <1>5. SectionsKnown'
    BY DEF TypeOK, MutexTypeOK, Reading, Writing, UnderManager, SectionsKnown,
           WritersKnown, EndWrite, Unlock, Object
  <1>6. ManagerKnown'
    BY DEF TypeOK, MutexTypeOK, Reading, Writing, UnderManager, ManagerKnown, EndWrite,
           Unlock, Object
  <1> QED BY <1>1, <1>2, <1>3, <1>4, <1>5, <1>6

LEMMA ReadDirStep ==
    ASSUME IInv, NEW p \in Procs, ReadDir(p)
    PROVE  IInv'
  <1> USE MutexAssumption DEF IInv
  <1>1. TypeOK'
    <2>1. MutexTypeOK'
      BY DEF TypeOK, MutexTypeOK, ReadDir, mutex, store
    <2>2. /\ op' \in [Procs -> Ops] /\ at' \in [Procs -> {"outside", "asked"}]
          /\ manager' \in Procs \cup {NoProc} /\ deleted' \in BOOLEAN /\ ops' \in 0..MaxOps
      BY StorageAssumption DEF TypeOK, Ops, ReadDir, mutex, store
    <2>3. todo' \in [Procs -> Seq(Parts)]
      BY PartsInOrder DEF TypeOK, SectionsKnown, Writing, Reading, InRead, ReadDir,
             mutex, store
    <2>4. /\ got' \in [Procs -> Versions] /\ memory' \in Versions \cup {Uncached}
          /\ disk' \in Versions /\ touched' \subseteq Parts
      BY DEF TypeOK, Versions, Nothing, Parts, Uncached, ReadDir, mutex, store
    <2> QED BY <2>1, <2>2, <2>3, <2>4 DEF TypeOK
  <1>2. ReadersCounted'
    BY DEF TypeOK, MutexTypeOK, Reading, Writing, UnderManager, ReadersCounted, Locks,
           InSection, InRead, SectionsKnown, WritersKnown, ReadDir, mutex, store
  <1>3. WritersKnown'
    BY DEF TypeOK, MutexTypeOK, Reading, Writing, UnderManager, WritersKnown,
           SectionsKnown, ReadDir, mutex, store
  <1>4. WriterAlone' /\ TouchedUnderLock'
    BY DEF TypeOK, MutexTypeOK, Reading, Writing, UnderManager, WriterAlone,
           TouchedUnderLock, WritersKnown, SectionsKnown, ReadersCounted, Locks,
           InSection, InRead, ReadDir, mutex, store
  <1>5. SectionsKnown'
    BY DEF TypeOK, MutexTypeOK, Reading, Writing, UnderManager, SectionsKnown,
           WritersKnown, ReadDir, mutex, store
  <1>6. ManagerKnown'
    BY DEF TypeOK, MutexTypeOK, Reading, Writing, UnderManager, ManagerKnown, ReadDir,
           mutex, store
  <1> QED BY <1>1, <1>2, <1>3, <1>4, <1>5, <1>6

LEMMA EndListStep ==
    ASSUME IInv, NEW p \in Procs, EndList(p)
    PROVE  IInv'
  <1> USE MutexAssumption DEF IInv
  <1>1. TypeOK'
    <2>1. MutexTypeOK'
      BY DEF TypeOK, MutexTypeOK, ReadersCounted, Locks, InSection, InRead,
             SectionsKnown, WritersKnown, Reading, Writing, UnderManager, EndList,
             RUnlock, Return, store
    <2>2. /\ op' \in [Procs -> Ops] /\ at' \in [Procs -> {"outside", "asked"}]
          /\ manager' \in Procs \cup {NoProc} /\ deleted' \in BOOLEAN /\ ops' \in 0..MaxOps
      BY StorageAssumption DEF TypeOK, Ops, EndList, RUnlock, Return, store
    <2>3. todo' \in [Procs -> Seq(Parts)]
      BY PartsInOrder DEF TypeOK, SectionsKnown, Writing, Reading, InRead, EndList,
             RUnlock, Return, store
    <2>4. /\ got' \in [Procs -> Versions] /\ memory' \in Versions \cup {Uncached}
          /\ disk' \in Versions /\ touched' \subseteq Parts
      BY DEF TypeOK, Versions, Nothing, Parts, Uncached, EndList, RUnlock, Return, store
    <2> QED BY <2>1, <2>2, <2>3, <2>4 DEF TypeOK
  <1>2. ReadersCounted'
    BY DEF TypeOK, MutexTypeOK, Reading, Writing, UnderManager, ReadersCounted, Locks,
           InSection, InRead, SectionsKnown, WritersKnown, EndList, RUnlock, Return, store
  <1>3. WritersKnown'
    BY DEF TypeOK, MutexTypeOK, Reading, Writing, UnderManager, WritersKnown,
           SectionsKnown, EndList, RUnlock, Return, store
  <1>4. WriterAlone' /\ TouchedUnderLock'
    BY DEF TypeOK, MutexTypeOK, Reading, Writing, UnderManager, WriterAlone,
           TouchedUnderLock, WritersKnown, SectionsKnown, ReadersCounted, Locks,
           InSection, InRead, EndList, RUnlock, Return, store
  <1>5. SectionsKnown'
    BY DEF TypeOK, MutexTypeOK, Reading, Writing, UnderManager, SectionsKnown,
           WritersKnown, EndList, RUnlock, Return, store
  <1>6. ManagerKnown'
    BY DEF TypeOK, MutexTypeOK, Reading, Writing, UnderManager, ManagerKnown, EndList,
           RUnlock, Return, store
  <1> QED BY <1>1, <1>2, <1>3, <1>4, <1>5, <1>6

LEMMA EndReadStep ==
    ASSUME IInv, NEW p \in Procs, EndRead(p)
    PROVE  IInv'
  <1> USE MutexAssumption DEF IInv
  <1>1. TypeOK'
    BY StorageAssumption DEF TypeOK, MutexTypeOK, Versions, Ops, Parts, InOrder,
           Nothing, Uncached, Reading, Writing, UnderManager, ReadersCounted, Locks,
           InSection, InRead, SectionsKnown, ManagerKnown, EndRead, mutex, Return, store
  <1>2. ReadersCounted'
    BY DEF TypeOK, MutexTypeOK, Reading, Writing, UnderManager, ReadersCounted, Locks,
           InSection, InRead, SectionsKnown, WritersKnown, EndRead, mutex, Return, store
  <1>3. WritersKnown'
    BY DEF TypeOK, MutexTypeOK, Reading, Writing, UnderManager, WritersKnown,
           SectionsKnown, EndRead, mutex, Return, store
  <1>4. WriterAlone' /\ TouchedUnderLock'
    BY DEF TypeOK, MutexTypeOK, Reading, Writing, UnderManager, WriterAlone,
           TouchedUnderLock, WritersKnown, SectionsKnown, ReadersCounted, Locks,
           InSection, InRead, EndRead, mutex, Return, store
  <1>5. SectionsKnown'
    BY DEF TypeOK, MutexTypeOK, Reading, Writing, UnderManager, SectionsKnown,
           WritersKnown, EndRead, mutex, Return, store
  <1>6. ManagerKnown'
    BY DEF TypeOK, MutexTypeOK, Reading, Writing, UnderManager, ManagerKnown, EndRead,
           mutex, Return, store
  <1> QED BY <1>1, <1>2, <1>3, <1>4, <1>5, <1>6

LEMMA EditStep ==
    ASSUME IInv, NEW p \in Procs, NEW e \in Edits, Edit(p, e)
    PROVE  IInv'
  <1> USE MutexAssumption DEF IInv
  <1>1. TypeOK'
    <2>1. MutexTypeOK'
      BY DEF TypeOK, MutexTypeOK, Edit, mutex, Edits
    <2>2. /\ op' \in [Procs -> Ops] /\ at' \in [Procs -> {"outside", "asked"}]
          /\ manager' \in Procs \cup {NoProc} /\ deleted' \in BOOLEAN /\ ops' \in 0..MaxOps
      BY StorageAssumption DEF TypeOK, Ops, Edit, mutex, Edits
    <2>3. todo' \in [Procs -> Seq(Parts)]
      <3>1. e.saves \in {InOrder, <<"task">>}
        BY DEF Edits
      <3>2. e.saves \in Seq(Parts)
        BY <3>1, PartsInOrder
      <3> QED BY <3>2 DEF TypeOK, Edit
    <2>4. /\ got' \in [Procs -> Versions] /\ memory' \in Versions \cup {Uncached}
          /\ disk' \in Versions /\ touched' \subseteq Parts
      <3> DEFINE context == IF memory = Uncached THEN got[p] ELSE memory
      <3>1. context \in Versions
        BY DEF TypeOK
      <3>2. [f \in Parts |-> IF f \in e.changes THEN context[f] + 1 ELSE context[f]] \in Versions
        BY <3>1 DEF Versions
      <3>3. memory' \in Versions
        BY <3>1, <3>2 DEF Edit
      <3> QED BY <3>3 DEF TypeOK, Edit
    <2> QED BY <2>1, <2>2, <2>3, <2>4 DEF TypeOK
  <1>2. ReadersCounted'
    BY DEF TypeOK, MutexTypeOK, Reading, Writing, UnderManager, ReadersCounted, Locks,
           InSection, InRead, SectionsKnown, WritersKnown, Edit, mutex, Edits
  <1>3. WritersKnown'
    BY DEF TypeOK, MutexTypeOK, Reading, Writing, UnderManager, WritersKnown,
           SectionsKnown, Edit, mutex, Edits
  <1>4. WriterAlone' /\ TouchedUnderLock'
    BY DEF TypeOK, MutexTypeOK, Reading, Writing, UnderManager, WriterAlone,
           TouchedUnderLock, WritersKnown, SectionsKnown, ReadersCounted, Locks,
           InSection, InRead, Edit, mutex, Edits
  <1>5. SectionsKnown'
    BY DEF TypeOK, MutexTypeOK, Reading, Writing, UnderManager, SectionsKnown,
           WritersKnown, Edit, mutex, Edits
  <1>6. ManagerKnown'
    <2> DEFINE context == IF memory = Uncached THEN got[p] ELSE memory
               changed == [f \in Parts |-> IF f \in e.changes THEN context[f] + 1 ELSE context[f]]
    <2>1. changed # Uncached
      <3>1. DOMAIN changed = Parts
        OBVIOUS
      <3>2. DOMAIN Uncached = {} /\ Parts # {}
        BY DEF Uncached, Parts
      <3> QED BY <3>1, <3>2
    <2>2. /\ op' = [op EXCEPT ![p] = "save"] /\ memory' = changed /\ manager' = manager
          \/ /\ op' = [op EXCEPT ![p] = "idle"] /\ manager' = NoProc
      BY DEF Edit
    <2>3. op[p] = "load"
      BY DEF Edit
    <2>4. ASSUME NEW q \in Procs, op[q] \in UnderManager PROVE q = p
      BY <2>3, <2>4 DEF ManagerKnown, UnderManager
    <2>5. \A q \in Procs : q # p => op'[q] = op[q] /\ op[q] \notin UnderManager
      BY <2>2, <2>4 DEF TypeOK
    <2>6. op'[p] = "idle" \/ (op'[p] = "save" /\ memory' = changed /\ manager' = manager)
      BY <2>2 DEF TypeOK
    <2> HIDE DEF changed
    <2> QED BY <2>1, <2>3, <2>5, <2>6 DEF UnderManager, ManagerKnown
  <1> QED BY <1>1, <1>2, <1>3, <1>4, <1>5, <1>6

LEMMA EndOperationStep ==
    ASSUME IInv, NEW p \in Procs, EndOperation(p)
    PROVE  IInv'
  <1> USE MutexAssumption DEF IInv
  <1>1. TypeOK'
    BY StorageAssumption DEF TypeOK, MutexTypeOK, Versions, Ops, Parts, InOrder,
           Nothing, Uncached, Reading, Writing, UnderManager, ReadersCounted, Locks,
           InSection, InRead, SectionsKnown, ManagerKnown, EndOperation, mutex, Return
  <1>2. ReadersCounted'
    BY DEF TypeOK, MutexTypeOK, Reading, Writing, UnderManager, ReadersCounted, Locks,
           InSection, InRead, SectionsKnown, WritersKnown, EndOperation, mutex, Return
  <1>3. WritersKnown'
    BY DEF TypeOK, MutexTypeOK, Reading, Writing, UnderManager, WritersKnown,
           SectionsKnown, EndOperation, mutex, Return
  <1>4. WriterAlone' /\ TouchedUnderLock'
    BY DEF TypeOK, MutexTypeOK, Reading, Writing, UnderManager, WriterAlone,
           TouchedUnderLock, WritersKnown, SectionsKnown, ReadersCounted, Locks,
           InSection, InRead, EndOperation, mutex, Return
  <1>5. SectionsKnown'
    BY DEF TypeOK, MutexTypeOK, Reading, Writing, UnderManager, SectionsKnown,
           WritersKnown, EndOperation, mutex, Return
  <1>6. ManagerKnown'
    BY DEF TypeOK, MutexTypeOK, Reading, Writing, UnderManager, ManagerKnown,
           EndOperation, mutex, Return
  <1> QED BY <1>1, <1>2, <1>3, <1>4, <1>5, <1>6

LEMMA InitInvariant == Init => IInv
  <1> SUFFICES ASSUME Init PROVE IInv
    OBVIOUS
  <1> USE MutexAssumption DEF Init, MutexInit, Planning
  <1>1. memory \in Versions \cup {Uncached} /\ disk \in Versions
    BY DEF Versions, Parts
  <1>2. \A p \in Procs : Planning(p) => memory \in Versions
    BY <1>1
  <1>3. /\ op \in [Procs -> Ops] /\ todo \in [Procs -> Seq(Parts)]
        /\ got \in [Procs -> Versions]
    BY <1>2, PartsInOrder DEF Ops, Versions, Nothing
  <1>4. TypeOK
    <2>1. MutexTypeOK
      BY DEF MutexTypeOK
    <2>2. 0 \in 0..MaxOps
      BY StorageAssumption
    <2> QED BY <1>1, <1>3, <2>1, <2>2 DEF TypeOK
  <1>5. ReadersCounted /\ WritersKnown /\ WriterAlone /\ TouchedUnderLock /\ SectionsKnown
    BY DEF ReadersCounted, Locks, InSection, InRead, WritersKnown, WriterAlone,
           TouchedUnderLock, SectionsKnown, Writing, Reading
  <1>6. ManagerKnown
    BY DEF ManagerKnown, UnderManager
  <1> QED BY <1>4, <1>5, <1>6 DEF IInv

LEMMA StutterStep == IInv /\ UNCHANGED vars => IInv'
  BY DEF IInv, TypeOK, MutexTypeOK, ReadersCounted, Locks, InSection, InRead,
         WritersKnown,
         WriterAlone, TouchedUnderLock, SectionsKnown, ManagerKnown, vars, mutex, calls, store

LEMMA NextInvariant == IInv /\ [Next]_vars => IInv'
  <1> SUFFICES ASSUME IInv, [Next]_vars PROVE IInv'
    OBVIOUS
  <1>1. CASE UNCHANGED vars
    BY <1>1, StutterStep
  <1>2. ASSUME NEW p \in Procs,
               ListTasks(p) \/ GetTaskContext(p) \/ Operate(p) \/ DeleteTask(p)
        PROVE  IInv'
    BY <1>2, ListTasksStep, GetTaskContextStep, OperateStep, DeleteTaskStep
  <1>3. ASSUME NEW p \in Procs, Continue(p) PROVE IInv'
    <2>1. CASE \E e \in Edits : Edit(p, e)
      BY <2>1, EditStep
    <2> QED BY <1>3, <2>1, AskReadStep, ReadPartStep, SkipPartStep, AskWriteStep,
               BeginWriteStep, EndWriteStep, ReadDirStep, EndListStep, EndReadStep,
               EndOperationStep DEF Continue
  <1> QED BY <1>1, <1>2, <1>3 DEF Next

THEOREM Invariance == Spec => []IInv
  BY InitInvariant, NextInvariant, PTL DEF Spec

(* The storage's state keeps its types: among them, no read lock is given    *)
(* back that was not taken (active never falls below zero).                 *)
THEOREM TypeCorrect == Spec => []TypeOK
  <1>1. IInv => TypeOK
    BY DEF IInv
  <1> QED BY <1>1, Invariance, PTL

(* For any number of callers: while a file of the task is being written or   *)
(* removed, no call is inside a section that reads.                         *)
THEOREM NoReadIsTorn == Spec => []NoTornReads
  <1>1. IInv => NoTornReads
    <2> SUFFICES ASSUME IInv, NEW p \in Procs, InSection(p) PROVE touched = {}
      BY DEF NoTornReads, InSection
    <2>1. active[p] > 0
      BY DEF IInv, ReadersCounted, Locks
    <2>2. ~locked
      BY <2>1 DEF IInv, WriterAlone, TypeOK, MutexTypeOK
    <2> QED BY <2>2 DEF IInv, TouchedUnderLock
  <1> QED BY <1>1, Invariance, PTL
-----------------------------------------------------------------------------
(* What a call has still to read or to write, in the order of LoadContext   *)
(* and SaveContext.                                                         *)
AfterTask == <<"findings", "progress">>
AfterFindings == <<"progress">>

TodoKnown ==
    \A p \in Procs :
        /\ op[p] \in {"read", "load"} =>
              todo[p] \in {InOrder, AfterTask, AfterFindings, <<>>}
        /\ op[p] = "save" =>
              todo[p] \in {InOrder, AfterTask, AfterFindings, <<"task">>, <<>>}
        /\ op[p] \in {"plan", "delete"} => todo[p] \in {<<"task">>, <<>>}
        /\ op[p] = "delete" /\ todo[p] = <<>> => deleted

(* The files of a cached context are those in memory, but for what a save   *)
(* has still to write: the task is written before the progress.             *)
FilesFollowMemory ==
    memory # Uncached =>
        /\ memory["task"] = memory["progress"]
        /\ disk["task"] <= memory["task"]
        /\ disk["progress"] <= memory["progress"]
        /\ memory["progress"] <= disk["progress"] + 1
        /\ disk["task"] # memory["task"] =>
              \E p \in Procs : op[p] = "save" /\ todo[p] = InOrder
        /\ disk["progress"] # memory["progress"] =>
              \E p \in Procs : op[p] = "save" /\ todo[p] \in {InOrder, AfterTask, AfterFindings}

(* Without a cached context nobody saves, and nobody has a plan to store;   *)
(* unless the task is being deleted.                                        *)
FilesAreWhole ==
    memory = Uncached =>
        /\ disk["task"] <= disk["progress"] + 1
        /\ \/ \E p \in Procs : op[p] = "delete"
           \/ /\ disk["task"] = disk["progress"]
              /\ \A p \in Procs : op[p] # "plan"

(* What a call has read so far, and what a plan holds.                      *)
PartsRead ==
    \A p \in Procs :
        /\ op[p] = "plan" => got[p]["task"] <= 1
        /\ op[p] = "load" /\ memory = Uncached =>
              /\ todo[p] # InOrder => got[p]["task"] = disk["task"]
              /\ todo[p] = <<>> => got[p]["progress"] = disk["progress"]
        /\ op[p] = "read" =>
              /\ todo[p] \in {AfterTask, AfterFindings} =>
                    got[p]["task"] <= disk["progress"] + 1
              /\ todo[p] = <<>> => got[p]["task"] <= got[p]["progress"] + 1

VersionInv ==
    /\ TodoKnown
    /\ ~deleted => FilesFollowMemory /\ FilesAreWhole /\ PartsRead
-----------------------------------------------------------------------------
LEMMA PartsDiffer ==
    /\ InOrder # AfterTask /\ InOrder # AfterFindings /\ InOrder # <<"task">>
    /\ InOrder # <<>> /\ AfterTask # AfterFindings /\ AfterTask # <<"task">>
    /\ AfterTask # <<>> /\ AfterFindings # <<"task">> /\ AfterFindings # <<>>
    /\ <<"task">> # <<>>
  <1>1. /\ Len(InOrder) = 3 /\ Len(AfterTask) = 2 /\ Len(AfterFindings) = 1
        /\ Len(<<"task">>) = 1 /\ Len(<<>>) = 0
    BY DEF InOrder, AfterTask, AfterFindings
  <1>2. AfterFindings[1] # (<<"task">>)[1]
    BY DEF AfterFindings
  <1> QED BY <1>1, <1>2

LEMMA PartsTaken ==
    /\ Head(InOrder) = "task" /\ Tail(InOrder) = AfterTask
    /\ Head(AfterTask) = "findings" /\ Tail(AfterTask) = AfterFindings
    /\ Head(AfterFindings) = "progress" /\ Tail(AfterFindings) = <<>>
    /\ Head(<<"task">>) = "task" /\ Tail(<<"task">>) = <<>>
  BY DEF InOrder, AfterTask, AfterFindings

LEMMA VersionsCount ==
    ASSUME TypeOK
    PROVE  /\ disk["task"] \in Nat /\ disk["findings"] \in Nat /\ disk["progress"] \in Nat
           /\ memory # Uncached => memory["task"] \in Nat /\ memory["progress"] \in Nat
           /\ \A p \in Procs : got[p]["task"] \in Nat /\ got[p]["progress"] \in Nat
  BY DEF TypeOK, Versions, Parts

(* Manager.mu admits one operation at a time. *)
LEMMA OneOperation ==
    ASSUME IInv
    PROVE  /\ \A p, q \in Procs : op[p] \in UnderManager /\ op[q] \in UnderManager => p = q
           /\ manager = NoProc => \A p \in Procs : op[p] \notin UnderManager
  BY MutexAssumption DEF IInv, ManagerKnown

Others(p) ==
    \A q \in Procs : q # p => op'[q] = op[q] /\ todo'[q] = todo[q] /\ got'[q] = got[q]

(* A call begins, ends, or takes or gives back a lock. *)
LEMMA QuietStep ==
    ASSUME IInv, VersionInv, NEW p \in Procs, Others(p),
           UNCHANGED <<memory, disk, deleted>>,
           \/ op'[p] = op[p] /\ todo'[p] = todo[p] /\ got'[p] = got[p]
           \/ op[p] \in {"idle", "list", "entries"} /\ op'[p] \in {"idle", "list", "entries"}
           \/ op[p] \in {"read", "plan"} /\ op'[p] = "idle"
           \/ op[p] = "idle" /\ op'[p] \in {"read", "load"} /\ todo'[p] = InOrder
           \/ /\ op[p] = "idle" /\ op'[p] = "load" /\ todo'[p] = <<>>
              /\ memory # Uncached
    PROVE  VersionInv'
  <1> USE PartsDiffer DEF Others
  <1>1. TodoKnown'
    BY DEF VersionInv, TodoKnown
  <1>2. CASE ~deleted
    <2>1. FilesFollowMemory /\ FilesAreWhole /\ PartsRead
      BY <1>2 DEF VersionInv
    <2>2. FilesFollowMemory'
      BY <2>1 DEF FilesFollowMemory
    <2>3. FilesAreWhole'
      BY <2>1 DEF FilesAreWhole
    <2>4. PartsRead'
      BY <2>1 DEF PartsRead
    <2> QED BY <1>1, <2>2, <2>3, <2>4 DEF VersionInv
  <1> QED BY <1>1, <1>2 DEF VersionInv

LEMMA QuietSteps ==
    ASSUME IInv, VersionInv, NEW p \in Procs,
           \/ ListTasks(p) \/ GetTaskContext(p) \/ Operate(p) \/ AskRead(p) \/ AskWrite(p)
           \/ BeginWrite(p) \/ ReadDir(p) \/ EndList(p) \/ EndRead(p)
    PROVE  VersionInv'
  <1>1. op \in [Procs -> Ops] /\ todo \in [Procs -> Seq(Parts)] /\ got \in [Procs -> Versions]
    BY DEF IInv, TypeOK
  <1>2. CASE ListTasks(p)
    BY <1>1, <1>2, QuietStep DEF ListTasks, Call, store, Others
  <1>3. CASE GetTaskContext(p)
    BY <1>1, <1>3, QuietStep DEF GetTaskContext, Call, store, Others
  <1>4. CASE Operate(p)
    BY <1>1, <1>4, QuietStep DEF Operate, Call, Others
  <1>5. CASE AskRead(p) \/ AskWrite(p)
    BY <1>1, <1>5, QuietStep DEF AskRead, AskWrite, store, Others
  <1>6. CASE BeginWrite(p)
    BY <1>1, <1>6, QuietStep DEF BeginWrite, calls, Others
  <1>7. CASE ReadDir(p)
    BY <1>1, <1>7, QuietStep DEF ReadDir, store, Others
  <1>8. CASE EndList(p) \/ EndRead(p)
    BY <1>1, <1>8, QuietStep DEF EndList, EndRead, Return, store, Others
  <1> QED BY <1>2, <1>3, <1>4, <1>5, <1>6, <1>7, <1>8

LEMMA ReadPartKeeps ==
    ASSUME IInv, VersionInv, NEW p \in Procs, ReadPart(p)
    PROVE  VersionInv'
  <1> DEFINE f == Head(todo[p])
  <1>1. /\ op' = op /\ UNCHANGED <<memory, disk, deleted>>
        /\ op[p] \in Reading
        /\ todo' = [todo EXCEPT ![p] = Tail(todo[p])]
        /\ todo[p] # <<>>
    BY DEF ReadPart, InRead, store, IInv, SectionsKnown, TypeOK, Reading
  <1>2. op \in [Procs -> Ops] /\ todo \in [Procs -> Seq(Parts)] /\ got \in [Procs -> Versions]
    BY DEF IInv, TypeOK
  <1>3. /\ todo'[p] = Tail(todo[p])
        /\ \A q \in Procs : q # p => todo'[q] = todo[q] /\ got'[q] = got[q]
    BY <1>1, <1>2 DEF ReadPart
  <1>4. \A g \in Parts : got'[p][g] = IF g = f THEN disk[g] ELSE got[p][g]
    BY <1>2 DEF ReadPart, Versions
  <1>5. "task" \in Parts /\ "progress" \in Parts
    BY DEF Parts
  <1>6. TodoKnown'
    BY <1>1, <1>3, PartsTaken, PartsDiffer DEF VersionInv, TodoKnown, Reading
  <1>7. CASE ~deleted
    <2>1. FilesFollowMemory /\ FilesAreWhole /\ PartsRead
      BY <1>7 DEF VersionInv
    <2>2. FilesFollowMemory'
      BY <1>1, <1>3, <2>1 DEF FilesFollowMemory, Reading
    <2>3. FilesAreWhole'
      BY <1>1, <2>1 DEF FilesAreWhole
    <2>4. disk["task"] <= disk["progress"] + 1
      BY <2>1, VersionsCount DEF FilesFollowMemory, FilesAreWhole, IInv
    <2>5. ASSUME op[p] = "load", memory = Uncached
          PROVE  /\ todo'[p] # InOrder => got'[p]["task"] = disk["task"]
                 /\ todo'[p] = <<>> => got'[p]["progress"] = disk["progress"]
      BY <1>1, <1>3, <1>4, <1>5, <2>1, <2>5, PartsTaken, PartsDiffer
         DEF PartsRead, VersionInv, TodoKnown
    <2>6. ASSUME op[p] = "read"
          PROVE  /\ todo'[p] \in {AfterTask, AfterFindings} =>
                       got'[p]["task"] <= disk["progress"] + 1
                 /\ todo'[p] = <<>> => got'[p]["task"] <= got'[p]["progress"] + 1
      BY <1>1, <1>3, <1>4, <1>5, <2>1, <2>4, <2>6, PartsTaken, PartsDiffer
         DEF PartsRead, VersionInv, TodoKnown
    <2>7. PartsRead'
      BY <1>1, <1>3, <2>1, <2>5, <2>6 DEF PartsRead, Reading
    <2> QED BY <1>6, <2>2, <2>3, <2>7 DEF VersionInv
  <1> QED BY <1>1, <1>6, <1>7 DEF VersionInv

LEMMA SkipPartKeeps ==
    ASSUME IInv, VersionInv, NEW p \in Procs, SkipPart(p)
    PROVE  VersionInv'
  <1>1. /\ op[p] = "save" /\ todo[p] # <<>> /\ memory # Uncached
        /\ memory[Head(todo[p])] = 0
        /\ UNCHANGED <<op, got, memory, disk, deleted>>
    BY DEF SkipPart, Skips, Object, store, IInv, ManagerKnown
  <1>2. todo'[p] = Tail(todo[p]) /\ \A q \in Procs : q # p => todo'[q] = todo[q]
    BY DEF SkipPart, IInv, TypeOK
  <1>3. TodoKnown'
    BY <1>1, <1>2, PartsTaken, PartsDiffer DEF VersionInv, TodoKnown
  <1>4. CASE ~deleted
    <2>1. FilesFollowMemory /\ FilesAreWhole /\ PartsRead
      BY <1>4 DEF VersionInv
    <2>2. \A q \in Procs : op[q] = "save" => q = p
      BY <1>1, OneOperation DEF UnderManager
    <2>3. /\ disk["task"] # memory["task"] => todo[p] = InOrder
          /\ disk["progress"] # memory["progress"] =>
                todo[p] \in {InOrder, AfterTask, AfterFindings}
      BY <1>1, <2>1, <2>2 DEF FilesFollowMemory
    <2>4. /\ disk["task"] = memory["task"]
          /\ disk["progress"] # memory["progress"] => todo'[p] \in {AfterTask, AfterFindings}
      BY <1>1, <1>2, <2>1, <2>3, PartsTaken, VersionsCount
         DEF FilesFollowMemory, IInv
    <2>5. FilesFollowMemory'
      BY <1>1, <2>1, <2>4 DEF FilesFollowMemory
    <2>6. FilesAreWhole' /\ PartsRead'
      BY <1>1, <1>2, <2>1 DEF FilesAreWhole, PartsRead
    <2> QED BY <1>3, <2>5, <2>6 DEF VersionInv
  <1> QED BY <1>1, <1>3, <1>4 DEF VersionInv

LEMMA EndOperationKeeps ==
    ASSUME IInv, VersionInv, NEW p \in Procs, EndOperation(p)
    PROVE  VersionInv'
  <1>1. /\ op[p] \in {"save", "delete"} /\ todo[p] = <<>>
        /\ UNCHANGED <<todo, got, memory, disk, deleted>>
        /\ op'[p] = "idle" /\ \A q \in Procs : q # p => op'[q] = op[q]
    BY DEF EndOperation, Return, IInv, TypeOK
  <1>2. TodoKnown'
    BY <1>1 DEF VersionInv, TodoKnown
  <1>3. CASE ~deleted
    <2>1. FilesFollowMemory /\ FilesAreWhole /\ PartsRead
      BY <1>3 DEF VersionInv
    <2>2. op[p] = "save" /\ memory # Uncached
      BY <1>1, <1>3 DEF VersionInv, TodoKnown, IInv, ManagerKnown
    <2>3. \A q \in Procs : op[q] = "save" => q = p
      BY <2>2, OneOperation DEF UnderManager
    <2>4. disk["task"] = memory["task"] /\ disk["progress"] = memory["progress"]
      BY <1>1, <2>1, <2>2, <2>3, PartsDiffer DEF FilesFollowMemory
    <2>5. FilesFollowMemory'
      BY <1>1, <2>1, <2>4 DEF FilesFollowMemory
    <2>6. FilesAreWhole'
      BY <1>1, <2>2 DEF FilesAreWhole
    <2>7. PartsRead'
      BY <1>1, <2>1 DEF PartsRead
    <2> QED BY <1>2, <2>5, <2>6, <2>7 DEF VersionInv
  <1> QED BY <1>1, <1>2, <1>3 DEF VersionInv

LEMMA DeleteTaskKeeps ==
    ASSUME IInv, VersionInv, NEW p \in Procs, DeleteTask(p)
    PROVE  VersionInv'
  <1>1. /\ op[p] = "idle" /\ op'[p] = "delete" /\ todo'[p] = <<"task">>
        /\ memory' = Uncached /\ UNCHANGED <<disk, deleted>> /\ manager = NoProc
        /\ Others(p)
    BY DEF DeleteTask, Call, IInv, TypeOK, Others
  <1>2. TodoKnown'
    BY <1>1, PartsDiffer DEF VersionInv, TodoKnown, Others
  <1>3. CASE ~deleted
    <2>1. FilesFollowMemory /\ FilesAreWhole /\ PartsRead
      BY <1>3 DEF VersionInv
    <2>2. \A q \in Procs : op[q] # "load"
      BY <1>1, OneOperation DEF UnderManager
    <2>3. disk["task"] <= disk["progress"] + 1
      BY <2>1, VersionsCount DEF FilesFollowMemory, FilesAreWhole, IInv
    <2>4. FilesFollowMemory' /\ FilesAreWhole'
      BY <1>1, <2>3 DEF FilesFollowMemory, FilesAreWhole
    <2>5. PartsRead'
      BY <1>1, <2>1, <2>2 DEF PartsRead, Others
    <2> QED BY <1>2, <2>4, <2>5 DEF VersionInv
  <1> QED BY <1>1, <1>2, <1>3 DEF VersionInv

LEMMA EditKeeps ==
    ASSUME IInv, VersionInv, NEW p \in Procs, NEW e \in Edits, Edit(p, e)
    PROVE  VersionInv'
  <1> DEFINE context == IF memory = Uncached THEN got[p] ELSE memory
             changed == [f \in Parts |-> IF f \in e.changes THEN context[f] + 1
                                                            ELSE context[f]]
  <1>1. /\ op[p] = "load" /\ todo[p] = <<>> /\ UNCHANGED <<got, disk, deleted>>
        /\ \A q \in Procs : q # p => op'[q] = op[q] /\ todo'[q] = todo[q]
        /\ \/ memory' = changed /\ op'[p] = "save" /\ todo'[p] = e.saves
           \/ memory' = context /\ op'[p] = "idle" /\ todo'[p] = todo[p]
    BY DEF Edit, IInv, TypeOK
  <1>2. /\ e.saves \in {InOrder, <<"task">>}
        /\ "task" \in e.changes <=> "progress" \in e.changes
        /\ "task" \in e.changes => e.saves = InOrder
    BY DEF Edits
  <1>3. changed \in Versions /\ context \in Versions
    BY DEF IInv, TypeOK, Versions
  <1>4. changed # Uncached /\ context # Uncached
    <2>1. DOMAIN changed = Parts /\ DOMAIN context = Parts
      BY <1>3 DEF Versions
    <2>2. DOMAIN Uncached = {} /\ Parts # {}
      BY DEF Uncached, Parts
    <2> HIDE DEF changed, context
    <2> QED BY <2>1, <2>2
  <1>5. /\ changed["task"] = IF "task" \in e.changes THEN context["task"] + 1
                                                     ELSE context["task"]
        /\ changed["progress"] = IF "progress" \in e.changes THEN context["progress"] + 1
                                                             ELSE context["progress"]
    BY DEF Parts
  <1>6. context["task"] \in Nat /\ context["progress"] \in Nat
    BY <1>3 DEF Versions, Parts
  <1>7. TodoKnown'
    BY <1>1, <1>2, PartsDiffer DEF VersionInv, TodoKnown
  <1>8. CASE ~deleted
    <2>1. FilesFollowMemory /\ FilesAreWhole /\ PartsRead
      BY <1>8 DEF VersionInv
    <2>2. \A q \in Procs : op[q] \in UnderManager => q = p
      BY <1>1, OneOperation DEF UnderManager
    <2>3. disk["task"] = context["task"] /\ disk["progress"] = context["progress"]
          /\ context["task"] = context["progress"]
      <3>1. CASE memory = Uncached
        BY <1>1, <2>1, <2>2, <3>1, PartsDiffer DEF FilesAreWhole, PartsRead, UnderManager
      <3>2. CASE memory # Uncached
        BY <1>1, <2>1, <2>2, <3>2 DEF FilesFollowMemory, UnderManager
      <3> QED BY <3>1, <3>2
    <2> HIDE DEF changed, context
    <2>4. FilesFollowMemory'
      <3>1. CASE memory' = context /\ op'[p] = "idle"
        BY <1>1, <1>6, <2>3, <3>1 DEF FilesFollowMemory
      <3>2. CASE memory' = changed /\ op'[p] = "save" /\ todo'[p] = e.saves
        BY <1>1, <1>2, <1>5, <1>6, <2>3, <3>2 DEF FilesFollowMemory
      <3> QED BY <1>1, <3>1, <3>2
    <2>5. memory' # Uncached
      BY <1>1, <1>4
    <2>6. FilesAreWhole'
      BY <2>5 DEF FilesAreWhole
    <2>7. PartsRead'
      BY <1>1, <2>1, <2>5 DEF PartsRead
    <2> QED BY <1>7, <2>4, <2>6, <2>7 DEF VersionInv
  <1> QED BY <1>1, <1>7, <1>8 DEF VersionInv

LEMMA EndWriteKeeps ==
    ASSUME IInv, VersionInv, NEW p \in Procs, EndWrite(p)
    PROVE  VersionInv'
  <1> DEFINE f == Head(todo[p])
  <1>1. /\ op[p] \in Writing /\ todo[p] # <<>> /\ UNCHANGED <<op, got, memory>>
        /\ todo'[p] = Tail(todo[p]) /\ \A q \in Procs : q # p => todo'[q] = todo[q]
        /\ deleted' = (deleted \/ op[p] = "delete")
    BY DEF EndWrite, IInv, TypeOK, WritersKnown, SectionsKnown, Writing
  <1>2. TodoKnown'
    BY <1>1, PartsTaken, PartsDiffer DEF VersionInv, TodoKnown, Writing
  <1>3. CASE ~deleted'
    <2>1. FilesFollowMemory /\ FilesAreWhole /\ PartsRead /\ ~deleted /\ op[p] \in {"save", "plan"}
      BY <1>1, <1>3 DEF VersionInv, Writing
    <2>2. /\ f = "task" => disk'["task"] = Object(p)["task"]
          /\ f # "task" => disk'["task"] = disk["task"]
          /\ f = "progress" => disk'["progress"] = Object(p)["progress"]
          /\ f # "progress" => disk'["progress"] = disk["progress"]
      <3>1. disk' = [disk EXCEPT ![f] = Object(p)[f]] /\ DOMAIN disk = Parts
        BY <2>1 DEF EndWrite, IInv, TypeOK, Versions
      <3>2. "task" \in Parts /\ "progress" \in Parts
        BY DEF Parts
      <3> QED BY <3>1, <3>2
    <2>3. /\ disk["task"] \in Nat /\ disk["progress"] \in Nat
          /\ memory # Uncached => memory["task"] \in Nat /\ memory["progress"] \in Nat
          /\ got[p]["task"] \in Nat
      BY VersionsCount DEF IInv
    <2>4. \A q \in Procs : op[p] = "save" /\ op[q] \in UnderManager => q = p
      BY OneOperation DEF UnderManager
    <2>5. op[p] = "save" => memory # Uncached
      BY DEF IInv, ManagerKnown
    <2>6. Object(p) = IF memory = Uncached THEN got[p] ELSE memory
      BY <2>1 DEF Object
    <2>7. op[p] = "plan" => f = "task" /\ todo[p] = <<"task">> /\ got[p]["task"] <= 1
      BY <1>1, <2>1, PartsTaken DEF VersionInv, TodoKnown, PartsRead
    <2>8. op[p] = "save" => todo[p] \in {InOrder, AfterTask, AfterFindings, <<"task">>}
      BY <1>1 DEF VersionInv, TodoKnown
    <2> HIDE DEF f
    <2>9. disk["progress"] <= disk'["progress"]
      BY <2>1, <2>2, <2>3, <2>5, <2>6, <2>7 DEF FilesFollowMemory
    <2>10. CASE memory # Uncached
      <3>1. /\ disk'["task"] \in {disk["task"], memory["task"]}
            /\ disk'["progress"] \in {disk["progress"], memory["progress"]}
        BY <2>2, <2>6, <2>10
      <3>2. disk'["task"] # memory["task"] => op[p] # "save"
        <4>1. op[p] = "save" /\ disk["task"] # memory["task"] => todo[p] = InOrder
          BY <2>1, <2>4, <2>10 DEF FilesFollowMemory, UnderManager
        <4> QED BY <2>2, <2>6, <2>10, <4>1, PartsTaken DEF f
      <3>3. disk'["task"] # memory["task"] =>
               \E q \in Procs : op'[q] = "save" /\ todo'[q] = InOrder
        BY <1>1, <2>1, <2>10, <3>1, <3>2 DEF FilesFollowMemory
      <3>4. disk'["progress"] # memory["progress"] =>
               \E q \in Procs : op'[q] = "save"
                                /\ todo'[q] \in {InOrder, AfterTask, AfterFindings}
        <4> SUFFICES ASSUME disk'["progress"] # memory["progress"]
                     PROVE  \E q \in Procs : op[q] = "save"
                                /\ todo'[q] \in {InOrder, AfterTask, AfterFindings}
          BY <1>1
        <4>1. PICK q \in Procs : op[q] = "save"
                                 /\ todo[q] \in {InOrder, AfterTask, AfterFindings}
          BY <2>1, <2>10, <3>1 DEF FilesFollowMemory
        <4>2. CASE q = p
          <5>1. f # "progress"
            BY <2>2, <2>6, <2>10
          <5>2. todo[p] # AfterFindings
            BY <5>1, PartsTaken DEF f
          <5> QED BY <1>1, <4>1, <4>2, <5>2, PartsTaken
        <4>3. CASE q # p
          BY <1>1, <4>1, <4>3
        <4> QED BY <4>2, <4>3
      <3>5. FilesFollowMemory'
        BY <1>1, <2>1, <2>3, <2>9, <2>10, <3>1, <3>3, <3>4 DEF FilesFollowMemory
      <3>6. FilesAreWhole'
        BY <1>1, <2>10 DEF FilesAreWhole
      <3>7. PartsRead'
        <4>1. disk'["progress"] \in Nat
          BY <2>3, <2>10, <3>1
        <4>2. \A q \in Procs : got[q]["task"] \in Nat
          BY VersionsCount DEF IInv
        <4> SUFFICES ASSUME NEW q \in Procs, op[q] = "read",
                            todo'[q] \in {AfterTask, AfterFindings}
                     PROVE  got[q]["task"] <= disk'["progress"] + 1
          BY <1>1, <2>1, <2>10 DEF PartsRead, Writing
        <4>3. todo[q] = todo'[q]
          BY <1>1, <2>1
        <4>4. got[q]["task"] <= disk["progress"] + 1
          BY <2>1, <4>3 DEF PartsRead
        <4> QED BY <2>3, <2>9, <4>1, <4>2, <4>4
      <3> QED BY <1>2, <3>5, <3>6, <3>7 DEF VersionInv
    <2>11. CASE memory = Uncached
      <3>1. op[p] = "plan" /\ disk'["task"] = got[p]["task"] /\ disk'["progress"] = disk["progress"]
        BY <2>1, <2>2, <2>5, <2>6, <2>7, <2>11
      <3>2. PICK d \in Procs : op[d] = "delete"
        BY <2>1, <2>11, <3>1 DEF FilesAreWhole
      <3>3. \A q \in Procs : op[q] # "load"
        BY <3>2, OneOperation DEF UnderManager
      <3>4. disk'["task"] <= disk'["progress"] + 1
        BY <2>3, <2>7, <3>1
      <3>5. FilesFollowMemory' /\ FilesAreWhole'
        BY <1>1, <2>11, <3>2, <3>4 DEF FilesFollowMemory, FilesAreWhole
      <3>6. PartsRead'
        BY <1>1, <2>1, <3>1, <3>3 DEF PartsRead
      <3> QED BY <1>2, <3>5, <3>6 DEF VersionInv
    <2> QED BY <2>10, <2>11
  <1> QED BY <1>2, <1>3 DEF VersionInv

LEMMA InitVersions == Init => VersionInv
  <1> SUFFICES ASSUME Init PROVE VersionInv
    OBVIOUS
  <1>1. disk["task"] = 1 /\ disk["progress"] = 1 /\ memory \in {Uncached, disk}
    BY DEF Init, Parts
  <1>2. \A p \in Procs :
           /\ op[p] \in {"plan", "idle"}
           /\ op[p] = "plan" =>
                 todo[p] = <<"task">> /\ memory # Uncached /\ got[p] = memory
    BY DEF Init, Planning
  <1>3. TodoKnown
    BY <1>2 DEF TodoKnown
  <1>4. FilesFollowMemory
    BY <1>1 DEF FilesFollowMemory
  <1>5. FilesAreWhole
    BY <1>1, <1>2 DEF FilesAreWhole
  <1>6. PartsRead
    <2> SUFFICES ASSUME NEW p \in Procs
                 PROVE  /\ op[p] = "plan" => got[p]["task"] <= 1
                        /\ op[p] # "load" /\ op[p] # "read"
      BY DEF PartsRead
    <2>1. op[p] = "plan" => got[p] = disk
      BY <1>1, <1>2
    <2> QED BY <1>1, <1>2, <2>1
  <1> QED BY <1>3, <1>4, <1>5, <1>6 DEF VersionInv

THEOREM VersionsInvariance == Spec => []VersionInv
<1>1. IInv /\ VersionInv /\ [Next]_vars => VersionInv'
  <2> SUFFICES ASSUME IInv, VersionInv, [Next]_vars
               PROVE  VersionInv'
    OBVIOUS
  <2>1. CASE UNCHANGED vars
    BY <2>1 DEF vars, calls, store, VersionInv, TodoKnown, FilesFollowMemory, FilesAreWhole,
                PartsRead
  <2>2. ASSUME NEW p \in Procs,
               ListTasks(p) \/ GetTaskContext(p) \/ Operate(p) \/ DeleteTask(p)
        PROVE  VersionInv'
    BY <2>2, QuietSteps, DeleteTaskKeeps
  <2>3. ASSUME NEW p \in Procs, Continue(p) PROVE VersionInv'
    <3>1. CASE \E e \in Edits : Edit(p, e)
      BY <3>1, EditKeeps
    <3> QED BY <2>3, <3>1, QuietSteps, ReadPartKeeps, SkipPartKeeps, EndWriteKeeps,
               EndOperationKeeps DEF Continue
  <2> QED BY <2>1, <2>2, <2>3 DEF Next
<1> QED BY <1>1, InitVersions, Invariance, PTL DEF Spec

(* getOrLoadContext (manager.go:560-576), which runs under Manager.mu: the  *)
(* parts it has loaded belong together, whatever listings, readers and      *)
(* plans that are being stored do in between.                               *)
THEOREM LoadsAreWhole == Spec => []ManagerLoadsWhole
<1>1. IInv /\ VersionInv => ManagerLoadsWhole
  <2> SUFFICES ASSUME IInv, VersionInv, NEW p \in Procs, Loaded(p, "load"),
                      memory = Uncached, ~deleted
               PROVE  got[p]["task"] = got[p]["progress"]
    BY DEF ManagerLoadsWhole
  <2>1. \A q \in Procs : op[q] # "delete"
    BY OneOperation DEF Loaded, UnderManager
  <2> QED BY <2>1, PartsDiffer DEF VersionInv, FilesAreWhole, PartsRead, Loaded
<1> QED BY <1>1, Invariance, VersionsInvariance, PTL

(* GetTaskContext, which loads without Manager.mu while any number of       *)
(* operations save: it meets the task at most one error ahead of the        *)
(* progress log.                                                            *)
THEOREM ReadersAheadByOne == Spec => []ReaderAheadByOne
<1>1. VersionInv => ReaderAheadByOne
  BY DEF ReaderAheadByOne, VersionInv, PartsRead, Loaded
<1> QED BY <1>1, VersionsInvariance, PTL
=============================================================================
