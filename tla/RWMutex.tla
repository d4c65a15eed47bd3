------------------------------- MODULE RWMutex -------------------------------
(***************************************************************************)
(* Go's sync.RWMutex, as the storages use it: a writer announces itself and *)
(* waits for the readers that are in; from its announcement on, new readers *)
(* wait for it, also one that holds the read lock already.                  *)
(***************************************************************************)
EXTENDS Naturals

CONSTANTS Procs, NoProc

ASSUME MutexAssumption == NoProc \notin Procs

VARIABLES
    active,     \* read locks each process holds
    waiting,    \* processes whose RLock waits for the writer
    writer,     \* the process that announced itself or holds the lock
    locked      \* the writer is in

mutex == <<active, waiting, writer, locked>>

MutexTypeOK ==
    /\ active \in [Procs -> Nat]
    /\ waiting \subseteq Procs
    /\ writer \in Procs \cup {NoProc}
    /\ locked \in BOOLEAN

MutexInit ==
    /\ active = [p \in Procs |-> 0]
    /\ waiting = {}
    /\ writer = NoProc
    /\ locked = FALSE

\* RLock returns when p is not in waiting.
FaultyRLock(p) ==  \* lets readers in beside the writer
    /\ active' = [active EXCEPT ![p] = @ + 1]
    /\ UNCHANGED <<waiting, writer, locked>>

RLock(p) ==
    /\ \/ /\ writer = NoProc
          /\ active' = [active EXCEPT ![p] = @ + 1]
          /\ UNCHANGED waiting
       \/ /\ writer # NoProc
          /\ waiting' = waiting \cup {p}
          /\ UNCHANGED active
    /\ UNCHANGED <<writer, locked>>

RUnlock(p) ==
    /\ active' = [active EXCEPT ![p] = @ - 1]
    /\ UNCHANGED <<waiting, writer, locked>>

\* The first half of Lock: the process has the writers' mutex and is announced.
Announce(p) ==
    /\ writer = NoProc
    /\ writer' = p
    /\ UNCHANGED <<active, waiting, locked>>

\* Lock returns when the readers that were in are out.
Acquire(p) ==
    /\ writer = p
    /\ ~locked
    /\ \A q \in Procs : active[q] = 0
    /\ locked' = TRUE
    /\ UNCHANGED <<active, waiting, writer>>

\* Unlock lets all the readers in that waited.
Unlock(p) ==
    /\ writer' = NoProc
    /\ locked' = FALSE
    /\ active' = [q \in Procs |-> IF q \in waiting THEN active[q] + 1 ELSE active[q]]
    /\ waiting' = {}
=============================================================================
