---------------------------- MODULE HybridStorage ----------------------------
(***************************************************************************)
(* pkg/task/storage_db.go in hybrid mode, under the Manager's operations on *)
(* one task.  A part of a context is written to the database first; then a *)
(* goroutine of its own writes it to the file mirror.  The goroutine holds *)
(* the pointer the manager changes, and nothing orders the goroutines.     *)
(*                                                                         *)
(* The manager holds its lock over an operation, and a goroutine that runs *)
(* in the middle of one writes what it would write at its end, so that an  *)
(* operation is one step here.  A part is its version, 0 when it is absent. *)
(* What a call that fails has done by then is not known: rows can be written *)
(* or gone, a file torn, a directory removed in part.                       *)
(* Left to TaskManager: a creation that fails, and operations on a deleted  *)
(* task, which find no rows and panic before they save anything.           *)
(***************************************************************************)
EXTENDS Naturals, Sequences, FiniteSets, Bags

CONSTANTS
    MaxVersion, \* bound on the changes to a part
    MaxPending, \* bound on the goroutines that have not run
    MaxFaults   \* bound on failed calls, of database and files, and process deaths

ASSUME HybridAssumption ==
    /\ MaxVersion \in Nat \ {0}
    /\ MaxPending \in Nat
    /\ MaxFaults \in Nat

VARIABLES
    objects,    \* every TaskContext the process has built: versions of its parts
    cached,     \* the one in Manager.activeTasks, or 0
    db,         \* the rows of the database
    mirror,     \* the files
    pending,    \* the bag of goroutines that have not run
    life,       \* "unborn", "created", "deleted"
    behind,     \* parts whose file need not follow the row
    faults

hybridVars == <<objects, cached, db, mirror, pending, life, behind, faults>>

Parts == {"task", "findings", "progress"}
Versions == [Parts -> 0..MaxVersion]
Absent == [p \in Parts |-> 0]
Torn == MaxVersion + 1          \* a file whose writing was cut off

Save(p, o) == [do |-> "save", part |-> p, object |-> o]
Delete == [do |-> "delete"]
Waiting == BagToSet(pending)
Saving == {p \in Parts : \E g \in Waiting : g.do = "save" /\ g.part = p}

HybridTypeOK ==
    /\ objects \in Seq(Versions)
    /\ cached \in 0..Len(objects)
    /\ db \in Versions
    /\ mirror \in [Parts -> 0..Torn]
    /\ IsABag(pending)
    /\ Waiting \subseteq {Save(p, o) : p \in Parts, o \in 1..Len(objects)} \cup {Delete}
    /\ life \in {"unborn", "created", "deleted"}
    /\ behind \subseteq Parts
    /\ faults \in 0..MaxFaults

HybridInit ==
    /\ objects = <<>>
    /\ cached = 0
    /\ db = Absent
    /\ mirror = Absent
    /\ pending = EmptyBag
    /\ life = "unborn"
    /\ behind = {}
    /\ faults = 0
-----------------------------------------------------------------------------
Fault == faults < MaxFaults /\ faults' = faults + 1

(* SaveTask, SaveFindings, SaveProgress: each an upsert, then a goroutine.  *)
(* A failed upsert ends the save; the parts before it are stored, and it may  *)
(* be, without a goroutine.                                                 *)
Prefixes(S) == {{}, S \cap {"task"}, S \cap {"task", "findings"}, S}

Spawn(W, o) == pending' = pending (+) SetToBag({Save(p, o) : p \in W})

FaultyStored(W, versions) == db' = [p \in W |-> versions[p]]  \* drops the other rows
Stored(W, versions) == db' = [p \in Parts |-> IF p \in W THEN versions[p] ELSE db[p]]

\* An operation has changed the parts E of the object o and stores the parts S.
StoreParts(versions, o, E, S) ==
    \/ /\ Stored(S, versions)
       /\ Spawn(S, o)
       /\ behind' = behind \ S
       /\ UNCHANGED faults
    \/ \E W \in Prefixes(S) \ {S}, V \in Prefixes(S) :
       /\ Fault
       /\ W \subseteq V /\ Cardinality(V \ W) <= 1
       /\ Stored(V, versions)
       /\ Spawn(W, o)
       /\ behind' = (behind \ W) \cup (E \ W)

CreateTask ==
    LET versions == [p \in Parts |-> 1]
    IN  /\ life = "unborn"
        /\ BagCardinality(pending) + Cardinality(Parts) <= MaxPending
        /\ objects' = Append(objects, versions)
        /\ cached' = 1
        /\ life' = "created"
        /\ Stored(Parts, versions)
        /\ Spawn(Parts, 1)
        /\ UNCHANGED <<mirror, behind, faults>>

(* The mutators of the manager: the parts they change and those they save.  *)
Mutators ==
    {<<{"task", "progress"}, Parts>>,       \* UpdatePhaseStatus, CompleteStep, RecordError
     <<{"task"}, Parts>>,                   \* AddDecision
     <<{"findings"}, Parts>>,               \* AddFinding
     <<{"task"}, {"task"}>>,                \* IncrementToolCallCount, Mark, Clear
     <<{"findings"}, {"findings"}>>,        \* AddResource
     <<{"progress"}, {"progress"}>>}        \* AddTestResult

Mutate(E, S) ==
    LET o == IF cached = 0 THEN Len(objects) + 1 ELSE cached
        before == IF cached = 0 THEN db ELSE objects[cached]
        after == [p \in Parts |-> IF p \in E THEN before[p] + 1 ELSE before[p]]
    IN  /\ life = "created"
        /\ \A p \in E : before[p] < MaxVersion
        /\ BagCardinality(pending) + Cardinality(S) <= MaxPending
        /\ cached' = o
        /\ objects' = IF cached = 0 THEN Append(objects, after)
                      ELSE [objects EXCEPT ![o] = after]
        /\ StoreParts(after, o, E, S)
        /\ UNCHANGED <<mirror, life>>

(* DeleteTask: the manager forgets the task, the rows go in one transaction, *)
(* the files in a goroutine.  It can be called again.  A call that fails has  *)
(* removed all rows or none, and starts no goroutine.                       *)
DeleteTask ==
    /\ life # "unborn"
    /\ BagCardinality(pending) < MaxPending
    /\ cached' = 0
    /\ \/ /\ db' = Absent
          /\ life' = "deleted"
          /\ pending' = pending (+) SetToBag({Delete})
          /\ behind' = Saving
          /\ UNCHANGED faults
       \/ /\ Fault
          /\ db' = Absent
          /\ life' = "deleted"
          /\ behind' = Parts
          /\ UNCHANGED pending
       \/ /\ Fault
          /\ UNCHANGED <<db, life, pending, behind>>
    /\ UNCHANGED <<objects, mirror>>

(* A goroutine gets its turn.  It writes what its object is by now, or logs   *)
(* that it could not.                                                       *)
FaultyMirrorSave(p, o) ==  \* writes what the database had when it was started
    /\ Save(p, o) \in Waiting
    /\ \E v \in 1..objects[o][p] : mirror' = [mirror EXCEPT ![p] = v]
    /\ pending' = pending (-) SetToBag({Save(p, o)})
    /\ behind' = IF o = cached THEN behind ELSE behind \cup {p}
    /\ UNCHANGED <<objects, cached, db, life, faults>>

MirrorSave(p, o) ==
    /\ Save(p, o) \in Waiting
    /\ pending' = pending (-) SetToBag({Save(p, o)})
    /\ \/ /\ mirror' = [mirror EXCEPT ![p] = objects[o][p]]
          /\ behind' = IF o = cached THEN behind ELSE behind \cup {p}
          /\ UNCHANGED faults
       \/ /\ Fault
          /\ mirror' \in {mirror, [mirror EXCEPT ![p] = Torn]}
          /\ behind' = behind \cup {p}
    /\ UNCHANGED <<objects, cached, db, life>>

Without(files, P) == [p \in Parts |-> IF p \in P THEN 0 ELSE files[p]]

MirrorDelete ==
    /\ Delete \in Waiting
    /\ pending' = pending (-) SetToBag({Delete})
    /\ \/ mirror' = Absent /\ UNCHANGED <<behind, faults>>
       \/ /\ Fault
          /\ \E P \in SUBSET Parts : mirror' = Without(mirror, P)
          /\ behind' = Parts
    /\ UNCHANGED <<objects, cached, db, life>>

(* The process dies and its goroutines with it, one of them perhaps writing  *)
(* a file or removing them.                                                 *)
Restart ==
    /\ Fault
    /\ behind' = IF Delete \in Waiting THEN Parts ELSE behind \cup Saving
    /\ mirror' \in {mirror} \cup {[mirror EXCEPT ![p] = Torn] : p \in Saving}
                  \cup (IF Delete \in Waiting THEN {Without(mirror, P) : P \in SUBSET Parts} ELSE {})
    /\ cached' = 0
    /\ pending' = EmptyBag
    /\ UNCHANGED <<objects, db, life>>

HybridNext ==
    \/ CreateTask
    \/ \E m \in Mutators : Mutate(m[1], m[2])
    \/ DeleteTask
    \/ \E p \in Parts : \E o \in 1..Len(objects) : MirrorSave(p, o)
    \/ MirrorDelete
    \/ Restart

HybridSpec == HybridInit /\ [][HybridNext]_hybridVars
-----------------------------------------------------------------------------
(* When no mirror write is outstanding, the files say what the database     *)
(* says, in whatever order the goroutines ran: all of them write the object *)
(* the manager has cached, and the files of a deleted task are gone.        *)
(* Excepted, until it is saved again or the task deleted again, is a part    *)
(*   - whose database write failed, or whose file write did, which is logged *)
(*     and never tried again,                                               *)
(*   - whose goroutine died with the process,                               *)
(*   - last written from an object the manager had dropped in a deletion    *)
(*     that failed,                                                         *)
(*   - with a write outstanding when the task was deleted, whose file can    *)
(*     come back and stays,                                                 *)
(* and every part of a task whose rows are gone but whose deletion answered  *)
(* an error, or whose files could not be removed.                           *)
MirrorConverges ==
    pending = EmptyBag => \A p \in Parts \ behind : mirror[p] = db[p]
=============================================================================
