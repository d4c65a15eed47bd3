-------------------------- MODULE RepositoryProofs --------------------------
(***************************************************************************)
(* Proofs about Repository, for any callers, tasks, values and pages: there *)
(* is never a second row, a page is one of the rows its total counted, the   *)
(* statistics add up, and the statements of the storage implement TaskTables. *)
(* All rest on who holds the lock: what a save has read is still so when it  *)
(* writes, and no writer comes between the counts of a reader.              *)
(***************************************************************************)
EXTENDS Repository, FiniteSetTheorems, TLAPS

Places == {"idle", "lock", "get", "update", "insert", "delete", "commit", "count", "find",
           "total", "status", "answered"}

Values == Statuses \cup Versions

Locals == [op: {"none", "get", "delete", "count", "total"}, task: Tasks \cup {NoRow},
           table: TableSet \cup {NoRow}, value: Values \cup {NoRow}, page: Pages \cup {NoRow},
           done: Nat, total: Nat, found: Nat, counts: Seq(Nat)]

TypeOK ==
    /\ rows \in [TableSet -> [Tasks -> Seq(Values)]]
    /\ at \in [Procs -> Places]
    /\ call \in [Procs -> Locals]
    /\ faults \in 0..MaxFaults

Saving == {"get", "update", "insert"}
Deleting == {"delete", "commit"}

(* What a step x says of the operation and the arguments in the locals l. *)
Known(x, l) ==
    /\ x \in Saving => l.op = "get"
    /\ x \in Deleting => l.op = "delete"
    /\ x \in {"count", "find"} => l.op = "count"
    /\ x \in {"total", "status"} => l.op = "total"
    /\ x = "lock" => l.op # "none"
    /\ l.op = "get" => l.task \in Tasks /\ l.table \in TableSet /\ l.value \in Values
    /\ l.op = "delete" => l.task \in Tasks
    /\ l.op = "count" => l.page \in Pages

CallsKnown == \A c \in Procs : Known(at[c], call[c])

(* Only the process that holds the lock is in the middle of a write. *)
WritersInside == \A c \in Procs : at[c] \in Saving \cup Deleting => writer = c

(* What the save has read is still so. *)
InsertsFirst == \A c \in Procs : at[c] = "insert" => Existing(c) = <<>>

UpdatesOne == \A c \in Procs : at[c] = "update" => Existing(c) # <<>>

IInv ==
    /\ TypeOK
    /\ CallsKnown
    /\ WritersInside
    /\ InsertsFirst
    /\ UpdatesOne
    /\ OneRow
-----------------------------------------------------------------------------
(* A caller takes a step and the rows stay; the others keep what they know. *)
LEMMA Moved ==
    ASSUME IInv, NEW c \in Procs, NEW x \in Places, NEW l \in Locals, Known(x, l),
           at' = [at EXCEPT ![c] = x], call' = [call EXCEPT ![c] = l],
           rows' = rows, faults' \in 0..MaxFaults,
           x \in Saving \cup Deleting => writer' = c,
           \A d \in Procs \ {c} : at[d] \in Saving \cup Deleting => writer' = d,
           x = "insert" => rows[l.table][l.task] = <<>>,
           x = "update" => rows[l.table][l.task] # <<>>
    PROVE  IInv'
  <1> USE DEF IInv
  <1>1. TypeOK'
    BY DEF TypeOK
  <1>2. \A d \in Procs : /\ at'[d] = IF d = c THEN x ELSE at[d]
                         /\ call'[d] = IF d = c THEN l ELSE call[d]
    BY DEF TypeOK
  <1>3. CallsKnown'
    <2> SUFFICES ASSUME NEW d \in Procs
                 PROVE  Known(at'[d], call'[d])
      BY DEF CallsKnown, Known
    <2> QED BY <1>2 DEF CallsKnown
  <1>4. WritersInside'
    BY <1>2 DEF WritersInside
  <1>5. InsertsFirst' /\ UpdatesOne'
    BY <1>2 DEF InsertsFirst, UpdatesOne, Existing
  <1>6. OneRow'
    BY DEF OneRow
  <1> QED BY <1>1, <1>3, <1>4, <1>5, <1>6

(* A caller ends a write, with the lock: nobody else is in the middle of one. *)
LEMMA Written ==
    ASSUME IInv, NEW c \in Procs, at[c] \in Saving \cup Deleting,
           rows' \in [TableSet -> [Tasks -> Seq(Values)]], OneRow',
           Leave(c), faults' \in 0..MaxFaults
    PROVE  IInv'
  <1> USE DEF IInv
  <1>1. Idle \in Locals
    BY DEF Idle, Locals
  <1>2. \A d \in Procs : /\ at'[d] = IF d = c THEN "idle" ELSE at[d]
                         /\ call'[d] = IF d = c THEN Idle ELSE call[d]
    BY DEF TypeOK, Leave
  <1>3. TypeOK'
    BY <1>1 DEF TypeOK, Leave, Places
  <1>4. \A d \in Procs : at'[d] \notin Saving \cup Deleting
    BY <1>2 DEF WritersInside, Saving, Deleting
  <1>5. CallsKnown'
    <2>1. Known("idle", Idle)
      BY DEF Known, Idle, Saving, Deleting
    <2> SUFFICES ASSUME NEW d \in Procs
                 PROVE  Known(at'[d], call'[d])
      BY DEF CallsKnown, Known
    <2> QED BY <1>2, <2>1 DEF CallsKnown
  <1>6. WritersInside' /\ InsertsFirst' /\ UpdatesOne'
    BY <1>4 DEF WritersInside, InsertsFirst, UpdatesOne, Saving
  <1> QED BY <1>3, <1>5, <1>6
-----------------------------------------------------------------------------
LEMMA IdleKnown == Idle \in Locals /\ Known("idle", Idle) /\ "idle" \in Places
                     /\ "idle" \notin Saving \cup Deleting
  BY DEF Idle, Locals, Known, Saving, Deleting, Places

(* What each call begins with. *)
LEMMA DeletesKnown ==
    ASSUME NEW t \in Tasks, NEW l, l = [Idle EXCEPT !.op = "delete", !.task = t]
    PROVE  l \in Locals /\ Known("lock", l)
  <1>1. l \in Locals
    BY IdleKnown DEF Locals
  <1>2. l.op = "delete" /\ l.task = t
    BY DEF Idle
  <1> QED BY <1>1, <1>2 DEF Known, Saving, Deleting

LEMMA SavesKnown ==
    ASSUME NEW t \in Tasks, NEW b \in TableSet, NEW v \in Values,
           NEW l, l = [Idle EXCEPT !.op = "get", !.task = t, !.table = b, !.value = v]
    PROVE  l \in Locals /\ Known("lock", l)
  <1>1. l \in Locals
    BY IdleKnown DEF Locals
  <1>2. l.op = "get" /\ l.task = t /\ l.table = b /\ l.value = v
    BY DEF Idle
  <1> QED BY <1>1, <1>2 DEF Known, Saving, Deleting

LEMMA QueriesKnown ==
    ASSUME NEW p \in Pages, NEW l, l = [Idle EXCEPT !.op = "count", !.page = p]
    PROVE  l \in Locals /\ Known("lock", l)
  <1>1. l \in Locals
    BY IdleKnown DEF Locals
  <1>2. l.op = "count" /\ l.page = p
    BY DEF Idle
  <1> QED BY <1>1, <1>2 DEF Known, Saving, Deleting

LEMMA StatsKnown ==
    ASSUME NEW l, l = [Idle EXCEPT !.op = "total"]
    PROVE  l \in Locals /\ Known("lock", l)
  <1>1. l \in Locals
    BY IdleKnown DEF Locals
  <1>2. l.op = "total"
    BY DEF Idle
  <1> QED BY <1>1, <1>2 DEF Known, Saving, Deleting

LEMMA CallStep ==
    ASSUME IInv, NEW c \in Procs, Call(c)
    PROVE  IInv'
  <1> USE DEF IInv
  <1>1. PICK l \in Locals :
           /\ Known("lock", l) /\ Begin(c, l) /\ (Announce(c) \/ RLock(c))
    <2>1. ASSUME NEW t \in Tasks, DeleteTask(c, t)
          PROVE  \E l \in Locals :
                    Known("lock", l) /\ Begin(c, l) /\ (Announce(c) \/ RLock(c))
      <3> DEFINE l == [Idle EXCEPT !.op = "delete", !.task = t]
      <3>1. Begin(c, l) /\ Announce(c)
        BY <2>1 DEF DeleteTask
      <3>2. l \in Locals /\ Known("lock", l)
        BY DeletesKnown
      <3> HIDE DEF l
      <3> QED BY <3>1, <3>2
    <2>2. ASSUME NEW t \in Tasks, NEW b \in TableSet, NEW v \in ValuesOf(b), Save(c, t, b, v)
          PROVE  \E l \in Locals :
                    Known("lock", l) /\ Begin(c, l) /\ (Announce(c) \/ RLock(c))
      <3> DEFINE l == [Idle EXCEPT !.op = "get", !.task = t, !.table = b, !.value = v]
      <3>0. v \in Values
        BY DEF ValuesOf, Values
      <3>1. Begin(c, l) /\ Announce(c)
        BY <2>2 DEF Save
      <3>2. l \in Locals /\ Known("lock", l)
        BY <3>0, SavesKnown
      <3> HIDE DEF l
      <3> QED BY <3>1, <3>2
    <2>3. ASSUME NEW p \in Pages, Query(c, p)
          PROVE  \E l \in Locals :
                    Known("lock", l) /\ Begin(c, l) /\ (Announce(c) \/ RLock(c))
      <3> DEFINE l == [Idle EXCEPT !.op = "count", !.page = p]
      <3>1. Begin(c, l) /\ RLock(c)
        BY <2>3 DEF Query
      <3>2. l \in Locals /\ Known("lock", l)
        BY QueriesKnown
      <3> HIDE DEF l
      <3> QED BY <3>1, <3>2
    <2>4. ASSUME GetStats(c)
          PROVE  \E l \in Locals :
                    Known("lock", l) /\ Begin(c, l) /\ (Announce(c) \/ RLock(c))
      <3> DEFINE l == [Idle EXCEPT !.op = "total"]
      <3>1. Begin(c, l) /\ RLock(c)
        BY <2>4 DEF GetStats
      <3>2. l \in Locals /\ Known("lock", l)
        BY StatsKnown
      <3> HIDE DEF l
      <3> QED BY <3>1, <3>2
    <2> QED BY <2>1, <2>2, <2>3, <2>4 DEF Call
  <1>2. /\ at' = [at EXCEPT ![c] = "lock"] /\ call' = [call EXCEPT ![c] = l]
        /\ rows' = rows /\ faults' \in 0..MaxFaults
    BY <1>1 DEF Begin, TypeOK
  <1>3. \A d \in Procs \ {c} : at[d] \in Saving \cup Deleting => writer' = d
    BY <1>1, MutexAssumption DEF WritersInside, Announce, RLock
  <1>4. "lock" \in Places /\ "lock" \notin Saving \cup Deleting
    BY DEF Places, Saving, Deleting
  <1> QED BY <1>1, <1>2, <1>3, <1>4, Moved

LEMMA EnterStep ==
    ASSUME IInv, NEW c \in Procs, Enter(c)
    PROVE  IInv'
  <1> USE DEF IInv
  <1> DEFINE x == call[c].op
  <1>1. /\ at[c] = "lock" /\ at' = [at EXCEPT ![c] = x]
        /\ rows' = rows /\ call' = call /\ faults' = faults
    BY DEF Enter, Go
  <1>2. call[c] \in Locals /\ Known("lock", call[c])
    BY <1>1 DEF TypeOK, CallsKnown
  <1>3. x \in Places /\ Known(x, call[c]) /\ x \notin {"insert", "update"}
    BY <1>2 DEF Known, Locals, Places, Saving, Deleting
  <1>4. call' = [call EXCEPT ![c] = call[c]]
    BY <1>1 DEF TypeOK
  <1>5. writer' = writer /\ (x \in Saving \cup Deleting => writer' = c)
    BY <1>2 DEF Enter, Writing, Acquire, LockKept, mutex, Saving, Deleting, Known, Locals
  <1>6. \A d \in Procs \ {c} : at[d] \in Saving \cup Deleting => writer' = d
    BY <1>5 DEF WritersInside
  <1>7. faults' \in 0..MaxFaults
    BY <1>1 DEF TypeOK
  <1> QED BY <1>1, <1>2, <1>3, <1>4, <1>5, <1>6, <1>7, Moved

LEMMA GetStep ==
    ASSUME IInv, NEW c \in Procs, Get(c)
    PROVE  IInv'
  <1> USE DEF IInv
  <1> DEFINE x == IF Existing(c) = <<>> THEN "insert" ELSE "update"
  <1>1. /\ at[c] = "get" /\ at' = [at EXCEPT ![c] = x] /\ rows' = rows /\ call' = call
        /\ faults' = faults /\ writer' = writer
    BY DEF Get, Go, LockKept, mutex
  <1>2. call[c] \in Locals /\ Known(x, call[c]) /\ x \in Places
    BY <1>1 DEF TypeOK, CallsKnown, Known, Saving, Deleting, Places
  <1>3. call' = [call EXCEPT ![c] = call[c]] /\ faults' \in 0..MaxFaults
    BY <1>1 DEF TypeOK
  <1>4. /\ writer' = c
        /\ \A d \in Procs \ {c} : at[d] \in Saving \cup Deleting => writer' = d
    BY <1>1 DEF WritersInside, Saving
  <1>5. /\ x = "insert" => rows[call[c].table][call[c].task] = <<>>
        /\ x = "update" => rows[call[c].table][call[c].task] # <<>>
    BY DEF Existing
  <1> HIDE DEF x
  <1> QED BY <1>1, <1>2, <1>3, <1>4, <1>5, Moved

LEMMA Single ==
    ASSUME NEW S, NEW s \in Seq(S), s # <<>>, Len(s) <= 1
    PROVE  Len(s) = 1 /\ DOMAIN s = 1..1
  <1>1. Len(s) \in Nat /\ DOMAIN s = 1..Len(s)
    OBVIOUS
  <1>2. Len(s) # 0
    OBVIOUS
  <1> QED BY <1>1, <1>2

(* A save ends with the one row it wrote. *)
LEMMA SaveWrites ==
    ASSUME IInv, NEW c \in Procs, Update(c) \/ Insert(c)
    PROVE  /\ call[c].table \in TableSet /\ call[c].task \in Tasks
           /\ call[c].value \in Values /\ at[c] \in Saving
           /\ rows' = [rows EXCEPT ![call[c].table][call[c].task] = <<call[c].value>>]
           /\ Leave(c) /\ faults' = faults
  <1> USE DEF IInv
  <1>1. /\ at[c] \in Saving /\ call[c].op = "get"
        /\ call[c].table \in TableSet /\ call[c].task \in Tasks /\ call[c].value \in Values
    BY DEF Update, Insert, CallsKnown, Known, Saving
  <1>2. CASE Insert(c)
    <2>1. Existing(c) = <<>>
      BY <1>2 DEF InsertsFirst, Insert
    <2>2. Append(Existing(c), call[c].value) = <<call[c].value>>
      BY <2>1
    <2> QED BY <1>1, <1>2, <2>1, <2>2 DEF Insert, Write
  <1>3. CASE Update(c)
    <2>1. Existing(c) # <<>> /\ Existing(c) \in Seq(Values) /\ Len(Existing(c)) <= 1
      BY <1>1, <1>3 DEF UpdatesOne, Update, Existing, TypeOK, OneRow
    <2>2. Len(Existing(c)) = 1 /\ DOMAIN Existing(c) = 1..1
      BY <2>1, Single
    <2>3. [i \in DOMAIN Existing(c) |-> call[c].value] = <<call[c].value>>
      BY <2>2
    <2> QED BY <1>1, <1>3, <2>3 DEF Update, Write
  <1> QED BY <1>2, <1>3

LEMMA SaveStep ==
    ASSUME IInv, NEW c \in Procs, Update(c) \/ Insert(c)
    PROVE  IInv'
  <1> USE DEF IInv
  <1> DEFINE b == call[c].table
             t == call[c].task
             v == call[c].value
  <1>1. /\ b \in TableSet /\ t \in Tasks /\ v \in Values /\ at[c] \in Saving
        /\ rows' = [rows EXCEPT ![b][t] = <<v>>] /\ Leave(c) /\ faults' = faults
    BY SaveWrites
  <1> HIDE DEF b, t, v
  <1>2. <<v>> \in Seq(Values) /\ Len(<<v>>) = 1
    BY <1>1
  <1>3. rows' \in [TableSet -> [Tasks -> Seq(Values)]]
    BY <1>1, <1>2 DEF TypeOK
  <1>4. OneRow'
    BY <1>1, <1>2 DEF OneRow, TypeOK
  <1> QED BY <1>1, <1>3, <1>4, Written DEF TypeOK

LEMMA WithoutSound ==
    ASSUME IInv, NEW t \in Tasks, rows' = Without(t)
    PROVE  rows' \in [TableSet -> [Tasks -> Seq(Values)]] /\ OneRow'
  BY DEF IInv, TypeOK, Without, OneRow

LEMMA DeleteRowsStep ==
    ASSUME IInv, NEW c \in Procs, DeleteRows(c)
    PROVE  IInv'
  <1> USE DEF IInv
  <1> DEFINE x == IF call[c].done + 1 = Len(Tables) THEN "commit" ELSE "delete"
             l == [call[c] EXCEPT !.done = @ + 1]
  <1>1. /\ at[c] = "delete" /\ at' = [at EXCEPT ![c] = x] /\ rows' = rows
        /\ call' = [call EXCEPT ![c].done = @ + 1] /\ faults' = faults /\ writer' = writer
    BY DEF DeleteRows, Go, LockKept, mutex
  <1>2. /\ l \in Locals /\ l.op = call[c].op /\ l.task = call[c].task
        /\ call[c].op = "delete" /\ call[c].task \in Tasks
    <2>1. call[c] \in Locals
      BY DEF TypeOK
    <2>2. call[c].done + 1 \in Nat
      BY <2>1 DEF Locals
    <2>3. l \in Locals /\ l.op = call[c].op /\ l.task = call[c].task
      BY <2>1, <2>2 DEF Locals
    <2>4. call[c].op = "delete" /\ call[c].task \in Tasks
      BY <1>1 DEF CallsKnown, Known, Deleting
    <2> QED BY <2>3, <2>4
  <1>3. Known(x, l) /\ x \in Places /\ x \in Deleting /\ x \notin {"insert", "update"}
    BY <1>2 DEF Known, Saving, Deleting, Places
  <1>4. call' = [call EXCEPT ![c] = l] /\ faults' \in 0..MaxFaults
    BY <1>1 DEF TypeOK
  <1>5. /\ writer' = c
        /\ \A d \in Procs \ {c} : at[d] \in Saving \cup Deleting => writer' = d
    BY <1>1 DEF WritersInside, Deleting
  <1> HIDE DEF x, l
  <1> QED BY <1>1, <1>2, <1>3, <1>4, <1>5, Moved

LEMMA CommitStep ==
    ASSUME IInv, NEW c \in Procs, Commit(c)
    PROVE  IInv'
  <1> USE DEF IInv
  <1>1. /\ at[c] \in Deleting /\ call[c].task \in Tasks
        /\ rows' = Without(call[c].task) /\ Leave(c) /\ faults' \in 0..MaxFaults
    BY DEF Commit, CallsKnown, Known, Deleting, TypeOK
  <1> QED BY <1>1, WithoutSound, Written

(* Queries and statistics write nothing. *)
LEMMA CountsAreNat ==
    ASSUME RepositoryAssumption
    PROVE  /\ Cardinality(TaskRows) \in Nat
           /\ \A s : Cardinality(With(s)) \in Nat
           /\ \A p \in Pages : Page(Cardinality(TaskRows), p) \in Nat
  <1>1. TaskRows \in SUBSET Tasks /\ \A s : With(s) \in SUBSET Tasks
    BY DEF TaskRows, With
  <1>2. Cardinality(TaskRows) \in Nat
    BY <1>1, FS_Subset, FS_CardinalityType DEF RepositoryAssumption
  <1>3. ASSUME NEW s
        PROVE  Cardinality(With(s)) \in Nat
    BY <1>1, FS_Subset, FS_CardinalityType DEF RepositoryAssumption
  <1>4. ASSUME NEW p \in Pages
        PROVE  Page(Cardinality(TaskRows), p) \in Nat
    <2>1. p.limit \in Nat /\ p.offset \in Nat
      BY DEF RepositoryAssumption
    <2> QED BY <1>2, <2>1 DEF Page
  <1> QED BY <1>2, <1>3, <1>4

LEMMA ReadStep ==
    ASSUME IInv, NEW c \in Procs,
           Count(c) \/ Find(c) \/ CountTotal(c) \/ CountStatus(c)
    PROVE  IInv'
  <1> USE DEF IInv
  <1>1. call[c] \in Locals
    BY DEF TypeOK
  <1>2. /\ rows' = rows /\ faults' = faults /\ writer' = writer
        /\ at[c] \in {"count", "find", "total", "status"}
    BY DEF Count, Find, CountTotal, CountStatus, Go, LockKept, mutex
  <1>3. Known(at[c], call[c]) /\ call[c].op \in {"count", "total"}
    BY <1>2 DEF CallsKnown, Known
  <1>4. PICK x \in {"find", "status", "answered"}, l \in Locals :
           /\ at' = [at EXCEPT ![c] = x] /\ call' = [call EXCEPT ![c] = l]
           /\ l.op = call[c].op /\ l.page = call[c].page
           /\ x = "find" => l.op = "count"
           /\ x = "status" => l.op = "total"
    <2>1. CASE Count(c)
      <3> DEFINE l == [call[c] EXCEPT !.total = Cardinality(TaskRows)]
      <3>1. l \in Locals /\ l.op = call[c].op /\ l.page = call[c].page
        BY <1>1, CountsAreNat, RepositoryAssumption DEF Locals
      <3>2. call' = [call EXCEPT ![c] = l]
        BY <2>1 DEF Count, TypeOK
      <3>3. at' = [at EXCEPT ![c] = "find"] /\ call[c].op = "count"
        BY <1>3, <2>1 DEF Count, Go, Known
      <3> HIDE DEF l
      <3> QED BY <3>1, <3>2, <3>3
    <2>2. CASE Find(c)
      <3> DEFINE l == [call[c] EXCEPT !.found =
                          Page(Cardinality(TaskRows), call[c].page)]
      <3>1. call[c].page \in Pages
        BY <1>3, <2>2 DEF Find, Go, Known
      <3>2. Page(Cardinality(TaskRows), call[c].page) \in Nat
        BY <3>1, CountsAreNat, RepositoryAssumption
      <3>3. l \in Locals /\ l.op = call[c].op /\ l.page = call[c].page
        BY <1>1, <3>2 DEF Locals
      <3>4. call' = [call EXCEPT ![c] = l]
        BY <2>2 DEF Find, TypeOK
      <3>5. at' = [at EXCEPT ![c] = "answered"]
        BY <2>2 DEF Find, Go
      <3> HIDE DEF l
      <3> QED BY <3>3, <3>4, <3>5
    <2>3. CASE CountTotal(c)
      <3> DEFINE l == [call[c] EXCEPT !.total = Cardinality(TaskRows)]
      <3>1. l \in Locals /\ l.op = call[c].op /\ l.page = call[c].page
        BY <1>1, CountsAreNat, RepositoryAssumption DEF Locals
      <3>2. call' = [call EXCEPT ![c] = l]
        BY <2>3 DEF CountTotal, TypeOK
      <3>3. at' = [at EXCEPT ![c] = "status"] /\ call[c].op = "total"
        BY <1>3, <2>3 DEF CountTotal, Go, Known
      <3> HIDE DEF l
      <3> QED BY <3>1, <3>2, <3>3
    <2>4. CASE CountStatus(c)
      <3> DEFINE n == Cardinality(With(Counted[Len(call[c].counts) + 1]))
                 l == [call[c] EXCEPT !.counts = Append(@, n)]
      <3>1. n \in Nat
        BY CountsAreNat, RepositoryAssumption
      <3>2. call' = [call EXCEPT ![c] = l]
        BY <2>4 DEF CountStatus, TypeOK
      <3> HIDE DEF n
      <3>3. l \in Locals /\ l.op = call[c].op /\ l.page = call[c].page
        <4>1. Append(call[c].counts, n) \in Seq(Nat)
          BY <1>1, <3>1 DEF Locals
        <4> QED BY <1>1, <4>1 DEF Locals
      <3>4. PICK x \in {"status", "answered"} : at' = [at EXCEPT ![c] = x]
        BY <2>4 DEF CountStatus, Go
      <3>5. call[c].op = "total"
        BY <1>3, <2>4 DEF CountStatus, Go, Known
      <3> HIDE DEF l
      <3> QED BY <3>2, <3>3, <3>4, <3>5
    <2> QED BY <2>1, <2>2, <2>3, <2>4
  <1>5. x \in Places /\ x \notin Saving \cup Deleting /\ x \notin {"insert", "update"}
    BY DEF Places, Saving, Deleting
  <1>6. Known(x, l)
    BY <1>3, <1>4, <1>5 DEF Known
  <1>7. \A d \in Procs \ {c} : at[d] \in Saving \cup Deleting => writer' = d
    BY <1>2 DEF WritersInside
  <1>8. faults' \in 0..MaxFaults
    BY <1>2 DEF TypeOK
  <1> QED BY <1>2, <1>4, <1>5, <1>6, <1>7, <1>8, Moved

(* A caller gets its answer or an error. *)
LEMMA ReturnStep ==
    ASSUME IInv, NEW c \in Procs, Return(c)
    PROVE  IInv'
  <1> USE DEF IInv
  <1>1. /\ at' = [at EXCEPT ![c] = "idle"] /\ call' = [call EXCEPT ![c] = Idle]
        /\ rows' = rows /\ faults' \in 0..MaxFaults /\ writer' = writer
    BY DEF Return, Leave, RUnlock, TypeOK
  <1>2. \A d \in Procs \ {c} : at[d] \in Saving \cup Deleting => writer' = d
    BY <1>1 DEF WritersInside
  <1> QED BY <1>1, <1>2, IdleKnown, Moved

LEMMA FailStep ==
    ASSUME IInv, NEW c \in Procs, Fail(c)
    PROVE  IInv'
  <1> USE DEF IInv
  <1>1. Leave(c) /\ faults' \in 0..MaxFaults /\ at[c] \notin {"idle", "lock", "answered"}
    BY RepositoryAssumption DEF Fail, Fault, TypeOK
  <1>2. \/ rows' = rows
        \/ at[c] = "commit" /\ rows' = Without(call[c].task)
    BY DEF Fail
  <1>3. CASE at[c] \in Saving \cup Deleting
    <2>1. rows' \in [TableSet -> [Tasks -> Seq(Values)]] /\ OneRow'
      <3>1. CASE rows' = rows
        BY <3>1 DEF TypeOK, OneRow
      <3>2. CASE at[c] = "commit" /\ rows' = Without(call[c].task)
        <4>1. call[c].task \in Tasks
          BY <3>2 DEF CallsKnown, Known, Deleting
        <4> QED BY <3>2, <4>1, WithoutSound
      <3> QED BY <1>2, <3>1, <3>2
    <2> QED BY <1>1, <1>3, <2>1, Written
  <1>4. CASE at[c] \notin Saving \cup Deleting
    <2>1. at[c] \in {"count", "find", "total", "status"}
      BY <1>1, <1>4 DEF TypeOK, Places, Saving, Deleting
    <2>2. call[c].op \in {"count", "total"}
      BY <2>1 DEF CallsKnown, Known
    <2>3. writer' = writer /\ rows' = rows
      BY <1>2, <2>1, <2>2 DEF Fail, Writing, RUnlock
    <2>4. \A d \in Procs \ {c} : at[d] \in Saving \cup Deleting => writer' = d
      BY <2>3 DEF WritersInside
    <2>5. at' = [at EXCEPT ![c] = "idle"] /\ call' = [call EXCEPT ![c] = Idle]
      BY <1>1 DEF Leave
    <2> QED BY <1>1, <2>3, <2>4, <2>5, IdleKnown, Moved
  <1> QED BY <1>3, <1>4

LEMMA DieStep ==
    ASSUME IInv, Die
    PROVE  IInv'
  <1> USE DEF IInv
  <1>1. TypeOK'
    BY IdleKnown, RepositoryAssumption DEF TypeOK, Die, Fault
  <1>2. \A d \in Procs : at'[d] = "idle" /\ call'[d] = Idle
    BY DEF Die
  <1>3. CallsKnown'
    <2> SUFFICES ASSUME NEW d \in Procs
                 PROVE  Known(at'[d], call'[d])
      BY DEF CallsKnown, Known
    <2> QED BY <1>2, IdleKnown
  <1>4. WritersInside' /\ InsertsFirst' /\ UpdatesOne'
    BY <1>2, IdleKnown DEF WritersInside, InsertsFirst, UpdatesOne
  <1>5. OneRow'
    BY DEF OneRow, Die
  <1> QED BY <1>1, <1>3, <1>4, <1>5
-----------------------------------------------------------------------------
(* The whole invariant holds of every reachable state.                      *)
LEMMA InitInvariant == Init => IInv
  <1> SUFFICES ASSUME Init
               PROVE  IInv
    OBVIOUS
  <1>1. <<>> \in Seq(Values) /\ Len(<<>>) = 0
    OBVIOUS
  <1>2. TypeOK
    BY <1>1, IdleKnown, RepositoryAssumption DEF Init, TypeOK
  <1>3. \A d \in Procs : at[d] = "idle" /\ call[d] = Idle
    BY DEF Init
  <1>4. OneRow
    BY <1>1 DEF Init, OneRow
  <1> QED BY <1>2, <1>3, <1>4, IdleKnown
          DEF IInv, CallsKnown, WritersInside, InsertsFirst, UpdatesOne

LEMMA NextInvariant == IInv /\ [Next]_vars => IInv'
  <1> SUFFICES ASSUME IInv, [Next]_vars
               PROVE  IInv'
    OBVIOUS
  <1>1. CASE Next
    BY <1>1, CallStep, EnterStep, GetStep, SaveStep, DeleteRowsStep, CommitStep,
       ReadStep, ReturnStep, FailStep, DieStep DEF Next, Continue
  <1>2. CASE UNCHANGED vars
    BY <1>2 DEF vars, mutex, IInv, TypeOK, CallsKnown, Known, WritersInside,
                InsertsFirst, UpdatesOne, OneRow, Existing
  <1> QED BY <1>1, <1>2

THEOREM Invariance == Spec => []IInv
<1> QED BY InitInvariant, NextInvariant, PTL DEF Spec

(* Upsert (task.go:23-133, 342-402, 451-519) never inserts a second row, for  *)
(* any number of callers: DBStorage.mu keeps what it has read true.         *)
THEOREM NoSecondRow == Spec => []OneRow
<1>1. IInv => OneRow
  BY DEF IInv
<1> QED BY <1>1, Invariance, PTL
-----------------------------------------------------------------------------
(* Every statement is a step of TaskTables or changes nothing it can see.     *)
LEMMA StoredKept ==
    ASSUME rows' = rows
    PROVE  Stored' = Stored
  BY DEF Stored

LEMMA StoredSave ==
    ASSUME rows \in [TableSet -> [Tasks -> Seq(Values)]],
           NEW b \in TableSet, NEW t \in Tasks, NEW v \in Values,
           rows' = [rows EXCEPT ![b][t] = <<v>>]
    PROVE  Promise!Save(t, b, v)
  <1>1. <<v>> # <<>> /\ <<v>>[1] = v
    OBVIOUS
  <1>2. \A u \in Tasks, d \in TableSet :
           rows'[d][u] = IF d = b /\ u = t THEN <<v>> ELSE rows[d][u]
    OBVIOUS
  <1>3. \A u \in Tasks, d \in TableSet :
           Stored'[u][d] = IF d = b /\ u = t THEN v ELSE Stored[u][d]
    BY <1>1, <1>2 DEF Stored
  <1>4. Stored' = [u \in Tasks |-> [d \in TableSet |-> Stored'[u][d]]]
    BY DEF Stored
  <1>5. [Stored EXCEPT ![t][b] = v] =
           [u \in Tasks |-> [d \in TableSet |-> IF d = b /\ u = t THEN v ELSE Stored[u][d]]]
    BY DEF Stored
  <1>6. Stored' = [Stored EXCEPT ![t][b] = v]
    BY <1>3, <1>4, <1>5
  <1> QED BY <1>6 DEF Promise!Save

LEMMA StoredWithout ==
    ASSUME rows \in [TableSet -> [Tasks -> Seq(Values)]],
           NEW t \in Tasks, rows' = Without(t)
    PROVE  Promise!DeleteTask(t)
  <1>1. \A u \in Tasks, d \in TableSet :
           rows'[d][u] = IF u = t THEN <<>> ELSE rows[d][u]
    BY DEF Without
  <1>2. \A u \in Tasks, d \in TableSet :
           Stored'[u][d] = IF u = t THEN NoRow ELSE Stored[u][d]
    BY <1>1 DEF Stored
  <1>3. Stored' = [u \in Tasks |-> [d \in TableSet |-> Stored'[u][d]]]
    BY DEF Stored
  <1>4. [Stored EXCEPT ![t] = [d \in TableSet |-> NoRow]] =
           [u \in Tasks |-> [d \in TableSet |-> IF u = t THEN NoRow ELSE Stored[u][d]]]
    BY DEF Stored
  <1>5. Stored' = [Stored EXCEPT ![t] = [d \in TableSet |-> NoRow]]
    BY <1>2, <1>3, <1>4
  <1> QED BY <1>5 DEF Promise!DeleteTask

LEMMA InitKept == Init => Promise!Init
  BY DEF Init, Promise!Init, Stored

LEMMA NextKept == IInv /\ [Next]_vars => [Promise!Next]_Stored
  <1> SUFFICES ASSUME IInv, [Next]_vars
               PROVE  Promise!Next \/ Stored' = Stored
    OBVIOUS
  <1> USE DEF IInv
  <1>1. rows \in [TableSet -> [Tasks -> Seq(Values)]]
    BY DEF TypeOK
  <1>2. CASE rows' = rows
    BY <1>2, StoredKept
  <1>3. ASSUME NEW c \in Procs, Update(c) \/ Insert(c)
        PROVE  Promise!Next
    <2>1. /\ call[c].table \in TableSet /\ call[c].task \in Tasks
          /\ call[c].value \in Values
          /\ rows' = [rows EXCEPT ![call[c].table][call[c].task] = <<call[c].value>>]
      BY <1>3, SaveWrites
    <2>2. Promise!Save(call[c].task, call[c].table, call[c].value)
      BY <1>1, <2>1, StoredSave
    <2> QED BY <2>1, <2>2 DEF Promise!Next, Values
  <1>4. ASSUME NEW c \in Procs, at[c] = "commit", rows' = Without(call[c].task)
        PROVE  Promise!Next
    <2>1. call[c].task \in Tasks
      BY <1>4 DEF CallsKnown, Known, Deleting
    <2>2. Promise!DeleteTask(call[c].task)
      BY <1>1, <1>4, <2>1, StoredWithout
    <2> QED BY <2>1, <2>2 DEF Promise!Next
  <1>5. CASE Next
    <2>1. CASE Die
      BY <1>2, <2>1 DEF Die
    <2>2. ASSUME NEW c \in Procs, Call(c)
          PROVE  rows' = rows
      BY <2>2 DEF Call, DeleteTask, Save, Query, GetStats, Begin
    <2>3. ASSUME NEW c \in Procs, Continue(c)
          PROVE  \/ rows' = rows
                 \/ Update(c) \/ Insert(c)
                 \/ at[c] = "commit" /\ rows' = Without(call[c].task)
      BY <2>3 DEF Continue, Enter, Get, DeleteRows, Commit, Count, Find, CountTotal,
                  CountStatus, Return
    <2>4. ASSUME NEW c \in Procs, Fail(c)
          PROVE  \/ rows' = rows
                 \/ at[c] = "commit" /\ rows' = Without(call[c].task)
      BY <2>4 DEF Fail
    <2> QED BY <1>2, <1>3, <1>4, <1>5, <2>1, <2>2, <2>3, <2>4 DEF Next
  <1>6. CASE UNCHANGED vars
    BY <1>2, <1>6 DEF vars
  <1> QED BY <1>5, <1>6

(* DBStorage (storage_db.go:58-424) over the repository keeps the promise of   *)
(* TaskTables, whatever statements fail and wherever the process dies.       *)
THEOREM TablesImplemented == Spec => KeepsPromise
<1>1. Init => Promise!Init
  BY InitKept
<1>2. IInv /\ [Next]_vars => [Promise!Next]_Stored
  BY NextKept
<1> QED BY <1>1, <1>2, Invariance, PTL DEF Spec, KeepsPromise, Promise!Spec
-----------------------------------------------------------------------------
(* The lock: who reads and who writes.  A process is a reader from the moment *)
(* RLock lets it in to its answer.                                          *)
Reads == {"count", "find", "total", "status", "answered"}

Asking(c) == at[c] = "lock" /\ call[c].op \in {"count", "total"}

Announced(c) == at[c] = "lock" /\ call[c].op \in {"get", "delete"}

Inside(c) == at[c] \in Reads \/ (Asking(c) /\ c \notin waiting)

ReadersCounted == \A c \in Procs : active[c] = IF Inside(c) THEN 1 ELSE 0

WaitersAsk ==
    /\ \A c \in Procs : c \in waiting => Asking(c)
    /\ writer = NoProc => waiting = {}

WriterKnown ==
    \A c \in Procs : writer = c <=> (Announced(c) \/ at[c] \in Saving \cup Deleting)

WriterAlone ==
    /\ \A c \in Procs : at[c] \in Saving \cup Deleting => locked
    /\ locked => writer # NoProc /\ \A c \in Procs : active[c] = 0

LockInv == MutexTypeOK /\ ReadersCounted /\ WaitersAsk /\ WriterKnown /\ WriterAlone

Counts(x, l) ==
    /\ x = "find" => l.total = Cardinality(TaskRows)
    /\ x = "answered" /\ l.op = "count" => l.found = Page(l.total, l.page)

CountsKnown == \A c \in Procs : Counts(at[c], call[c])

ReadInv == IInv /\ LockInv /\ CountsKnown

(* c goes on to x with the locals l. *)
Moves(c, x, l) ==
    \A d \in Procs : /\ at'[d] = IF d = c THEN x ELSE at[d]
                     /\ call'[d] = IF d = c THEN l ELSE call[d]

LEMMA PlacesApart ==
    /\ Reads \cap (Saving \cup Deleting) = {}
    /\ "lock" \notin Reads \cup Saving \cup Deleting
    /\ "idle" \notin Reads \cup Saving \cup Deleting
    /\ {"get", "delete"} \subseteq Saving \cup Deleting
    /\ {"count", "total"} \subseteq Reads
  BY DEF Reads, Saving, Deleting

(* What the eight ways of using the lock keep. *)
LEMMA AnnounceKeeps ==
    ASSUME LockInv, NEW c \in Procs, NEW l, at[c] = "idle", l.op \in {"get", "delete"},
           Moves(c, "lock", l), Announce(c)
    PROVE  LockInv'
  <1> USE PlacesApart, MutexAssumption DEF LockInv, Moves
  <1>1. MutexTypeOK'
    BY DEF MutexTypeOK, Announce
  <1>2. ReadersCounted'
    BY DEF ReadersCounted, Inside, Asking, Announce
  <1>3. WaitersAsk'
    BY DEF WaitersAsk, Asking, Announce
  <1>4. WriterKnown'
    BY DEF WriterKnown, Announced, Announce
  <1>5. WriterAlone'
    BY DEF WriterAlone, Announce
  <1> QED BY <1>1, <1>2, <1>3, <1>4, <1>5

LEMMA RLockKeeps ==
    ASSUME LockInv, NEW c \in Procs, NEW l, at[c] = "idle", l.op \in {"count", "total"},
           Moves(c, "lock", l), RLock(c)
    PROVE  LockInv'
  <1> USE PlacesApart, MutexAssumption DEF LockInv, Moves
  <1>1. c \notin waiting /\ active[c] = 0
    BY DEF WaitersAsk, Asking, ReadersCounted, Inside
  <1>2. CASE writer = NoProc
    <2>1. /\ active' = [active EXCEPT ![c] = 1]
          /\ UNCHANGED <<waiting, writer, locked>>
      BY <1>1, <1>2 DEF RLock
    <2>2. MutexTypeOK'
      BY <2>1 DEF MutexTypeOK
    <2>3. \A d \in Procs : active'[d] = IF d = c THEN 1 ELSE active[d]
      BY <2>1 DEF MutexTypeOK
    <2>4. ReadersCounted'
      BY <1>1, <2>1, <2>3 DEF ReadersCounted, Inside, Asking
    <2>5. WaitersAsk' /\ WriterKnown' /\ WriterAlone'
      BY <1>1, <1>2, <2>1 DEF WaitersAsk, WriterKnown, WriterAlone, Asking, Announced
    <2> QED BY <2>2, <2>4, <2>5
  <1>3. CASE writer # NoProc
    <2>1. waiting' = waiting \cup {c} /\ UNCHANGED <<active, writer, locked>>
      BY <1>3 DEF RLock
    <2>2. MutexTypeOK'
      BY <2>1 DEF MutexTypeOK
    <2>3. ReadersCounted'
      BY <1>1, <2>1 DEF ReadersCounted, Inside, Asking
    <2>4. WaitersAsk' /\ WriterKnown' /\ WriterAlone'
      BY <1>3, <2>1 DEF WaitersAsk, WriterKnown, WriterAlone, Asking, Announced
    <2> QED BY <2>2, <2>3, <2>4
  <1> QED BY <1>2, <1>3

LEMMA AcquireKeeps ==
    ASSUME LockInv, NEW c \in Procs, Announced(c), Moves(c, call[c].op, call[c]), Acquire(c)
    PROVE  LockInv'
  <1> USE PlacesApart, MutexAssumption DEF LockInv, Moves
  <1>1. call[c].op \in Saving \cup Deleting /\ at[c] = "lock" /\ call[c].op \notin Reads
    BY DEF Announced
  <1>2. /\ writer = c /\ locked' = TRUE /\ \A d \in Procs : active[d] = 0
        /\ UNCHANGED <<active, waiting, writer>>
    BY DEF Acquire
  <1>3. MutexTypeOK'
    BY <1>2 DEF MutexTypeOK
  <1>4. ReadersCounted'
    BY <1>1, <1>2 DEF ReadersCounted, Inside, Asking, Announced
  <1>5. WaitersAsk'
    BY <1>1, <1>2 DEF WaitersAsk, Asking, Announced
  <1>6. WriterKnown'
    BY <1>1, <1>2 DEF WriterKnown, Announced
  <1>7. WriterAlone'
    BY <1>2 DEF WriterAlone
  <1> QED BY <1>3, <1>4, <1>5, <1>6, <1>7

LEMMA EnterKeeps ==
    ASSUME LockInv, NEW c \in Procs, Asking(c), c \notin waiting,
           Moves(c, call[c].op, call[c]), UNCHANGED mutex
    PROVE  LockInv'
  <1> USE PlacesApart DEF LockInv, Moves, mutex
  <1>1. /\ call[c].op \in Reads /\ at[c] = "lock" /\ call[c].op # "lock"
        /\ call[c].op \notin Saving \cup Deleting
    BY DEF Asking, Reads, Saving, Deleting
  <1>2. MutexTypeOK'
    BY DEF MutexTypeOK
  <1>3. ReadersCounted'
    BY <1>1 DEF ReadersCounted, Inside, Asking
  <1>4. WaitersAsk' /\ WriterKnown' /\ WriterAlone'
    BY <1>1 DEF WaitersAsk, WriterKnown, WriterAlone, Asking, Announced
  <1> QED BY <1>2, <1>3, <1>4

LEMMA InsideKeeps ==
    ASSUME LockInv, NEW c \in Procs, NEW x, NEW l, Moves(c, x, l), UNCHANGED mutex,
           \/ at[c] \in Reads /\ x \in Reads
           \/ at[c] \in Saving \cup Deleting /\ x \in Saving \cup Deleting
    PROVE  LockInv'
  <1> USE PlacesApart DEF LockInv, Moves, mutex
  <1>1. at[c] # "lock" /\ x # "lock"
    BY DEF Reads, Saving, Deleting
  <1>2. MutexTypeOK'
    BY DEF MutexTypeOK
  <1>3. ReadersCounted'
    BY <1>1 DEF ReadersCounted, Inside, Asking
  <1>4. WaitersAsk'
    BY <1>1 DEF WaitersAsk, Asking
  <1>5. WriterKnown' /\ WriterAlone'
    BY <1>1 DEF WriterKnown, WriterAlone, Announced
  <1> QED BY <1>2, <1>3, <1>4, <1>5

LEMMA UnlockKeeps ==
    ASSUME LockInv, NEW c \in Procs, at[c] \in Saving \cup Deleting,
           Moves(c, "idle", Idle), Unlock(c)
    PROVE  LockInv'
  <1> USE PlacesApart, MutexAssumption DEF LockInv, Moves
  <1>1. /\ writer = c /\ writer' = NoProc /\ locked' = FALSE /\ waiting' = {}
        /\ \A d \in Procs : active'[d] = IF d \in waiting THEN 1 ELSE 0
        /\ \A d \in Procs : active[d] = 0
    BY DEF WriterKnown, WriterAlone, Unlock
  <1>2. MutexTypeOK'
    <2>1. active' \in [Procs -> Nat]
      BY <1>1 DEF Unlock
    <2> QED BY <1>1, <2>1 DEF MutexTypeOK
  <1>3. \A d \in Procs : d # c => (at[d] \notin Saving \cup Deleting /\ ~Announced(d))
    BY <1>1 DEF WriterKnown
  <1>4. ReadersCounted'
    <2> SUFFICES ASSUME NEW d \in Procs
                 PROVE  active'[d] = IF Inside(d)' THEN 1 ELSE 0
      BY DEF ReadersCounted
    <2>1. CASE d = c
      <3>1. d \notin waiting
        BY <2>1 DEF WaitersAsk, Asking
      <3> QED BY <1>1, <2>1, <3>1 DEF Inside, Asking
    <2>2. CASE d # c
      <3>1. ~Inside(d)
        BY <1>1 DEF ReadersCounted
      <3>2. d \in waiting <=> Inside(d)'
        BY <1>1, <2>2, <3>1 DEF WaitersAsk, Inside, Asking
      <3> QED BY <1>1, <3>2
    <2> QED BY <2>1, <2>2
  <1>5. WaitersAsk'
    BY <1>1 DEF WaitersAsk
  <1>6. WriterKnown'
    BY <1>1, <1>3 DEF WriterKnown, Announced
  <1>7. WriterAlone'
    BY <1>1, <1>3 DEF WriterAlone
  <1> QED BY <1>2, <1>4, <1>5, <1>6, <1>7

LEMMA RUnlockKeeps ==
    ASSUME LockInv, NEW c \in Procs, at[c] \in Reads, Moves(c, "idle", Idle), RUnlock(c)
    PROVE  LockInv'
  <1> USE PlacesApart, MutexAssumption DEF LockInv, Moves
  <1>1. active[c] = 1 /\ c \notin waiting
    BY DEF ReadersCounted, Inside, WaitersAsk, Asking
  <1>2. active' = [active EXCEPT ![c] = 0] /\ UNCHANGED <<waiting, writer, locked>>
    BY <1>1 DEF RUnlock
  <1>3. \A d \in Procs : active'[d] = IF d = c THEN 0 ELSE active[d]
    BY <1>2 DEF MutexTypeOK
  <1>4. MutexTypeOK'
    BY <1>2 DEF MutexTypeOK
  <1>5. ReadersCounted'
    BY <1>2, <1>3 DEF ReadersCounted, Inside, Asking
  <1>6. WaitersAsk'
    BY <1>1, <1>2 DEF WaitersAsk, Asking
  <1>7. WriterKnown'
    BY <1>2 DEF WriterKnown, Announced
  <1>8. WriterAlone'
    BY <1>2, <1>3 DEF WriterAlone
  <1> QED BY <1>4, <1>5, <1>6, <1>7, <1>8
-----------------------------------------------------------------------------
(* What is counted stays true while its reader is inside. *)
LEMMA CountsKept ==
    ASSUME CountsKnown, NEW c \in Procs, NEW x, NEW l, Moves(c, x, l), rows' = rows,
           Counts(x, l)
    PROVE  CountsKnown'
  <1>1. TaskRows' = TaskRows
    BY DEF TaskRows
  <1> QED BY <1>1 DEF CountsKnown, Counts, Moves, Page

LEMMA CountsAside ==
    ASSUME CountsKnown, LockInv, NEW c \in Procs, at[c] \in Saving \cup Deleting,
           Moves(c, "idle", Idle)
    PROVE  CountsKnown'
  <1>1. \A d \in Procs : at[d] \notin Reads
    BY PlacesApart DEF LockInv, WriterAlone, ReadersCounted, Inside
  <1> QED BY <1>1 DEF CountsKnown, Counts, Moves, Reads

LEMMA LeaveMoves ==
    ASSUME TypeOK, NEW c \in Procs, Leave(c)
    PROVE  Moves(c, "idle", Idle)
  BY DEF TypeOK, Leave, Moves

LEMMA CallReads ==
    ASSUME ReadInv, NEW c \in Procs, Call(c)
    PROVE  LockInv' /\ CountsKnown'
  <1> USE DEF ReadInv, IInv
  <1>1. PICK l : /\ Begin(c, l)
                 /\ \/ l.op \in {"get", "delete"} /\ Announce(c)
                    \/ l.op \in {"count", "total"} /\ RLock(c)
    <2>1. ASSUME NEW t \in Tasks, DeleteTask(c, t)
          PROVE  \E l : /\ Begin(c, l)
                        /\ \/ l.op \in {"get", "delete"} /\ Announce(c)
                           \/ l.op \in {"count", "total"} /\ RLock(c)
      <3> DEFINE l == [Idle EXCEPT !.op = "delete", !.task = t]
      <3>1. l.op = "delete" /\ Begin(c, l) /\ Announce(c)
        BY <2>1 DEF DeleteTask, Idle
      <3> HIDE DEF l
      <3> QED BY <3>1
    <2>2. ASSUME NEW t \in Tasks, NEW b \in TableSet, NEW v \in ValuesOf(b), Save(c, t, b, v)
          PROVE  \E l : /\ Begin(c, l)
                        /\ \/ l.op \in {"get", "delete"} /\ Announce(c)
                           \/ l.op \in {"count", "total"} /\ RLock(c)
      <3> DEFINE l == [Idle EXCEPT !.op = "get", !.task = t, !.table = b, !.value = v]
      <3>1. l.op = "get" /\ Begin(c, l) /\ Announce(c)
        BY <2>2 DEF Save, Idle
      <3> HIDE DEF l
      <3> QED BY <3>1
    <2>3. ASSUME NEW p \in Pages, Query(c, p)
          PROVE  \E l : /\ Begin(c, l)
                        /\ \/ l.op \in {"get", "delete"} /\ Announce(c)
                           \/ l.op \in {"count", "total"} /\ RLock(c)
      <3> DEFINE l == [Idle EXCEPT !.op = "count", !.page = p]
      <3>1. l.op = "count" /\ Begin(c, l) /\ RLock(c)
        BY <2>3 DEF Query, Idle
      <3> HIDE DEF l
      <3> QED BY <3>1
    <2>4. ASSUME GetStats(c)
          PROVE  \E l : /\ Begin(c, l)
                        /\ \/ l.op \in {"get", "delete"} /\ Announce(c)
                           \/ l.op \in {"count", "total"} /\ RLock(c)
      <3> DEFINE l == [Idle EXCEPT !.op = "total"]
      <3>1. l.op = "total" /\ Begin(c, l) /\ RLock(c)
        BY <2>4 DEF GetStats, Idle
      <3> HIDE DEF l
      <3> QED BY <3>1
    <2> QED BY <2>1, <2>2, <2>3, <2>4 DEF Call
  <1>2. at[c] = "idle" /\ Moves(c, "lock", l) /\ rows' = rows
    BY <1>1 DEF Begin, Moves, TypeOK
  <1>3. Counts("lock", l)
    BY DEF Counts
  <1> HIDE DEF IInv
  <1>4. CountsKnown'
    BY <1>2, <1>3, CountsKept
  <1>5. LockInv'
    BY <1>1, <1>2, AnnounceKeeps, RLockKeeps
  <1> QED BY <1>4, <1>5

LEMMA EnterReads ==
    ASSUME ReadInv, NEW c \in Procs, Enter(c)
    PROVE  LockInv' /\ CountsKnown'
  <1> USE DEF ReadInv, IInv
  <1>1. /\ at[c] = "lock" /\ at' = [at EXCEPT ![c] = call[c].op]
        /\ call' = call /\ rows' = rows
    BY DEF Enter, Go
  <1>2. Moves(c, call[c].op, call[c])
    BY <1>1 DEF Moves, TypeOK
  <1>3. call[c] \in Locals /\ call[c].op # "none"
    BY <1>1 DEF TypeOK, CallsKnown, Known
  <1>4. call[c].op \in {"get", "delete", "count", "total"}
    BY <1>3 DEF Locals
  <1> HIDE DEF IInv
  <1>5. LockInv'
    <2>1. CASE Writing(c)
      BY <1>1, <1>2, <2>1, AcquireKeeps DEF Enter, Writing, Announced
    <2>2. CASE ~Writing(c)
      BY <1>1, <1>2, <1>4, <2>2, EnterKeeps DEF Enter, Writing, Asking, LockKept
    <2> QED BY <2>1, <2>2
  <1>6. Counts(call[c].op, call[c])
    BY <1>4 DEF Counts
  <1> QED BY <1>1, <1>2, <1>5, <1>6, CountsKept

LEMMA WriteGoesOn ==
    ASSUME ReadInv, NEW c \in Procs, Get(c) \/ DeleteRows(c)
    PROVE  LockInv' /\ CountsKnown'
  <1> USE DEF ReadInv, IInv
  <1>0. PICK x \in Saving \cup Deleting :
           \E l : at' = [at EXCEPT ![c] = x] /\ call' = [call EXCEPT ![c] = l]
    <2>1. CASE Get(c)
      BY <2>1 DEF Get, Go, Saving, TypeOK
    <2>2. CASE DeleteRows(c)
      BY <2>2 DEF DeleteRows, Go, Deleting
    <2> QED BY <2>1, <2>2
  <1>1. PICK l : at' = [at EXCEPT ![c] = x] /\ call' = [call EXCEPT ![c] = l]
    BY <1>0
  <1>2. /\ at[c] \in Saving \cup Deleting /\ rows' = rows /\ UNCHANGED mutex
    BY DEF Get, DeleteRows, Go, LockKept, Saving, Deleting
  <1>3. Moves(c, x, l)
    BY <1>1 DEF Moves, TypeOK
  <1>4. Counts(x, l)
    BY DEF Counts, Saving, Deleting
  <1> HIDE DEF IInv
  <1> QED BY <1>2, <1>3, <1>4, InsideKeeps, CountsKept

LEMMA WriteEnds ==
    ASSUME ReadInv, NEW c \in Procs, at[c] \in Saving \cup Deleting, Leave(c), Unlock(c)
    PROVE  LockInv' /\ CountsKnown'
  BY LeaveMoves, UnlockKeeps, CountsAside DEF ReadInv, IInv

LEMMA ReadGoesOn ==
    ASSUME ReadInv, NEW c \in Procs,
           Count(c) \/ Find(c) \/ CountTotal(c) \/ CountStatus(c)
    PROVE  LockInv' /\ CountsKnown'
  <1> USE DEF ReadInv, IInv
  <1>1. call[c] \in Locals /\ Known(at[c], call[c]) /\ Counts(at[c], call[c])
    BY DEF TypeOK, CallsKnown, CountsKnown
  <1>0. PICK x \in Reads :
           \E l : /\ at' = [at EXCEPT ![c] = x] /\ call' = [call EXCEPT ![c] = l]
                  /\ Counts(x, l)
    <2>1. CASE Count(c)
      <3> DEFINE l == [call[c] EXCEPT !.total = Cardinality(TaskRows)]
      <3>1. l.total = Cardinality(TaskRows)
        BY <1>1 DEF Locals
      <3>2. call' = [call EXCEPT ![c] = l] /\ at' = [at EXCEPT ![c] = "find"]
        BY <2>1 DEF Count, Go, TypeOK
      <3> HIDE DEF l
      <3> QED BY <3>1, <3>2 DEF Counts, Reads
    <2>2. CASE Find(c)
      <3> DEFINE l == [call[c] EXCEPT !.found =
                          Page(Cardinality(TaskRows), call[c].page)]
      <3>1. call[c].total = Cardinality(TaskRows)
        BY <1>1, <2>2 DEF Find, Go, Counts
      <3>2. l.found = Page(Cardinality(TaskRows), call[c].page) /\ l.total = call[c].total
            /\ l.page = call[c].page
        BY <1>1 DEF Locals
      <3>3. call' = [call EXCEPT ![c] = l] /\ at' = [at EXCEPT ![c] = "answered"]
        BY <2>2 DEF Find, Go, TypeOK
      <3> HIDE DEF l
      <3> QED BY <3>1, <3>2, <3>3 DEF Counts, Reads
    <2>3. CASE CountTotal(c)
      <3> DEFINE l == [call[c] EXCEPT !.total = Cardinality(TaskRows)]
      <3>1. call' = [call EXCEPT ![c] = l] /\ at' = [at EXCEPT ![c] = "status"]
        BY <2>3 DEF CountTotal, Go, TypeOK
      <3> HIDE DEF l
      <3> QED BY <3>1 DEF Counts, Reads
    <2>4. CASE CountStatus(c)
      <3> DEFINE n == Cardinality(With(Counted[Len(call[c].counts) + 1]))
                 l == [call[c] EXCEPT !.counts = Append(@, n)]
      <3>1. call' = [call EXCEPT ![c] = l]
        BY <2>4 DEF CountStatus, TypeOK
      <3>2. call[c].op = "total"
        BY <1>1, <2>4 DEF CountStatus, Go, Known
      <3> HIDE DEF n
      <3>3. l.op = "total"
        BY <1>1, <3>2 DEF Locals
      <3>4. PICK x \in {"status", "answered"} : at' = [at EXCEPT ![c] = x]
        BY <2>4 DEF CountStatus, Go
      <3> HIDE DEF l
      <3> QED BY <3>1, <3>3, <3>4 DEF Counts, Reads
    <2> QED BY <2>1, <2>2, <2>3, <2>4
  <1>2. PICK l : /\ at' = [at EXCEPT ![c] = x] /\ call' = [call EXCEPT ![c] = l]
                 /\ Counts(x, l)
    BY <1>0
  <1>3. /\ at[c] \in Reads /\ rows' = rows /\ UNCHANGED mutex
    BY DEF Count, Find, CountTotal, CountStatus, Go, LockKept, Reads
  <1>4. Moves(c, x, l)
    BY <1>2 DEF Moves, TypeOK
  <1> HIDE DEF IInv
  <1> QED BY <1>2, <1>3, <1>4, InsideKeeps, CountsKept

LEMMA ReadEnds ==
    ASSUME ReadInv, NEW c \in Procs, at[c] \in Reads, Leave(c), RUnlock(c), rows' = rows
    PROVE  LockInv' /\ CountsKnown'
  <1>1. Moves(c, "idle", Idle) /\ Counts("idle", Idle)
    BY LeaveMoves DEF ReadInv, IInv, Counts
  <1> QED BY <1>1, RUnlockKeeps, CountsKept DEF ReadInv

LEMMA FailReads ==
    ASSUME ReadInv, NEW c \in Procs, Fail(c)
    PROVE  LockInv' /\ CountsKnown'
  <1>1. at[c] \in Places /\ Known(at[c], call[c])
    BY DEF ReadInv, IInv, TypeOK, CallsKnown
  <1>2. Leave(c) /\ at[c] \notin {"idle", "lock", "answered"}
    BY DEF Fail
  <1>3. CASE at[c] \in Saving \cup Deleting
    <2>1. Writing(c)
      BY <1>1, <1>3 DEF Known, Writing
    <2> QED BY <1>2, <1>3, <2>1, WriteEnds DEF Fail
  <1>4. CASE at[c] \notin Saving \cup Deleting
    <2>1. at[c] \in {"count", "find", "total", "status"}
      BY <1>1, <1>2, <1>4 DEF Places, Saving, Deleting
    <2>2. ~Writing(c) /\ rows' = rows /\ at[c] \in Reads
      BY <1>1, <2>1 DEF Known, Writing, Fail, Reads
    <2> QED BY <1>2, <2>2, ReadEnds DEF Fail
  <1> QED BY <1>3, <1>4

LEMMA DieReads ==
    ASSUME ReadInv, Die
    PROVE  LockInv' /\ CountsKnown'
  <1>1. /\ writer' = NoProc /\ locked' = FALSE /\ waiting' = {}
        /\ \A c \in Procs : at'[c] = "idle" /\ active'[c] = 0
        /\ active' \in [Procs -> Nat]
    BY DEF Die
  <1>2. LockInv'
    BY <1>1, PlacesApart, MutexAssumption
       DEF LockInv, MutexTypeOK, ReadersCounted, Inside, Asking, WaitersAsk, WriterKnown,
           Announced, WriterAlone
  <1>3. CountsKnown'
    BY <1>1 DEF CountsKnown, Counts
  <1> QED BY <1>2, <1>3

LEMMA ReadInvariance == Spec => []ReadInv
<1>1. Init => LockInv /\ CountsKnown
  <2> SUFFICES ASSUME Init
               PROVE  LockInv /\ CountsKnown
    OBVIOUS
  <2>1. /\ writer = NoProc /\ locked = FALSE /\ waiting = {}
        /\ \A c \in Procs : at[c] = "idle" /\ active[c] = 0
        /\ active \in [Procs -> Nat]
    BY DEF Init, MutexInit
  <2> QED BY <2>1, PlacesApart, MutexAssumption
          DEF LockInv, MutexTypeOK, ReadersCounted, Inside, Asking, WaitersAsk,
              WriterKnown, Announced, WriterAlone, CountsKnown, Counts
<1>2. ReadInv /\ IInv' /\ [Next]_vars => ReadInv'
  <2> SUFFICES ASSUME ReadInv, [Next]_vars
               PROVE  LockInv' /\ CountsKnown'
    BY DEF ReadInv
  <2>1. ASSUME NEW c \in Procs, Update(c) \/ Insert(c) \/ Commit(c)
        PROVE  LockInv' /\ CountsKnown'
    <3>1. at[c] \in Saving \cup Deleting /\ Leave(c) /\ Unlock(c)
      BY <2>1 DEF Update, Insert, Commit, Write, Saving, Deleting
    <3> QED BY <3>1, WriteEnds
  <2>2. ASSUME NEW c \in Procs, Return(c)
        PROVE  LockInv' /\ CountsKnown'
    BY <2>2, ReadEnds DEF Return, Reads
  <2>3. CASE Next
    BY <2>1, <2>2, <2>3, CallReads, EnterReads, WriteGoesOn, ReadGoesOn, FailReads,
       DieReads DEF Next, Continue
  <2>4. CASE UNCHANGED vars
    BY <2>4 DEF vars, mutex, ReadInv, LockInv, MutexTypeOK, ReadersCounted, Inside,
                Asking, WaitersAsk, WriterKnown, Announced, WriterAlone, CountsKnown,
                Counts, TaskRows, Page
  <2> QED BY <2>3, <2>4
<1>3. Init => IInv
  BY InitInvariant
<1>4. IInv /\ [Next]_vars => IInv'
  BY NextInvariant
<1>5. Init => ReadInv
  BY <1>1, <1>3 DEF ReadInv
<1>6. ReadInv /\ [Next]_vars => ReadInv'
  BY <1>2, <1>4 DEF ReadInv
<1> QED BY <1>5, <1>6, PTL DEF Spec

(* A page of QueryTasks (storage_db.go:341-396) is one of the rows its total  *)
(* counted, for any number of callers: no writer comes between the count and *)
(* the find.                                                                *)
THEOREM PagesTrue == Spec => []PagesMatchTotals
<1>1. ReadInv => PagesMatchTotals
  BY DEF ReadInv, CountsKnown, Counts, PagesMatchTotals
<1> QED BY <1>1, ReadInvariance, PTL
-----------------------------------------------------------------------------
(* The statistics: what each count leaves in the locals of its caller.      *)
Tallied(x, l) ==
    /\ x \in {"idle", "lock", "total"} => l.counts = <<>>
    /\ x = "status" => Len(l.counts) < Len(Counted)
    /\ x = "answered" /\ l.op = "total" => Len(l.counts) = Len(Counted)
    /\ x = "status" \/ (x = "answered" /\ l.op = "total") =>
          /\ l.total = Cardinality(TaskRows)
          /\ l.counts \in Seq(Nat)
          /\ \A i \in 1..Len(l.counts) : l.counts[i] = Cardinality(With(Counted[i]))

TalliesKnown == \A c \in Procs : Tallied(at[c], call[c])

(* Every task has a status, and every save of a task brings one.            *)
StatusesKnown ==
    /\ \A t \in TaskRows : rows["tasks"][t][1] \in Statuses
    /\ \A c \in Procs : call[c].op = "get" /\ call[c].table = "tasks" =>
                           call[c].value \in Statuses

StatsInv == TalliesKnown /\ StatusesKnown

LEMMA TalliesKept ==
    ASSUME TalliesKnown, NEW c \in Procs, NEW x, NEW l, Moves(c, x, l), rows' = rows,
           Tallied(x, l)
    PROVE  TalliesKnown'
  <1>1. TaskRows' = TaskRows /\ \A s : With(s)' = With(s)
    BY DEF TaskRows, With
  <1> QED BY <1>1 DEF TalliesKnown, Tallied, Moves

LEMMA IdleTallied == Tallied("idle", Idle)
  BY DEF Tallied, Idle

LEMMA TalliesAside ==
    ASSUME TalliesKnown, LockInv, NEW c \in Procs, at[c] \in Saving \cup Deleting,
           Moves(c, "idle", Idle)
    PROVE  TalliesKnown'
  <1>1. \A d \in Procs : at[d] \notin Reads
    BY PlacesApart DEF LockInv, WriterAlone, ReadersCounted, Inside
  <1> QED BY <1>1, IdleTallied DEF TalliesKnown, Tallied, Moves, Reads

(* A step that leaves the rows, and brings no save of another status.       *)
LEMMA StatusesKept ==
    ASSUME StatusesKnown, NEW c \in Procs, NEW x, NEW l, Moves(c, x, l), rows' = rows,
           l.op = "get" /\ l.table = "tasks" => l.value \in Statuses
    PROVE  StatusesKnown'
  <1>1. TaskRows' = TaskRows
    BY DEF TaskRows
  <1> QED BY <1>1 DEF StatusesKnown, Moves

LEMMA CallTallies ==
    ASSUME ReadInv, StatsInv, NEW c \in Procs, Call(c)
    PROVE  StatsInv'
  <1>1. PICK l : /\ Begin(c, l) /\ l.counts = <<>>
                 /\ l.op = "get" /\ l.table = "tasks" => l.value \in Statuses
    <2>1. ASSUME NEW t \in Tasks, DeleteTask(c, t)
          PROVE  \E l : /\ Begin(c, l) /\ l.counts = <<>>
                        /\ l.op = "get" /\ l.table = "tasks" => l.value \in Statuses
      <3> DEFINE l == [Idle EXCEPT !.op = "delete", !.task = t]
      <3>1. l.op = "delete" /\ l.counts = <<>> /\ Begin(c, l)
        BY <2>1 DEF DeleteTask, Idle
      <3> HIDE DEF l
      <3> QED BY <3>1
    <2>2. ASSUME NEW t \in Tasks, NEW b \in TableSet, NEW v \in ValuesOf(b), Save(c, t, b, v)
          PROVE  \E l : /\ Begin(c, l) /\ l.counts = <<>>
                        /\ l.op = "get" /\ l.table = "tasks" => l.value \in Statuses
      <3> DEFINE l == [Idle EXCEPT !.op = "get", !.task = t, !.table = b, !.value = v]
      <3>1. l.counts = <<>> /\ l.table = b /\ l.value = v /\ Begin(c, l)
        BY <2>2 DEF Save, Idle
      <3> HIDE DEF l
      <3> QED BY <3>1 DEF ValuesOf
    <2>3. ASSUME NEW p \in Pages, Query(c, p)
          PROVE  \E l : /\ Begin(c, l) /\ l.counts = <<>>
                        /\ l.op = "get" /\ l.table = "tasks" => l.value \in Statuses
      <3> DEFINE l == [Idle EXCEPT !.op = "count", !.page = p]
      <3>1. l.op = "count" /\ l.counts = <<>> /\ Begin(c, l)
        BY <2>3 DEF Query, Idle
      <3> HIDE DEF l
      <3> QED BY <3>1
    <2>4. ASSUME GetStats(c)
          PROVE  \E l : /\ Begin(c, l) /\ l.counts = <<>>
                        /\ l.op = "get" /\ l.table = "tasks" => l.value \in Statuses
      <3> DEFINE l == [Idle EXCEPT !.op = "total"]
      <3>1. l.op = "total" /\ l.counts = <<>> /\ Begin(c, l)
        BY <2>4 DEF GetStats, Idle
      <3> HIDE DEF l
      <3> QED BY <3>1
    <2> QED BY <2>1, <2>2, <2>3, <2>4 DEF Call
  <1>2. Moves(c, "lock", l) /\ rows' = rows
    BY <1>1 DEF Begin, Moves, ReadInv, IInv, TypeOK
  <1>3. Tallied("lock", l)
    BY <1>1 DEF Tallied
  <1> QED BY <1>1, <1>2, <1>3, TalliesKept, StatusesKept DEF StatsInv

(* A step inside a call: the rows stay, and the locals but for the counts.  *)
LEMMA InnerTallies ==
    ASSUME ReadInv, StatsInv, NEW c \in Procs,
           \/ Enter(c) \/ Get(c) \/ DeleteRows(c) \/ Count(c) \/ Find(c)
           \/ CountTotal(c) \/ CountStatus(c)
    PROVE  StatsInv'
  <1> DEFINE k == call[c]
  <1>1. k \in Locals /\ Known(at[c], k) /\ Tallied(at[c], k) /\ at[c] \in Places
    BY DEF ReadInv, IInv, TypeOK, CallsKnown, StatsInv, TalliesKnown
  <1>2. k.op = "get" /\ k.table = "tasks" => k.value \in Statuses
    BY DEF StatsInv, StatusesKnown
  <1>3. rows' = rows /\ at \in [Procs -> Places] /\ call \in [Procs -> Locals]
    BY DEF Enter, Get, DeleteRows, Count, Find, CountTotal, CountStatus, ReadInv, IInv, TypeOK
  <1>4. PICK x \in Places :
           \E l \in Locals :
              /\ at' = [at EXCEPT ![c] = x] /\ call' = [call EXCEPT ![c] = l]
              /\ l.op = k.op /\ l.table = k.table /\ l.value = k.value
              /\ Tallied(x, l)
    <2> HIDE DEF k
    <2>1. CASE Enter(c)
      <3>1. at[c] = "lock" /\ at' = [at EXCEPT ![c] = k.op] /\ call' = [call EXCEPT ![c] = k]
        BY <1>3, <2>1 DEF Enter, Go, k
      <3>2. k.op \in {"get", "delete", "count", "total"} /\ k.counts = <<>>
        BY <1>1, <3>1 DEF Known, Locals, Tallied
      <3> QED BY <1>1, <3>1, <3>2 DEF Tallied, Places
    <2>2. CASE Get(c)
      <3>1. PICK x \in {"insert", "update"} : at' = [at EXCEPT ![c] = x]
        BY <2>2 DEF Get, Go
      <3>2. call' = [call EXCEPT ![c] = k]
        BY <1>3, <2>2 DEF Get, k
      <3> QED BY <1>1, <3>1, <3>2 DEF Tallied, Places
    <2>3. CASE DeleteRows(c)
      <3> DEFINE l == [k EXCEPT !.done = k.done + 1]
      <3>1. PICK x \in {"delete", "commit"} : at' = [at EXCEPT ![c] = x]
        BY <2>3 DEF DeleteRows, Go
      <3>2. call' = [call EXCEPT ![c] = l]
        BY <1>3, <2>3 DEF DeleteRows, k
      <3>3. l \in Locals /\ l.op = k.op /\ l.table = k.table /\ l.value = k.value
        BY <1>1 DEF Locals
      <3> HIDE DEF l
      <3> QED BY <3>1, <3>2, <3>3 DEF Tallied, Places
    <2>4. CASE Count(c)
      <3> DEFINE l == [k EXCEPT !.total = Cardinality(TaskRows)]
      <3>1. at' = [at EXCEPT ![c] = "find"] /\ call' = [call EXCEPT ![c] = l]
        BY <1>3, <2>4 DEF Count, Go, k
      <3>2. l \in Locals /\ l.op = k.op /\ l.table = k.table /\ l.value = k.value
        BY <1>1, CountsAreNat, RepositoryAssumption DEF Locals, ReadInv
      <3> HIDE DEF l
      <3> QED BY <3>1, <3>2 DEF Tallied, Places
    <2>5. CASE Find(c)
      <3> DEFINE l == [k EXCEPT !.found = Page(Cardinality(TaskRows), k.page)]
      <3>1. /\ at[c] = "find" /\ at' = [at EXCEPT ![c] = "answered"]
            /\ call' = [call EXCEPT ![c] = l]
        BY <1>3, <2>5 DEF Find, Go, k
      <3>2. k.op = "count" /\ k.page \in Pages
        BY <1>1, <3>1 DEF Known
      <3>3. l \in Locals /\ l.op = k.op /\ l.table = k.table /\ l.value = k.value
        BY <1>1, <3>2, CountsAreNat, RepositoryAssumption DEF Locals, ReadInv
      <3> HIDE DEF l
      <3> QED BY <3>1, <3>2, <3>3 DEF Tallied, Places
    <2>6. CASE CountTotal(c)
      <3> DEFINE l == [k EXCEPT !.total = Cardinality(TaskRows)]
      <3>1. /\ at[c] = "total" /\ at' = [at EXCEPT ![c] = "status"]
            /\ call' = [call EXCEPT ![c] = l]
        BY <1>3, <2>6 DEF CountTotal, Go, k
      <3>2. /\ l \in Locals /\ l.op = k.op /\ l.table = k.table /\ l.value = k.value
            /\ l.counts = k.counts /\ l.total = Cardinality(TaskRows)
        BY <1>1, CountsAreNat, RepositoryAssumption DEF Locals, ReadInv
      <3>3. k.counts = <<>>
        BY <1>1, <3>1 DEF Tallied
      <3>4. Len(k.counts) = 0 /\ Len(Counted) = 4
        BY <3>3 DEF Counted
      <3>5. k.counts \in Seq(Nat)
        BY <1>1 DEF Locals
      <3> HIDE DEF l
      <3>6. Tallied("status", l)
        BY <3>2, <3>4, <3>5 DEF Tallied
      <3> QED BY <3>1, <3>2, <3>6 DEF Places
    <2>7. CASE CountStatus(c)
      <3> DEFINE n == Cardinality(With(Counted[Len(k.counts) + 1]))
                 l == [k EXCEPT !.counts = Append(k.counts, n)]
                 x == IF Len(k.counts) + 1 = Len(Counted) THEN "answered" ELSE "status"
      <3>1. /\ at[c] = "status" /\ at' = [at EXCEPT ![c] = x]
            /\ call' = [call EXCEPT ![c] = l]
        BY <1>3, <2>7 DEF CountStatus, Go, k
      <3>2. n \in Nat
        BY CountsAreNat, RepositoryAssumption
      <3>3. k.op = "total" /\ k.counts \in Seq(Nat)
        BY <1>1, <3>1 DEF Known, Locals
      <3> HIDE DEF n
      <3>a. Append(k.counts, n) \in Seq(Nat)
        BY <3>2, <3>3
      <3>4. /\ l \in Locals /\ l.op = k.op /\ l.table = k.table /\ l.value = k.value
            /\ l.counts = Append(k.counts, n) /\ l.total = k.total
        BY <1>1, <3>a DEF Locals
      <3> HIDE DEF l
      <3>5. /\ Len(l.counts) = Len(k.counts) + 1 /\ l.counts \in Seq(Nat)
            /\ l.counts[Len(k.counts) + 1] = n
            /\ \A i \in 1..Len(k.counts) : l.counts[i] = k.counts[i]
        BY <3>2, <3>3, <3>4
      <3>6. /\ Len(k.counts) \in Nat /\ Len(k.counts) < 4 /\ Len(Counted) = 4
            /\ k.total = Cardinality(TaskRows)
            /\ \A i \in 1..Len(k.counts) : k.counts[i] = Cardinality(With(Counted[i]))
        BY <1>1, <3>1, <3>3 DEF Tallied, Counted
      <3>7. ASSUME NEW i \in 1..Len(l.counts)
            PROVE  l.counts[i] = Cardinality(With(Counted[i]))
        <4>1. CASE i = Len(k.counts) + 1
          BY <3>5, <4>1 DEF n
        <4>2. CASE i # Len(k.counts) + 1
          BY <3>5, <3>6, <4>2
        <4> QED BY <4>1, <4>2
      <3>8. Tallied(x, l)
        BY <3>3, <3>4, <3>5, <3>6, <3>7 DEF Tallied
      <3>9. x \in Places
        BY DEF Places
      <3> HIDE DEF x
      <3> QED BY <3>1, <3>4, <3>8, <3>9
    <2> QED BY <2>1, <2>2, <2>3, <2>4, <2>5, <2>6, <2>7
  <1>5. PICK l \in Locals :
              /\ at' = [at EXCEPT ![c] = x] /\ call' = [call EXCEPT ![c] = l]
              /\ l.op = k.op /\ l.table = k.table /\ l.value = k.value
              /\ Tallied(x, l)
    BY <1>4
  <1> HIDE DEF k
  <1>6. Moves(c, x, l)
    BY <1>3, <1>5 DEF Moves
  <1>7. l.op = "get" /\ l.table = "tasks" => l.value \in Statuses
    BY <1>2, <1>5
  <1> QED BY <1>3, <1>5, <1>6, <1>7, TalliesKept, StatusesKept DEF StatsInv

(* A call that ends: with the rows as they are, or with the row it saved,   *)
(* or without those it deleted.                                             *)
LEMMA LeaveTallies ==
    ASSUME ReadInv, StatsInv, NEW c \in Procs,
           Update(c) \/ Insert(c) \/ Commit(c) \/ Return(c) \/ Fail(c)
    PROVE  StatsInv'
  <1>1. Moves(c, "idle", Idle)
    BY LeaveMoves DEF Update, Insert, Write, Commit, Return, Fail, ReadInv, IInv
  <1>2. \A d \in Procs : call'[d].op = "get" /\ call'[d].table = "tasks" =>
                            call'[d].value \in Statuses
    BY <1>1 DEF Moves, Idle, StatsInv, StatusesKnown
  <1>3. CASE rows' = rows
    BY <1>1, <1>3, IdleTallied, TalliesKept, StatusesKept DEF StatsInv, Idle
  <1>4. CASE rows' # rows /\ ~(Update(c) \/ Insert(c))
    <2>1. at[c] = "commit" /\ rows' = Without(call[c].task)
      BY <1>4 DEF Commit, Return, Fail
    <2>2. TalliesKnown'
      BY <1>1, <2>1, TalliesAside DEF ReadInv, StatsInv, Deleting
    <2>3. "tasks" \in TableSet
      BY DEF TableSet, Tables
    <2>4. \A t \in Tasks : rows'["tasks"][t] \in {<<>>, rows["tasks"][t]}
      BY <2>1, <2>3 DEF Without, ReadInv, IInv, TypeOK
    <2>5. \A t \in TaskRows' : rows'["tasks"][t][1] \in Statuses
      BY <2>4 DEF TaskRows, StatsInv, StatusesKnown
    <2> QED BY <1>2, <2>2, <2>5 DEF StatsInv, StatusesKnown
  <1>5. CASE Update(c) \/ Insert(c)
    <2> DEFINE b == call[c].table
               u == call[c].task
               v == call[c].value
    <2>1. /\ b \in TableSet /\ u \in Tasks /\ at[c] \in Saving
          /\ rows' = [rows EXCEPT ![b][u] = <<v>>] /\ call[c].op = "get"
      <3>1. at[c] \in Saving
        BY <1>5, SaveWrites DEF ReadInv
      <3>2. call[c].op = "get"
        BY <3>1 DEF ReadInv, IInv, CallsKnown, Known
      <3> QED BY <1>5, <3>2, SaveWrites DEF ReadInv
    <2>2. TalliesKnown'
      BY <1>1, <2>1, TalliesAside DEF ReadInv, StatsInv
    <2>3. "tasks" \in TableSet
      BY DEF TableSet, Tables
    <2>4. b = "tasks" => v \in Statuses
      BY <2>1 DEF StatsInv, StatusesKnown
    <2> HIDE DEF b, u, v
    <2>5. \A t \in Tasks : \/ rows'["tasks"][t] = rows["tasks"][t]
                           \/ b = "tasks" /\ rows'["tasks"][t] = <<v>>
      BY <2>1, <2>3 DEF ReadInv, IInv, TypeOK
    <2>6. \A t \in TaskRows' : rows'["tasks"][t][1] \in Statuses
      <3> SUFFICES ASSUME NEW t \in Tasks, rows'["tasks"][t] # <<>>
                   PROVE  rows'["tasks"][t][1] \in Statuses
        BY DEF TaskRows
      <3>1. CASE rows'["tasks"][t] = rows["tasks"][t]
        BY <3>1 DEF TaskRows, StatsInv, StatusesKnown
      <3>2. CASE b = "tasks" /\ rows'["tasks"][t] = <<v>>
        BY <2>4, <3>2
      <3> QED BY <2>5, <3>1, <3>2
    <2> QED BY <1>2, <2>2, <2>6 DEF StatsInv, StatusesKnown
  <1> QED BY <1>3, <1>4, <1>5

LEMMA DieTallies ==
    ASSUME ReadInv, StatsInv, Die
    PROVE  StatsInv'
  <1>1. /\ \A c \in Procs : at'[c] = "idle" /\ call'[c] = Idle
        /\ rows' = rows
    BY DEF Die
  <1>2. TalliesKnown'
    BY <1>1, IdleTallied DEF TalliesKnown, Tallied
  <1>3. StatusesKnown'
    BY <1>1 DEF StatsInv, StatusesKnown, TaskRows, Idle
  <1> QED BY <1>2, <1>3 DEF StatsInv

LEMMA StatsInvariance == Spec => []StatsInv
<1>1. Init => StatsInv
  <2> SUFFICES ASSUME Init
               PROVE  StatsInv
    OBVIOUS
  <2>1. \A c \in Procs : at[c] = "idle" /\ call[c] = Idle
    BY DEF Init
  <2>2. TalliesKnown
    BY <2>1, IdleTallied DEF TalliesKnown
  <2>3. TaskRows = {}
    BY DEF TaskRows, Init, TableSet, Tables
  <2> QED BY <2>1, <2>2, <2>3 DEF StatsInv, StatusesKnown, Idle
<1>2. ReadInv /\ StatsInv /\ [Next]_vars => StatsInv'
  <2> SUFFICES ASSUME ReadInv, StatsInv, [Next]_vars
               PROVE  StatsInv'
    OBVIOUS
  <2>1. CASE Next
    BY <2>1, CallTallies, InnerTallies, LeaveTallies, DieTallies DEF Next, Continue
  <2>2. CASE UNCHANGED vars
    BY <2>2 DEF vars, StatsInv, TalliesKnown, Tallied, StatusesKnown, TaskRows, With
  <2> QED BY <2>1, <2>2
<1> QED BY <1>1, <1>2, ReadInvariance, PTL DEF Spec

LEMMA DisjointCardinality ==
    ASSUME NEW A, NEW B, IsFiniteSet(A), IsFiniteSet(B), A \cap B = {}
    PROVE  /\ IsFiniteSet(A \cup B)
           /\ Cardinality(A \cup B) = Cardinality(A) + Cardinality(B)
  <1>1. Cardinality(A \cap B) = 0
    BY FS_EmptySet, Zenon
  <1>2. /\ IsFiniteSet(A \cup B)
        /\ Cardinality(A \cup B) = Cardinality(A) + Cardinality(B) - Cardinality(A \cap B)
    BY FS_Union
  <1>3. Cardinality(A) \in Nat /\ Cardinality(B) \in Nat
    BY FS_CardinalityType
  <1> QED BY <1>1, <1>2, <1>3

LEMMA StatusesPartition ==
    ASSUME StatusesKnown
    PROVE  Cardinality(TaskRows) =
              Cardinality(With("pending")) + Cardinality(With("in_progress"))
              + Cardinality(With("completed")) + Cardinality(With("failed"))
              + Cardinality(With("cancelled"))
  <1> DEFINE A == With("pending")
             B == With("in_progress")
             C == With("completed")
             D == With("failed")
             E == With("cancelled")
  <1>1. \A s : With(s) \subseteq TaskRows /\ IsFiniteSet(With(s)) /\ Cardinality(With(s)) \in Nat
    <2> TAKE s
    <2>1. With(s) \in SUBSET Tasks /\ With(s) \subseteq TaskRows
      BY DEF With, TaskRows
    <2> QED BY <2>1, RepositoryAssumption, FS_Subset, FS_CardinalityType
  <1>2. \A s, z : s # z => With(s) \cap With(z) = {}
    BY DEF With
  <1>3. TaskRows = A \cup B \cup C \cup D \cup E
    <2>1. \A t \in TaskRows : rows["tasks"][t][1] \in TaskStatuses
      BY RepositoryAssumption DEF StatusesKnown
    <2> QED BY <1>1, <2>1 DEF With, TaskStatuses
  <1>4. /\ IsFiniteSet(A) /\ IsFiniteSet(B) /\ IsFiniteSet(C) /\ IsFiniteSet(D)
        /\ IsFiniteSet(E) /\ A \cap B = {} /\ (A \cup B) \cap C = {}
        /\ (A \cup B \cup C) \cap D = {} /\ (A \cup B \cup C \cup D) \cap E = {}
    <2>1. /\ A \cap B = {} /\ A \cap C = {} /\ A \cap D = {} /\ A \cap E = {}
          /\ B \cap C = {} /\ B \cap D = {} /\ B \cap E = {}
          /\ C \cap D = {} /\ C \cap E = {} /\ D \cap E = {}
      BY <1>2
    <2>2. /\ IsFiniteSet(A) /\ IsFiniteSet(B) /\ IsFiniteSet(C) /\ IsFiniteSet(D)
          /\ IsFiniteSet(E)
      BY <1>1
    <2> HIDE DEF A, B, C, D, E
    <2> QED BY <2>1, <2>2
  <1>5. /\ Cardinality(A) \in Nat /\ Cardinality(B) \in Nat /\ Cardinality(C) \in Nat
        /\ Cardinality(D) \in Nat /\ Cardinality(E) \in Nat
    BY <1>1
  <1> HIDE DEF A, B, C, D, E
  <1>6. IsFiniteSet(A \cup B) /\ Cardinality(A \cup B) = Cardinality(A) + Cardinality(B)
    BY <1>4, DisjointCardinality
  <1>7. /\ IsFiniteSet(A \cup B \cup C)
        /\ Cardinality(A \cup B \cup C) = Cardinality(A \cup B) + Cardinality(C)
    BY <1>4, <1>6, DisjointCardinality
  <1>8. /\ IsFiniteSet(A \cup B \cup C \cup D)
        /\ Cardinality(A \cup B \cup C \cup D) = Cardinality(A \cup B \cup C) + Cardinality(D)
    BY <1>4, <1>7, DisjointCardinality
  <1>9. Cardinality(A \cup B \cup C \cup D \cup E)
           = Cardinality(A \cup B \cup C \cup D) + Cardinality(E)
    BY <1>4, <1>8, DisjointCardinality
  <1>10. Cardinality(TaskRows) = Cardinality(A) + Cardinality(B) + Cardinality(C)
                                   + Cardinality(D) + Cardinality(E)
    BY <1>3, <1>5, <1>6, <1>7, <1>8, <1>9
  <1> QED BY <1>10 DEF A, B, C, D, E

(* GetTaskStats (storage_db.go:398-425): its five counts, made one after    *)
(* the other, add up, for any number of callers and tasks.                  *)
THEOREM StatsTrue == Spec => []StatsAddUp
<1>1. StatsInv => StatsAddUp
  <2> SUFFICES ASSUME StatsInv, NEW c \in Procs, at[c] = "answered", call[c].op = "total"
               PROVE  LET n == call[c].counts
                      IN  /\ Len(n) = Len(Counted)
                          /\ call[c].total = n[1] + n[2] + n[3] + n[4]
                                               + Cardinality(With("cancelled"))
    BY DEF StatsAddUp
  <2> DEFINE n == call[c].counts
  <2>1. /\ Len(n) = Len(Counted) /\ call[c].total = Cardinality(TaskRows)
        /\ \A i \in 1..Len(n) : n[i] = Cardinality(With(Counted[i]))
    BY DEF StatsInv, TalliesKnown, Tallied
  <2>2. /\ Len(Counted) = 4 /\ Counted[1] = "pending" /\ Counted[2] = "in_progress"
        /\ Counted[3] = "completed" /\ Counted[4] = "failed"
    BY DEF Counted
  <2> HIDE DEF n
  <2>3. /\ n[1] = Cardinality(With("pending")) /\ n[2] = Cardinality(With("in_progress"))
        /\ n[3] = Cardinality(With("completed")) /\ n[4] = Cardinality(With("failed"))
    BY <2>1, <2>2
  <2>4. call[c].total = n[1] + n[2] + n[3] + n[4] + Cardinality(With("cancelled"))
    BY <2>1, <2>3, StatusesPartition DEF StatsInv
  <2> QED BY <2>1, <2>4 DEF n
<1> QED BY <1>1, StatsInvariance, PTL
=============================================================================
