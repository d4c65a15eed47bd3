-------------------------- MODULE BackgroundProofs --------------------------
(***************************************************************************)
(* Proofs about the two components whose work is done by goroutines that no *)
(* caller waits for.                                                        *)
(*                                                                         *)
(* BatchProcessor, for all capacities and numbers of items and restarts: its *)
(* types, the limit on handlers in the first session, and that every item    *)
(* sent is in one place.  The limit holds because every handler, and the     *)
(* worker that is about to start one, has a token of its own in the channel  *)
(* of the session.                                                          *)
(*                                                                         *)
(* HybridStorage, for every number of changes, goroutines and faults: once   *)
(* no mirror write is outstanding, the files follow the rows.               *)
(* MirrorConverges speaks of a moment without goroutines, so the invariant   *)
(* says what holds on the way there: a part whose file differs has a write   *)
(* from some object outstanding, and the cached object is what is stored.    *)
(***************************************************************************)
EXTENDS BatchProcessor, HybridStorage, FiniteSetTheorems, TLAPS

(* A worker that has made a batch is the one that holds the lock. *)
BatchUnderLock ==
    \A w \in Workers : worker[w].at \in {"flush", "blocked", "launch"} => lock = w

(* A dispatcher takes one item at a time. *)
OneMessage == \A w \in Workers : Cardinality(worker[w].msg) <= 1

Launching == IF lock \in Workers /\ worker[lock].at = "launch" THEN 1 ELSE 0

(* Before the first Start nothing runs; up to the second, tokens are taken   *)
(* from, and put into, the first channel alone.                             *)
FirstSession ==
    /\ session = 0 => handlers = {} /\ \A w \in Workers : worker[w].at = "unborn"
    /\ session = 1 =>
          /\ \A w \in Workers : worker[w].at = "blocked" => worker[w].chan = 1
          /\ \A h \in handlers : h.at = "release" => h.chan = 1

TokensSuffice ==
    /\ IsFiniteSet(handlers)
    /\ session = 1 => Cardinality(handlers) + Launching <= slots[1]

WorkerType == [at: {"unborn", "loop", "select", "lock", "flush", "blocked", "launch",
                    "exit"},
               ctx: 0..MaxStarts, msg: SUBSET Items, batch: SUBSET Items,
               chan: 0..MaxStarts]
HandlerType == [batch: SUBSET Items, at: {"run", "done", "release"}, chan: 0..MaxStarts]

IInv ==
    /\ TypeOK
    /\ BatchUnderLock
    /\ OneMessage
    /\ FirstSession
    /\ TokensSuffice
-----------------------------------------------------------------------------
LEMMA TypesNamed ==
    TypeOK => worker \in [Workers -> WorkerType] /\ handlers \subseteq HandlerType
  BY DEF TypeOK, WorkerType, HandlerType

LEMMA NobodyWorks == NoOne \notin Workers
  BY BatchAssumption DEF NoOne, Workers, Sessions

LEMMA ItemsFinite ==
    ASSUME NEW S \in SUBSET Items
    PROVE  IsFiniteSet(S) /\ Cardinality(S) \in Nat
  <1>1. IsFiniteSet(Items)
    BY BatchAssumption, FS_Interval DEF Items
  <1> QED BY <1>1, FS_Subset, FS_CardinalityType
-----------------------------------------------------------------------------
(* Every step keeps the invariant.  Steps of clients, Start and Stop first. *)
LEMMA ClientStep ==
    ASSUME IInv, Send \/ Stop \/ Stopped \/ Elapse
    PROVE  IInv'
  <1> USE BatchAssumption DEF IInv
  <1>1. /\ UNCHANGED <<session, cache, slots, worker, lock, handlers, handled, dropped>>
        /\ service' \in {"closed", "open", "stopping"} /\ fresh' \in BOOLEAN
    BY DEF TypeOK, Send, Stop, Stopped, Elapse
  <1>2. sent' \in 0..MaxItems /\ queue' \in Seq(Items) /\ Len(queue') <= QueueNum
    <2>1. CASE Send
      <3>1. sent + 1 \in Items /\ sent' = sent + 1 /\ queue' = Append(queue, sent + 1)
        BY <2>1 DEF TypeOK, Send, Items
      <3> QED BY <2>1, <3>1 DEF TypeOK, Send, Items
    <2>2. CASE Stop \/ Stopped \/ Elapse
      BY <2>2 DEF TypeOK, Stop, Stopped, Elapse
    <2> QED BY <2>1, <2>2
  <1>3. TypeOK'
    BY <1>1, <1>2 DEF TypeOK
  <1> QED BY <1>1, <1>3
          DEF BatchUnderLock, OneMessage, FirstSession, TokensSuffice, Launching

LEMMA StartStep ==
    ASSUME IInv, Start
    PROVE  IInv'
  <1> USE BatchAssumption DEF IInv
  <1>1. session \in Nat /\ session' = session + 1 /\ session' \in 1..MaxStarts
    BY DEF TypeOK, Start
  <1>2. [Unborn EXCEPT !.at = "loop"] \in WorkerType
    BY DEF Unborn, WorkerType
  <1>3. worker' \in [Workers -> WorkerType]
    BY <1>2, TypesNamed DEF Start
  <1>4. IsFiniteSet({}) /\ Cardinality({}) = 0
    BY FS_EmptySet
  <1>5. TypeOK'
    <2>1. /\ cache' = {} /\ Cardinality(cache') <= CacheNum /\ service' = "open"
          /\ dropped' \subseteq Items
      BY <1>4 DEF TypeOK, Start
    <2>2. UNCHANGED <<sent, queue, slots, fresh, lock, handlers, handled>>
      BY DEF Start
    <2> QED BY <1>1, <1>3, <2>1, <2>2 DEF TypeOK, WorkerType
  <1>6. \A w \in Workers : \/ worker'[w] = worker[w]
                           \/ worker'[w].at = "loop" /\ worker'[w].msg = {}
    BY DEF Start, Unborn
  <1>7. BatchUnderLock' /\ OneMessage'
    <2>1. lock' = lock
      BY DEF Start
    <2>2. \A w \in Workers : worker[w].at \in {"flush", "blocked", "launch"} => lock = w
      BY DEF BatchUnderLock
    <2>3. \A w \in Workers : Cardinality(worker[w].msg) <= 1
      BY DEF OneMessage
    <2> HIDE DEF IInv
    <2>4. BatchUnderLock'
      BY <1>6, <2>1, <2>2 DEF BatchUnderLock
    <2>5. OneMessage'
      <3> SUFFICES ASSUME NEW w \in Workers
                   PROVE  Cardinality(worker'[w].msg) <= 1
        BY DEF OneMessage
      <3>1. CASE worker'[w] = worker[w]
        BY <2>3, <3>1
      <3>2. CASE worker'[w].msg = {}
        <4>1. Cardinality(worker'[w].msg) = 0
          BY <1>4, <3>2, Zenon
        <4> QED BY <4>1
      <3> QED BY <1>6, <3>1, <3>2
    <2> QED BY <2>4, <2>5
  <1>8. FirstSession'
    <2>1. CASE session = 0
      BY <1>1, <1>6, <2>1 DEF FirstSession, Start
    <2>2. CASE session # 0
      BY <1>1, <2>2 DEF FirstSession
    <2> QED BY <2>1, <2>2
  <1>9. TokensSuffice'
    <2>1. CASE session = 0
      <3>1. Launching' = 0
        BY <1>6, <2>1 DEF FirstSession, Launching, Start
      <3>2. handlers' = {}
        BY <2>1 DEF FirstSession, Start
      <3>3. slots' = slots /\ 1 \in Sessions
        BY <1>1 DEF Sessions, Start
      <3>4. slots'[1] \in 0..MaxThread
        BY <3>3 DEF TypeOK
      <3>5. IsFiniteSet(handlers') /\ Cardinality(handlers') = 0
        BY <1>4, <3>2, Zenon
      <3> QED BY <3>1, <3>4, <3>5 DEF TokensSuffice
    <2>2. CASE session # 0
      BY <1>1, <2>2 DEF TokensSuffice, Start
    <2> QED BY <2>1, <2>2
  <1> QED BY <1>5, <1>7, <1>8, <1>9

(* A worker that moves to a place where it holds neither the lock nor a batch. *)
LEMMA FreeMove ==
    ASSUME IInv, NEW w \in Workers, worker[w].at \in {"loop", "select"},
           UNCHANGED <<session, slots, lock, handlers>>,
           NEW x \in WorkerType, x.at \in {"select", "exit", "lock"},
           Cardinality(x.msg) <= 1, worker' = [worker EXCEPT ![w] = x]
    PROVE  /\ worker' \in [Workers -> WorkerType]
           /\ BatchUnderLock' /\ OneMessage' /\ FirstSession' /\ TokensSuffice'
  <1> USE DEF IInv
  <1>1. worker' \in [Workers -> WorkerType]
    BY TypesNamed
  <1>2. \A v \in Workers : worker'[v] = IF v = w THEN x ELSE worker[v]
    BY TypesNamed
  <1>3. Launching' = Launching
    BY <1>2 DEF Launching
  <1>4. session # 0
    BY DEF FirstSession
  <1> QED BY <1>1, <1>2, <1>3, <1>4
          DEF BatchUnderLock, OneMessage, FirstSession, TokensSuffice

LEMMA LoopStep ==
    ASSUME IInv, NEW w \in Workers, Loop(w)
    PROVE  IInv'
  <1> USE BatchAssumption DEF IInv
  <1> DEFINE x == [worker[w] EXCEPT !.at = "select", !.ctx = session]
  <1>1. x \in WorkerType /\ x.at = "select" /\ x.msg = worker[w].msg
    BY TypesNamed DEF TypeOK, WorkerType
  <1>2. worker' = [worker EXCEPT ![w] = x]
    BY TypesNamed DEF Loop
  <1> HIDE DEF x
  <1>3. /\ worker' \in [Workers -> WorkerType]
        /\ BatchUnderLock' /\ OneMessage' /\ FirstSession' /\ TokensSuffice'
    <2>1. worker[w].at = "loop" /\ UNCHANGED <<session, slots, lock, handlers>>
      BY DEF Loop, At
    <2>2. Cardinality(x.msg) <= 1
      BY <1>1 DEF OneMessage
    <2> QED BY <1>1, <1>2, <2>1, <2>2, FreeMove
  <1> QED BY <1>3 DEF TypeOK, WorkerType, Loop

LEMMA ExitStep ==
    ASSUME IInv, NEW w \in Workers, Exit(w) \/ Tick(w)
    PROVE  IInv'
  <1> USE BatchAssumption DEF IInv
  <1>1. PICK a \in {"exit", "lock"} : worker' = [worker EXCEPT ![w].at = a]
    BY DEF Exit, Tick, Goes
  <1> DEFINE x == [worker[w] EXCEPT !.at = a]
  <1>2. x \in WorkerType /\ x.at = a /\ x.msg = worker[w].msg
    BY TypesNamed DEF TypeOK, WorkerType
  <1>3. worker' = [worker EXCEPT ![w] = x]
    BY <1>1, TypesNamed
  <1> HIDE DEF x
  <1>4. /\ worker' \in [Workers -> WorkerType]
        /\ BatchUnderLock' /\ OneMessage' /\ FirstSession' /\ TokensSuffice'
    <2>1. worker[w].at = "select" /\ UNCHANGED <<session, slots, lock, handlers>>
      BY DEF Exit, Tick, At
    <2>2. Cardinality(x.msg) <= 1
      BY <1>2 DEF OneMessage
    <2> QED BY <1>2, <1>3, <2>1, <2>2, FreeMove
  <1> QED BY <1>4 DEF TypeOK, WorkerType, Exit, Tick

LEMMA ReceiveStep ==
    ASSUME IInv, NEW w \in Workers, Receive(w)
    PROVE  IInv'
  <1> USE BatchAssumption DEF IInv
  <1> DEFINE x == [worker[w] EXCEPT !.at = "lock", !.msg = {Head(queue)}]
  <1>1. Head(queue) \in Items /\ Tail(queue) \in Seq(Items) /\ Len(Tail(queue)) <= QueueNum
    BY DEF TypeOK, Receive
  <1>2. x \in WorkerType /\ x.at = "lock" /\ x.msg = {Head(queue)}
    BY <1>1, TypesNamed DEF TypeOK, WorkerType
  <1>3. worker' = [worker EXCEPT ![w] = x]
    BY TypesNamed DEF Receive
  <1> HIDE DEF x
  <1>4. /\ worker' \in [Workers -> WorkerType]
        /\ BatchUnderLock' /\ OneMessage' /\ FirstSession' /\ TokensSuffice'
    <2>1. worker[w].at = "select" /\ UNCHANGED <<session, slots, lock, handlers>>
      BY DEF Receive, At
    <2>2. Cardinality(x.msg) <= 1
      <3>1. Cardinality({Head(queue)}) = 1
        BY FS_Singleton
      <3> QED BY <1>2, <3>1
    <2> QED BY <1>2, <1>3, <2>1, <2>2, FreeMove
  <1> QED BY <1>1, <1>4 DEF TypeOK, WorkerType, Receive
-----------------------------------------------------------------------------
(* Under the lock. *)
LEMMA LockStep ==
    ASSUME IInv, NEW w \in Workers, Process(w) \/ FlushQuiet(w)
    PROVE  IInv'
  <1> USE BatchAssumption DEF IInv
  <1>1. /\ lock = NoOne /\ worker[w].at = "lock"
        /\ UNCHANGED <<sent, queue, service, session, slots, fresh, handlers, handled,
                       dropped>>
    BY DEF Process, FlushQuiet, At
  <1>2. session # 0
    BY <1>1 DEF FirstSession
  <1>3. /\ worker[w].msg \subseteq Items /\ IsFiniteSet(worker[w].msg)
        /\ Cardinality(worker[w].msg) \in 0..1 /\ IsFiniteSet(cache)
        /\ Cardinality(cache) \in 0..CacheNum /\ cache \subseteq Items
    <2>1. worker[w].msg \subseteq Items
      BY TypesNamed DEF WorkerType
    <2>2. cache \subseteq Items /\ Cardinality(cache) <= CacheNum
      BY DEF TypeOK
    <2>3. Cardinality(worker[w].msg) <= 1
      BY DEF OneMessage
    <2>4. IsFiniteSet(worker[w].msg) /\ Cardinality(worker[w].msg) \in Nat
      BY <2>1, ItemsFinite
    <2>5. IsFiniteSet(cache) /\ Cardinality(cache) \in Nat
      BY <2>2, ItemsFinite
    <2> QED BY <2>1, <2>2, <2>3, <2>4, <2>5
  <1>4. IsFiniteSet({}) /\ Cardinality({}) = 0
    BY FS_EmptySet
  <1>5. PICK x \in WorkerType :
           /\ worker' = [worker EXCEPT ![w] = x]
           /\ Cardinality(x.msg) <= 1
           /\ \/ x.at = "loop" /\ lock' = lock
              \/ x.at = "flush" /\ lock' = w
           /\ cache' \subseteq Items /\ Cardinality(cache') <= CacheNum
    <2> DEFINE Back(m) == [worker[w] EXCEPT !.at = "loop", !.msg = m]
               Made(b) == [worker[w] EXCEPT !.at = "flush", !.msg = {}, !.batch = b]
    <2>1. /\ Back({}) \in WorkerType /\ Back({}).at = "loop" /\ Back({}).msg = {}
          /\ [worker[w] EXCEPT !.at = "loop"] \in WorkerType
          /\ [worker[w] EXCEPT !.at = "loop"].at = "loop"
          /\ [worker[w] EXCEPT !.at = "loop"].msg = worker[w].msg
      BY TypesNamed DEF WorkerType
    <2>2. \A b \in SUBSET Items :
             Made(b) \in WorkerType /\ Made(b).at = "flush" /\ Made(b).msg = {}
      BY TypesNamed DEF WorkerType
    <2>3. CASE /\ Process(w) /\ Cardinality(cache) < CacheNum
               /\ cache' = cache \cup worker[w].msg /\ UNCHANGED lock
               /\ worker' = [worker EXCEPT ![w].at = "loop", ![w].msg = {}]
      <3>1. worker' = [worker EXCEPT ![w] = Back({})]
        BY <2>3, TypesNamed
      <3>2. Cardinality(cache') <= Cardinality(cache) + 1
        <4>1. Cardinality(cache') = Cardinality(cache) + Cardinality(worker[w].msg)
                                      - Cardinality(cache \cap worker[w].msg)
          BY <1>3, <2>3, FS_Union
        <4>2. Cardinality(cache \cap worker[w].msg) \in Nat
          BY <1>3, ItemsFinite
        <4> QED BY <1>3, <4>1, <4>2
      <3>3. Cardinality(Back({}).msg) = 0
        BY <1>4, <2>1, Zenon
      <3>4. Cardinality(cache') <= CacheNum /\ cache' \subseteq Items
        <4>1. Cardinality(cache') \in Nat
          BY <1>3, <2>3, ItemsFinite
        <4> QED BY <1>3, <2>3, <3>2, <4>1
      <3> HIDE DEF Back, IInv
      <3>5. Back({}) \in WorkerType
        BY <2>1
      <3>6. Back({}).at = "loop" /\ lock' = lock
        BY <2>1, <2>3
      <3> WITNESS Back({}) \in WorkerType
      <3> QED BY <3>1, <3>3, <3>4, <3>5, <3>6
    <2>4. CASE \E b \in SUBSET Items : MakesBatch(w, b)
      <3>1. PICK b \in SUBSET Items : MakesBatch(w, b)
        BY <2>4
      <3>2. worker' = [worker EXCEPT ![w] = Made(b)]
        BY <3>1, TypesNamed DEF MakesBatch
      <3>3. Cardinality(Made(b).msg) = 0
        BY <1>4, <2>2, Zenon
      <3>4. cache' \subseteq Items /\ Cardinality(cache') = 0
        BY <1>4, <3>1, Zenon DEF MakesBatch
      <3>5. lock' = w
        BY <3>1 DEF MakesBatch
      <3> HIDE DEF Made, IInv
      <3>6. Made(b) \in WorkerType
        BY <2>2
      <3> WITNESS Made(b) \in WorkerType
      <3> QED BY <2>2, <3>2, <3>3, <3>4, <3>5
    <2>5. CASE Goes(w, "loop") /\ UNCHANGED <<cache, lock>>
      <3>1. worker' = [worker EXCEPT ![w] = [worker[w] EXCEPT !.at = "loop"]]
        BY <2>5, TypesNamed DEF Goes
      <3>2. [worker[w] EXCEPT !.at = "loop"] \in WorkerType
        BY <2>1
      <3> WITNESS [worker[w] EXCEPT !.at = "loop"] \in WorkerType
      <3> QED BY <1>3, <2>1, <2>5, <3>1
    <2>6. CASE Process(w)
      BY <1>3, <2>3, <2>4, <2>6 DEF Process
    <2>7. CASE FlushQuiet(w)
      BY <1>3, <2>4, <2>5, <2>7 DEF FlushQuiet
    <2> QED BY <2>6, <2>7
  <1>6. worker' \in [Workers -> WorkerType]
    BY <1>5, TypesNamed
  <1>7. \A v \in Workers : worker'[v] = IF v = w THEN x ELSE worker[v]
    BY <1>5, TypesNamed
  <1>8. TypeOK'
    BY <1>1, <1>5, <1>6 DEF TypeOK, WorkerType
  <1>9. \A v \in Workers : worker[v].at \notin {"flush", "blocked", "launch"}
    BY <1>1, NobodyWorks DEF BatchUnderLock
  <1>10. BatchUnderLock' /\ OneMessage'
    <2> HIDE DEF IInv
    <2>1. BatchUnderLock'
      BY <1>5, <1>7, <1>9 DEF BatchUnderLock
    <2>2. \A v \in Workers : Cardinality(worker[v].msg) <= 1
      BY DEF OneMessage, IInv
    <2> QED BY <1>5, <1>7, <2>1, <2>2 DEF OneMessage
  <1>11. Launching = 0 /\ Launching' = 0
    BY <1>1, <1>5, <1>7, NobodyWorks DEF Launching
  <1>12. FirstSession'
    BY <1>1, <1>2, <1>5, <1>7 DEF FirstSession
  <1>13. TokensSuffice'
    BY <1>1, <1>11 DEF TokensSuffice
  <1> QED BY <1>8, <1>10, <1>12, <1>13

LEMMA WaitForSlotStep ==
    ASSUME IInv, NEW w \in Workers, WaitForSlot(w)
    PROVE  IInv'
  <1> USE BatchAssumption DEF IInv
  <1>1. /\ worker[w].at = "flush" /\ lock = w
        /\ UNCHANGED <<sent, queue, service, session, cache, slots, fresh, lock,
                       handlers, handled, dropped>>
    BY DEF WaitForSlot, At, BatchUnderLock
  <1>2. \A v \in Workers :
           /\ v # w => worker'[v] = worker[v]
           /\ v = w => /\ worker'[v].at = "blocked" /\ worker'[v].chan = session
                       /\ worker'[v].msg = worker[v].msg
    BY TypesNamed DEF WaitForSlot, WorkerType
  <1>3. worker' \in [Workers -> WorkerType]
    BY ZenonT(40), TypesNamed DEF WaitForSlot, TypeOK, WorkerType
  <1>4. TypeOK'
    BY <1>1, <1>3 DEF TypeOK, WorkerType
  <1>5. BatchUnderLock' /\ OneMessage'
    BY <1>1, <1>2 DEF BatchUnderLock, OneMessage
  <1>6. FirstSession'
    BY <1>1, <1>2 DEF FirstSession
  <1>7. Launching = 0 /\ Launching' = 0
    BY <1>1, <1>2 DEF Launching
  <1> QED BY <1>1, <1>4, <1>5, <1>6, <1>7 DEF TokensSuffice

LEMMA TakeSlotStep ==
    ASSUME IInv, NEW w \in Workers, TakeSlot(w)
    PROVE  IInv'
  <1> USE BatchAssumption DEF IInv
  <1>1. /\ worker[w].at = "blocked" /\ lock = w
        /\ UNCHANGED <<sent, queue, service, session, cache, fresh, lock,
                       handlers, handled, dropped>>
    BY DEF TakeSlot, At, BatchUnderLock
  <1>2. \A v \in Workers :
           /\ v # w => worker'[v] = worker[v]
           /\ v = w => worker'[v].at = "launch" /\ worker'[v].msg = worker[v].msg
    BY TypesNamed DEF TakeSlot, Goes, WorkerType
  <1>3. worker' \in [Workers -> WorkerType]
    BY TypesNamed DEF TakeSlot, Goes, WorkerType
  <1>4. slots' \in [Sessions -> 0..MaxThread]
    <2>1. slots \in [Sessions -> 0..MaxThread]
      BY DEF TypeOK
    <2>2. \A e \in Sessions : slots'[e] \in 0..MaxThread
      BY <2>1 DEF TakeSlot
    <2> QED BY <2>1, <2>2 DEF TakeSlot
  <1>5. TypeOK'
    BY <1>1, <1>3, <1>4 DEF TypeOK, WorkerType
  <1>6. BatchUnderLock' /\ OneMessage'
    BY <1>1, <1>2 DEF BatchUnderLock, OneMessage
  <1>7. FirstSession'
    BY <1>1, <1>2 DEF FirstSession
  <1>8. Launching = 0 /\ Launching' = 1
    BY <1>1, <1>2 DEF Launching
  <1>9. TokensSuffice'
    <2>1. CASE session = 1
      <3>1. worker[w].chan = 1 /\ 1 \in Sessions
        BY <1>1, <2>1 DEF FirstSession, TypeOK, Sessions
      <3>2. slots[1] \in Nat /\ slots'[1] = slots[1] + 1
        BY <3>1 DEF TypeOK, TakeSlot
      <3>3. Cardinality(handlers) \in Nat
        BY FS_CardinalityType DEF TokensSuffice
      <3> QED BY <1>1, <1>8, <2>1, <3>2, <3>3 DEF TokensSuffice
    <2>2. CASE session # 1
      BY <1>1, <2>2 DEF TokensSuffice
    <2> QED BY <2>1, <2>2
  <1> QED BY <1>5, <1>6, <1>7, <1>9

LEMMA LaunchStep ==
    ASSUME IInv, NEW w \in Workers, Launch(w)
    PROVE  IInv'
  <1> USE BatchAssumption DEF IInv
  <1> DEFINE h == [batch |-> worker[w].batch, at |-> "run", chan |-> 0]
  <1>1. /\ worker[w].at = "launch" /\ lock = w /\ lock' = NoOne /\ fresh' = TRUE
        /\ handlers' = handlers \cup {h}
        /\ UNCHANGED <<sent, queue, service, session, cache, slots, handled, dropped>>
    BY DEF Launch, At, BatchUnderLock
  <1>2. \A v \in Workers :
           /\ v # w => worker'[v] = worker[v]
           /\ v = w => worker'[v].at = "loop" /\ worker'[v].msg = worker[v].msg
    BY TypesNamed DEF Launch, WorkerType
  <1>3. worker' \in [Workers -> WorkerType]
    <2>1. worker[w] \in WorkerType /\ 0 \in 0..MaxStarts
      BY TypesNamed
    <2>2. [worker[w] EXCEPT !.at = "loop", !.batch = {}, !.chan = 0] \in WorkerType
      BY <2>1 DEF WorkerType
    <2> QED BY <2>2, TypesNamed DEF Launch
  <1>4. h \in HandlerType /\ h.at = "run"
    BY TypesNamed DEF WorkerType, HandlerType
  <1> HIDE DEF h
  <1>5. TypeOK'
    <2>1. handlers' \subseteq HandlerType
      BY <1>1, <1>4, TypesNamed
    <2> QED BY <1>1, <1>3, <2>1 DEF TypeOK, WorkerType, HandlerType
  <1>6. BatchUnderLock' /\ OneMessage'
    BY <1>1, <1>2 DEF BatchUnderLock, OneMessage
  <1>7. FirstSession'
    BY <1>1, <1>2, <1>4 DEF FirstSession
  <1>8. Launching = 1 /\ Launching' = 0
    BY <1>1, NobodyWorks DEF Launching
  <1>9. TokensSuffice'
    <2>1. IsFiniteSet(handlers) /\ Cardinality(handlers) \in Nat
      BY FS_CardinalityType DEF TokensSuffice
    <2>2. /\ IsFiniteSet(handlers')
          /\ Cardinality(handlers') \in {Cardinality(handlers), Cardinality(handlers) + 1}
      BY <1>1, <2>1, FS_AddElement
    <2>3. session = 1 => slots[1] \in Nat
      BY DEF TypeOK, Sessions
    <2> QED BY <1>1, <1>8, <2>1, <2>2, <2>3 DEF TokensSuffice
  <1> QED BY <1>5, <1>6, <1>7, <1>9
-----------------------------------------------------------------------------
(* The handlers. *)
LEMMA HandlerStep ==
    ASSUME IInv, NEW h \in handlers, Return(h) \/ WaitToRelease(h)
    PROVE  IInv'
  <1> USE BatchAssumption DEF IInv
  <1>1. UNCHANGED <<sent, queue, service, session, cache, slots, fresh, worker, lock,
                    dropped>>
    BY DEF Return, WaitToRelease
  <1>2. PICK g \in HandlerType :
           /\ handlers' = (handlers \ {h}) \cup {g}
           /\ g.at = "release" => g.chan = session
    <2>1. h \in HandlerType /\ session \in 0..MaxStarts /\ 0 \in 0..MaxStarts
      BY TypesNamed DEF TypeOK
    <2>2. \A a \in {"done", "release"}, e \in 0..MaxStarts :
             LET g == [h EXCEPT !.at = a, !.chan = e]
             IN  g \in HandlerType /\ g.at = a /\ g.chan = e
      BY <2>1 DEF HandlerType
    <2>3. CASE Return(h)
      BY <2>1, <2>2, <2>3 DEF Return, Becomes
    <2>4. CASE WaitToRelease(h)
      BY <2>1, <2>2, <2>4 DEF WaitToRelease, Becomes
    <2> QED BY <2>3, <2>4
  <1>3. TypeOK'
    <2>1. handlers' \subseteq HandlerType
      BY <1>2, TypesNamed
    <2>2. handled' \subseteq Items
      BY TypesNamed DEF TypeOK, HandlerType, Return, WaitToRelease
    <2> QED BY <1>1, <2>1, <2>2 DEF TypeOK, HandlerType
  <1>4. BatchUnderLock' /\ OneMessage'
    BY <1>1 DEF BatchUnderLock, OneMessage
  <1>5. FirstSession'
    BY <1>1, <1>2 DEF FirstSession
  <1>6. TokensSuffice'
    <2>1. IsFiniteSet(handlers) /\ Cardinality(handlers) \in Nat
      BY FS_CardinalityType DEF TokensSuffice
    <2>2. /\ IsFiniteSet(handlers \ {h})
          /\ Cardinality(handlers \ {h}) = Cardinality(handlers) - 1
      BY <2>1, FS_RemoveElement
    <2>3. /\ IsFiniteSet(handlers') /\ Cardinality(handlers') \in Nat
          /\ Cardinality(handlers') <= Cardinality(handlers)
      <3>1. IsFiniteSet(handlers')
        BY <1>2, <2>2, FS_AddElement
      <3>2. Cardinality(handlers') \in {Cardinality(handlers \ {h}),
                                        Cardinality(handlers \ {h}) + 1}
        BY <1>2, <2>2, FS_AddElement
      <3>3. Cardinality(handlers') \in Nat
        BY <3>1, FS_CardinalityType
      <3> QED BY <2>1, <2>2, <3>1, <3>2, <3>3
    <2>4. Launching' = Launching /\ Launching \in {0, 1}
      BY <1>1 DEF Launching
    <2>5. session = 1 => slots[1] \in Nat
      BY DEF TypeOK, Sessions
    <2> QED BY <1>1, <2>1, <2>3, <2>4, <2>5 DEF TokensSuffice
  <1> QED BY <1>3, <1>4, <1>5, <1>6

LEMMA ReleaseStep ==
    ASSUME IInv, NEW h \in handlers, Release(h)
    PROVE  IInv'
  <1> USE BatchAssumption DEF IInv
  <1>1. /\ h.at = "release" /\ slots[h.chan] > 0 /\ handlers' = handlers \ {h}
        /\ UNCHANGED <<sent, queue, service, session, cache, fresh, worker, lock,
                       handled, dropped>>
    BY DEF Release
  <1>2. slots' \in [Sessions -> 0..MaxThread]
    <2>1. slots \in [Sessions -> 0..MaxThread]
      BY DEF TypeOK
    <2>2. \A e \in Sessions : slots'[e] \in 0..MaxThread
      BY <2>1 DEF Release
    <2> QED BY <2>1, <2>2 DEF Release
  <1>3. TypeOK'
    BY <1>1, <1>2 DEF TypeOK
  <1>4. BatchUnderLock' /\ OneMessage'
    BY <1>1 DEF BatchUnderLock, OneMessage
  <1>5. FirstSession'
    BY <1>1 DEF FirstSession
  <1>6. TokensSuffice'
    <2>1. IsFiniteSet(handlers) /\ Cardinality(handlers) \in Nat
      BY FS_CardinalityType DEF TokensSuffice
    <2>2. IsFiniteSet(handlers') /\ Cardinality(handlers') = Cardinality(handlers) - 1
      BY <1>1, <2>1, FS_RemoveElement
    <2>3. Launching' = Launching /\ Launching \in {0, 1}
      BY <1>1 DEF Launching
    <2>4. session = 1 => slots[1] \in Nat /\ slots'[1] = slots[1] - 1
      <3> HAVE session = 1
      <3>1. h.chan = 1 /\ 1 \in Sessions
        BY <1>1 DEF FirstSession, TypeOK, Sessions
      <3> QED BY <3>1 DEF TypeOK, Release
    <2> QED BY <1>1, <2>1, <2>2, <2>3, <2>4 DEF TokensSuffice
  <1> QED BY <1>3, <1>4, <1>5, <1>6
-----------------------------------------------------------------------------
(* The whole invariant holds of every reachable state.                      *)
THEOREM Invariance == Spec => []IInv
<1>1. Init => IInv
  <2> SUFFICES ASSUME Init
               PROVE  IInv
    OBVIOUS
  <2>1. IsFiniteSet({}) /\ Cardinality({}) = 0
    BY FS_EmptySet
  <2>2. cache = {} /\ handlers = {} /\ \A w \in Workers : worker[w] = Unborn
    BY DEF Init
  <2>3. IsFiniteSet(handlers) /\ Cardinality(handlers) = 0 /\ Cardinality(cache) = 0
    BY <2>1, <2>2, Zenon
  <2>4. TypeOK
    <3>1. Unborn \in WorkerType
      BY BatchAssumption DEF Unborn, WorkerType
    <3>2. worker \in [Workers -> WorkerType]
      BY <3>1 DEF Init
    <3>3. queue \in Seq(Items) /\ Len(queue) = 0
      BY DEF Init
    <3>4. slots \in [Sessions -> 0..MaxThread]
      BY BatchAssumption DEF Init
    <3>5. /\ sent \in 0..MaxItems /\ session \in 0..MaxStarts /\ Len(queue) <= QueueNum
          /\ Cardinality(cache) <= CacheNum
      BY <2>3, <3>3, BatchAssumption DEF Init
    <3> QED BY <3>2, <3>3, <3>4, <3>5 DEF Init, TypeOK, WorkerType
  <2>5. \A w \in Workers : worker[w].at = "unborn" /\ worker[w].msg = {}
    BY <2>2 DEF Unborn
  <2>6. OneMessage
    <3> SUFFICES ASSUME NEW w \in Workers
                 PROVE  Cardinality(worker[w].msg) <= 1
      BY DEF OneMessage
    <3>1. Cardinality(worker[w].msg) = 0
      BY <2>1, <2>5, Zenon
    <3> QED BY <3>1
  <2> QED BY <2>3, <2>4, <2>5, <2>6
          DEF Init, IInv, BatchUnderLock, FirstSession, TokensSuffice
<1>2. IInv /\ [Next]_vars => IInv'
  <2> SUFFICES ASSUME IInv, [Next]_vars
               PROVE  IInv'
    OBVIOUS
  <2>1. CASE Next
    BY <2>1, ClientStep, StartStep, LoopStep, ExitStep, ReceiveStep, LockStep,
       WaitForSlotStep, TakeSlotStep, LaunchStep, HandlerStep, ReleaseStep
       DEF Next, Moves, Locks, HandlerMoves
  <2>2. CASE UNCHANGED vars
    BY <2>2 DEF vars, IInv, TypeOK, BatchUnderLock, OneMessage, FirstSession,
                TokensSuffice, Launching
  <2> QED BY <2>1, <2>2
<1> QED BY <1>1, <1>2, PTL DEF Spec

(* Every reachable state has the types of BatchProcessor.                   *)
THEOREM TypeCorrect == Spec => []TypeOK
<1>1. IInv => TypeOK
  BY DEF IInv
<1> QED BY <1>1, Invariance, PTL

(* In the first session batch_data.go:195-202 never has more than MaxThread *)
(* handlers at work, whatever the capacities and the number of items.       *)
THEOREM HandlersLimited == Spec => []HandlersWithinLimit
<1>1. IInv => HandlersWithinLimit
  <2> SUFFICES ASSUME IInv, session = 1
               PROVE  Cardinality(Running) <= MaxThread
    BY DEF HandlersWithinLimit
  <2>1. IsFiniteSet(handlers) /\ Cardinality(handlers) \in Nat
    BY FS_CardinalityType DEF IInv, TokensSuffice
  <2>2. Cardinality(Running) <= Cardinality(handlers) /\ Cardinality(Running) \in Nat
    <3>1. Running \in SUBSET handlers
      BY DEF Running
    <3> QED BY <2>1, <3>1, FS_Subset, FS_CardinalityType
  <2>3. Launching \in {0, 1} /\ slots[1] \in 0..MaxThread
    BY DEF IInv, TypeOK, Sessions, Launching
  <2> QED BY BatchAssumption, <2>1, <2>2, <2>3 DEF IInv, TokensSuffice
<1> QED BY <1>1, Invariance, PTL
-----------------------------------------------------------------------------
(* Where a worker stands says what it has in hand: a message between the    *)
(* queue and the cache, a batch between the cache and the handler.  The     *)
(* workers of a session that Start has not begun have nothing.              *)
Hands ==
    \A w \in Workers :
        /\ worker[w].at # "lock" \/ w[1] = "ticker" => worker[w].msg = {}
        /\ worker[w].at \notin {"flush", "blocked", "launch"} => worker[w].batch = {}
        /\ w[2] > session => worker[w].at = "unborn"

(* The items of the seven places are those sent, and no item is in two.     *)
Parted(Q, C, T, B, H, D, X, S) ==
    /\ Q \cup C \cup T \cup B \cup H \cup D \cup X = S
    /\ /\ Q \cap C = {} /\ Q \cap T = {} /\ Q \cap B = {} /\ Q \cap H = {}
       /\ Q \cap D = {} /\ Q \cap X = {}
    /\ C \cap T = {} /\ C \cap B = {} /\ C \cap H = {} /\ C \cap D = {} /\ C \cap X = {}
    /\ T \cap B = {} /\ T \cap H = {} /\ T \cap D = {} /\ T \cap X = {}
    /\ B \cap H = {} /\ B \cap D = {} /\ B \cap X = {}
    /\ H \cap D = {} /\ H \cap X = {} /\ D \cap X = {}

QueuedOnce == \A i, j \in DOMAIN queue : i # j => queue[i] # queue[j]
HeldOnce ==
    \A v, w \in Workers : v # w =>
        /\ worker[v].msg \cap worker[w].msg = {}
        /\ worker[v].batch \cap worker[w].batch = {}
HandledOnce == \A g, h \in Running : g # h => g.batch \cap h.batch = {}

ItemInv ==
    /\ Hands /\ QueuedOnce /\ HeldOnce /\ HandledOnce
    /\ Parted(Queued, cache, Taken, Batched, InHandlers, handled, dropped, 1..sent)

LEMMA ItemInvSuffices ==
    ASSUME ItemInv
    PROVE  ItemsAccounted
  <1> DEFINE places == <<Queued, cache, Taken, Batched, InHandlers, handled, dropped>>
  <1>1. /\ places[1] = Queued /\ places[2] = cache /\ places[3] = Taken
        /\ places[4] = Batched /\ places[5] = InHandlers /\ places[6] = handled
        /\ places[7] = dropped
    OBVIOUS
  <1>2. \A p : p \in 1..7 <=> p \in {1, 2, 3, 4, 5, 6, 7}
    OBVIOUS
  <1>3. Parted(places[1], places[2], places[3], places[4], places[5], places[6],
               places[7], 1..sent)
    BY <1>1 DEF ItemInv
  <1> HIDE DEF places
  <1>4. UNION {places[p] : p \in 1..7} = 1..sent
    <2>1. UNION {places[p] : p \in 1..7}
            = places[1] \cup places[2] \cup places[3] \cup places[4] \cup places[5]
                \cup places[6] \cup places[7]
      BY <1>2
    <2> QED BY <1>3, <2>1 DEF Parted
  <1>5. \A p, q \in {1, 2, 3, 4, 5, 6, 7} : p # q => places[p] \cap places[q] = {}
    BY <1>3 DEF Parted
  <1>6. \A p, q \in 1..7 : p # q => places[p] \cap places[q] = {}
    BY <1>2, <1>5
  <1> QED BY <1>4, <1>6 DEF ItemInv, ItemsAccounted, places, QueuedOnce, HeldOnce,
             HandledOnce
-----------------------------------------------------------------------------
(* What the step of one worker does to the places.                          *)
LEMMA WorkerMoves ==
    ASSUME IInv, HeldOnce, NEW w \in Workers, NEW x \in WorkerType,
           worker' = [worker EXCEPT ![w] = x]
    PROVE  /\ \A v \in Workers : worker'[v] = IF v = w THEN x ELSE worker[v]
           /\ Taken' = (Taken \ worker[w].msg) \cup x.msg
           /\ Batched' = (Batched \ worker[w].batch) \cup x.batch
           /\ x.msg \cap Taken \subseteq worker[w].msg
                /\ x.batch \cap Batched \subseteq worker[w].batch => HeldOnce'
  <1>1. \A v \in Workers : worker'[v] = IF v = w THEN x ELSE worker[v]
    BY TypesNamed DEF IInv
  <1>2. Taken' = (Taken \ worker[w].msg) \cup x.msg
    BY <1>1 DEF Taken, HeldOnce
  <1>3. Batched' = (Batched \ worker[w].batch) \cup x.batch
    BY <1>1 DEF Batched, HeldOnce
  <1>4. ASSUME x.msg \cap Taken \subseteq worker[w].msg,
               x.batch \cap Batched \subseteq worker[w].batch
        PROVE  HeldOnce'
    <2>1. \A v \in Workers : worker[v].msg \subseteq Taken /\ worker[v].batch \subseteq Batched
      BY DEF Taken, Batched
    <2>2. \A v \in Workers : v # w => x.msg \cap worker[v].msg = {}
                                      /\ x.batch \cap worker[v].batch = {}
      BY <1>4, <2>1 DEF HeldOnce
    <2> QED BY <1>1, <2>2 DEF HeldOnce
  <1> QED BY <1>1, <1>2, <1>3, <1>4

LEMMA HandsOnly ==
    ASSUME Hands, NEW w \in Workers
    PROVE  worker[w].msg \subseteq Taken /\ worker[w].batch \subseteq Batched
  BY DEF Taken, Batched

LEMMA ItemsSend ==
    ASSUME IInv, ItemInv, Send
    PROVE  ItemInv'
  <1> DEFINE n == sent + 1
  <1>1. /\ sent \in Nat /\ queue \in Seq(Items) /\ sent' = n /\ queue' = Append(queue, n)
        /\ UNCHANGED <<session, cache, worker, handlers, handled, dropped>>
    BY BatchAssumption DEF IInv, TypeOK, Send
  <1>2. /\ DOMAIN queue' = DOMAIN queue \cup {Len(queue) + 1}
        /\ Len(queue) + 1 \notin DOMAIN queue
        /\ queue'[Len(queue) + 1] = n /\ \A i \in DOMAIN queue : queue'[i] = queue[i]
    BY <1>1
  <1>3. Queued' = Queued \cup {n}
    BY <1>2 DEF Queued
  <1>4. (1..sent)' = 1..sent \cup {n} /\ n \notin 1..sent
    BY <1>1
  <1>5. n \notin Queued
    BY <1>4 DEF ItemInv, Parted
  <1>6. QueuedOnce'
    BY <1>2, <1>5 DEF ItemInv, QueuedOnce, Queued
  <1>7. Hands' /\ HeldOnce' /\ HandledOnce'
    BY <1>1 DEF ItemInv, Hands, HeldOnce, HandledOnce, Running
  <1>8. UNCHANGED <<cache, Taken, Batched, InHandlers, handled, dropped>>
    BY <1>1 DEF Taken, Batched, InHandlers, Running
  <1> HIDE DEF n
  <1>9. Parted(Queued, cache, Taken, Batched, InHandlers, handled, dropped, 1..sent)'
    <2>1. Parted(Queued, cache, Taken, Batched, InHandlers, handled, dropped, 1..sent)
      BY DEF ItemInv
    <2>2. Parted(Queued', cache', Taken', Batched', InHandlers', handled', dropped', (1..sent)')
      BY <1>3, <1>4, <1>8, <2>1 DEF Parted
    <2> QED BY <2>2 DEF Parted
  <1> QED BY <1>6, <1>7, <1>9 DEF ItemInv

LEMMA ItemsStart ==
    ASSUME IInv, ItemInv, Start
    PROVE  ItemInv'
  <1>1. /\ session \in Nat /\ session' = session + 1 /\ cache' = {}
        /\ dropped' = dropped \cup cache
        /\ UNCHANGED <<sent, queue, handlers, handled>>
    BY BatchAssumption DEF IInv, TypeOK, Start
  <1>2. ASSUME NEW w \in Workers
        PROVE  /\ w[2] \in Nat
               /\ w[2] = session' => worker'[w].at = "loop"
               /\ w[2] # session' => worker'[w] = worker[w]
               /\ worker'[w].msg = worker[w].msg /\ worker'[w].batch = worker[w].batch
    <2>1. w[2] \in Nat
      BY BatchAssumption DEF Workers, Sessions
    <2>2. CASE w[2] = session'
      <3>1. worker'[w].at = "loop" /\ worker'[w].msg = {} /\ worker'[w].batch = {}
        BY <1>1, <2>2 DEF Start, Unborn
      <3>2. worker[w].msg = {} /\ worker[w].batch = {}
        BY <1>1, <2>2 DEF ItemInv, Hands
      <3> QED BY <2>1, <2>2, <3>1, <3>2
    <2>3. CASE w[2] # session'
      BY <1>1, <2>1, <2>3 DEF Start
    <2> QED BY <2>2, <2>3
  <1>3. Hands'
    BY <1>1, <1>2 DEF ItemInv, Hands
  <1>4. HeldOnce'
    BY <1>2 DEF ItemInv, HeldOnce
  <1>5. QueuedOnce' /\ HandledOnce'
    BY <1>1 DEF ItemInv, QueuedOnce, HandledOnce, Running
  <1>6. Taken' = Taken /\ Batched' = Batched
    BY <1>2 DEF Taken, Batched
  <1>7. UNCHANGED <<Queued, InHandlers, handled>> /\ (1..sent)' = 1..sent
    BY <1>1 DEF Queued, InHandlers, Running
  <1>8. Parted(Queued, cache, Taken, Batched, InHandlers, handled, dropped, 1..sent)'
    <2>1. Parted(Queued, cache, Taken, Batched, InHandlers, handled, dropped, 1..sent)
      BY DEF ItemInv
    <2>2. Parted(Queued', cache', Taken', Batched', InHandlers', handled', dropped', (1..sent)')
      BY <1>1, <1>6, <1>7, <2>1 DEF Parted
    <2> QED BY <2>2 DEF Parted
  <1> QED BY <1>3, <1>4, <1>5, <1>8 DEF ItemInv

(* A worker goes on with what it has. *)
LEMMA ItemsMove ==
    ASSUME IInv, ItemInv, NEW w \in Workers,
           \/ Loop(w) \/ Exit(w) \/ Tick(w) \/ WaitForSlot(w) \/ TakeSlot(w)
           \/ FlushQuiet(w) /\ UNCHANGED cache /\ Goes(w, "loop")
    PROVE  ItemInv'
  <1>1. UNCHANGED <<sent, queue, session, cache, handlers, handled, dropped>>
    BY DEF Loop, Exit, Tick, WaitForSlot, TakeSlot, FlushQuiet
  <1>2. PICK x \in WorkerType :
           /\ worker' = [worker EXCEPT ![w] = x]
           /\ x.msg = worker[w].msg /\ x.batch = worker[w].batch
           /\ x.at # "unborn" /\ worker[w].at # "unborn"
           /\ x.at = "lock" => w[1] = "ticker"
           /\ worker[w].at = "lock" => w[1] = "ticker"
           /\ \/ x.at \in {"flush", "blocked", "launch"}
              \/ worker[w].at \notin {"flush", "blocked", "launch"}
    <2>1. worker[w] \in WorkerType /\ session \in 0..MaxStarts
      BY TypesNamed DEF IInv, TypeOK
    <2>2. CASE Loop(w)
      <3> DEFINE x == [worker[w] EXCEPT !.at = "select", !.ctx = session]
      <3>1. x \in WorkerType /\ x.msg = worker[w].msg /\ x.batch = worker[w].batch
            /\ x.at = "select"
        BY <2>1 DEF WorkerType
      <3>2. worker' = [worker EXCEPT ![w] = x]
        BY <2>2, TypesNamed DEF IInv, Loop
      <3> HIDE DEF x
      <3> QED BY <2>2, <3>1, <3>2 DEF Loop, At
    <2>3. CASE WaitForSlot(w)
      <3> DEFINE x == [worker[w] EXCEPT !.at = "blocked", !.chan = session]
      <3>1. x \in WorkerType /\ x.msg = worker[w].msg /\ x.batch = worker[w].batch
            /\ x.at = "blocked"
        BY <2>1 DEF WorkerType
      <3>2. worker' = [worker EXCEPT ![w] = x]
        BY <2>3, TypesNamed DEF IInv, WaitForSlot
      <3> HIDE DEF x
      <3> QED BY <2>3, <3>1, <3>2 DEF WaitForSlot, At
    <2>4. CASE ~ Loop(w) /\ ~ WaitForSlot(w)
      <3>1. PICK a \in {"exit", "lock", "launch", "loop"} :
               /\ worker' = [worker EXCEPT ![w].at = a]
               /\ worker[w].at \in {"select", "blocked", "lock"}
               /\ a = "lock" => w[1] = "ticker"
               /\ worker[w].at = "lock" => w[1] = "ticker"
               /\ worker[w].at = "blocked" => a = "launch"
        BY <2>4 DEF Exit, Tick, TakeSlot, FlushQuiet, Goes, At
      <3> DEFINE x == [worker[w] EXCEPT !.at = a]
      <3>2. x \in WorkerType /\ x.msg = worker[w].msg /\ x.batch = worker[w].batch
            /\ x.at = a
        BY <2>1 DEF WorkerType
      <3>3. worker' = [worker EXCEPT ![w] = x]
        BY <3>1
      <3> HIDE DEF x
      <3> QED BY <3>1, <3>2, <3>3
    <2> QED BY <2>2, <2>3, <2>4
  <1>3. /\ \A v \in Workers : worker'[v] = IF v = w THEN x ELSE worker[v]
        /\ Taken' = (Taken \ worker[w].msg) \cup x.msg
        /\ Batched' = (Batched \ worker[w].batch) \cup x.batch
        /\ HeldOnce'
    BY <1>2, WorkerMoves DEF ItemInv
  <1>4. Taken' = Taken /\ Batched' = Batched
    BY <1>2, <1>3, HandsOnly DEF ItemInv
  <1>5. Hands'
    BY <1>1, <1>2, <1>3 DEF ItemInv, Hands
  <1>6. UNCHANGED <<Queued, InHandlers>> /\ QueuedOnce' /\ HandledOnce'
    BY <1>1 DEF ItemInv, Queued, InHandlers, QueuedOnce, HandledOnce, Running
  <1>7. Parted(Queued, cache, Taken, Batched, InHandlers, handled, dropped, 1..sent)'
    BY <1>1, <1>4, <1>6 DEF ItemInv, Parted
  <1> QED BY <1>3, <1>5, <1>6, <1>7 DEF ItemInv

LEMMA ItemsReceive ==
    ASSUME IInv, ItemInv, NEW w \in Workers, Receive(w)
    PROVE  ItemInv'
  <1> DEFINE m == Head(queue)
             x == [worker[w] EXCEPT !.at = "lock", !.msg = {m}]
  <1>1. /\ queue \in Seq(Items) /\ queue # <<>> /\ queue' = Tail(queue)
        /\ w[1] = "dispatcher" /\ worker[w].at = "select"
        /\ UNCHANGED <<sent, session, cache, handlers, handled, dropped>>
    BY DEF IInv, TypeOK, Receive, At
  <1>2. /\ Len(queue) \in Nat \ {0} /\ DOMAIN queue = 1..Len(queue)
        /\ DOMAIN queue' = 1..(Len(queue) - 1)
        /\ \A i \in DOMAIN queue' : queue'[i] = queue[i + 1]
        /\ m = queue[1] /\ m \in Items
    BY <1>1
  <1>3. QueuedOnce'
    BY <1>2 DEF ItemInv, QueuedOnce
  <1>4. Queued' = Queued \ {m} /\ m \in Queued
    <2>1. \A i \in DOMAIN queue : i # 1 => i - 1 \in DOMAIN queue' /\ (i - 1) + 1 = i
      BY <1>2
    <2>2. \A i \in DOMAIN queue' : i + 1 \in DOMAIN queue /\ i + 1 # 1
      BY <1>2
    <2>3. 1 \in DOMAIN queue
      BY <1>2
    <2>4. \A i \in DOMAIN queue' : queue'[i] \in Queued /\ queue'[i] # m
      BY <1>2, <2>2, <2>3 DEF ItemInv, QueuedOnce, Queued
    <2>5. \A i \in DOMAIN queue : queue[i] # m => queue[i] \in Queued'
      BY <1>2, <2>1 DEF Queued
    <2>6. m \in Queued /\ Queued' \subseteq Queued \ {m}
      BY <1>2, <2>3, <2>4 DEF Queued
    <2>7. Queued \ {m} \subseteq Queued'
      BY <2>5 DEF Queued
    <2> QED BY <2>6, <2>7
  <1>5. x \in WorkerType /\ x.at = "lock" /\ x.msg = {m} /\ x.batch = worker[w].batch
    BY ZenonT(40), <1>2, TypesNamed DEF IInv, WorkerType
  <1>6. worker' = [worker EXCEPT ![w] = x]
    BY TypesNamed DEF IInv, Receive
  <1>7. worker[w].msg = {} /\ worker[w].batch = {}
    BY <1>1 DEF ItemInv, Hands
  <1> HIDE DEF m, x
  <1>8. {m} \cap Taken = {}
    BY <1>4 DEF ItemInv, Parted
  <1>9. /\ \A v \in Workers : worker'[v] = IF v = w THEN x ELSE worker[v]
        /\ Taken' = Taken \cup {m} /\ Batched' = Batched /\ HeldOnce'
    <2>1. HeldOnce
      BY DEF ItemInv
    <2>2. /\ \A v \in Workers : worker'[v] = IF v = w THEN x ELSE worker[v]
          /\ Taken' = (Taken \ worker[w].msg) \cup x.msg
          /\ Batched' = (Batched \ worker[w].batch) \cup x.batch
          /\ x.msg \cap Taken \subseteq worker[w].msg
               /\ x.batch \cap Batched \subseteq worker[w].batch => HeldOnce'
      BY <1>5, <1>6, <1>7, <1>8, <2>1, WorkerMoves
    <2> QED BY <1>5, <1>6, <1>7, <1>8, <2>2
  <1>10. Hands'
    BY <1>1, <1>5, <1>7, <1>9 DEF ItemInv, Hands
  <1>11. UNCHANGED InHandlers /\ HandledOnce'
    BY <1>1 DEF ItemInv, InHandlers, HandledOnce, Running
  <1>12. Parted(Queued, cache, Taken, Batched, InHandlers, handled, dropped, 1..sent)'
    <2>1. Parted(Queued, cache, Taken, Batched, InHandlers, handled, dropped, 1..sent)
      BY DEF ItemInv
    <2> QED BY <1>1, <1>4, <1>9, <1>11, <2>1 DEF Parted
  <1> QED BY <1>3, <1>9, <1>10, <1>11, <1>12 DEF ItemInv

(* An item goes into the cache, or the cache into a batch. *)
LEMMA ItemsLock ==
    ASSUME IInv, ItemInv, NEW w \in Workers, Process(w) \/ FlushQuiet(w)
    PROVE  ItemInv'
  <1>1. /\ worker[w].at = "lock"
        /\ UNCHANGED <<sent, queue, session, handlers, handled, dropped>>
    BY DEF Process, FlushQuiet, At
  <1>2. /\ worker[w].batch = {}
        /\ w[1] = "ticker" => worker[w].msg = {}
        /\ worker[w].msg \subseteq Taken
    BY <1>1, HandsOnly DEF ItemInv, Hands
  <1>3. worker[w] \in WorkerType /\ cache \subseteq Items /\ worker[w].msg \subseteq Items
    BY TypesNamed DEF IInv, TypeOK, WorkerType
  <1>4. UNCHANGED <<Queued, InHandlers>> /\ QueuedOnce' /\ HandledOnce'
    BY <1>1 DEF ItemInv, Queued, InHandlers, QueuedOnce, HandledOnce, Running
  <1>5. Parted(Queued, cache, Taken, Batched, InHandlers, handled, dropped, 1..sent)
    BY DEF ItemInv
  <1>6. CASE FlushQuiet(w) /\ UNCHANGED cache /\ Goes(w, "loop")
    BY <1>6, ItemsMove
  <1>7. CASE /\ cache' = cache \cup worker[w].msg
             /\ worker' = [worker EXCEPT ![w].at = "loop", ![w].msg = {}]
    <2> DEFINE x == [worker[w] EXCEPT !.at = "loop", !.msg = {}]
    <2>1. x \in WorkerType /\ x.at = "loop" /\ x.msg = {} /\ x.batch = worker[w].batch
      BY <1>3 DEF WorkerType
    <2>2. worker' = [worker EXCEPT ![w] = x]
      BY <1>7, TypesNamed DEF IInv
    <2> HIDE DEF x
    <2>3. /\ \A v \in Workers : worker'[v] = IF v = w THEN x ELSE worker[v]
          /\ Taken' = Taken \ worker[w].msg /\ Batched' = Batched /\ HeldOnce'
      <3>1. HeldOnce
        BY DEF ItemInv
      <3>2. /\ \A v \in Workers : worker'[v] = IF v = w THEN x ELSE worker[v]
            /\ Taken' = (Taken \ worker[w].msg) \cup x.msg
            /\ Batched' = (Batched \ worker[w].batch) \cup x.batch
            /\ x.msg \cap Taken \subseteq worker[w].msg
                 /\ x.batch \cap Batched \subseteq worker[w].batch => HeldOnce'
        BY <1>2, <2>1, <2>2, <3>1, WorkerMoves
      <3> QED BY <1>2, <2>1, <2>2, <3>2
    <2>4. Hands'
      BY <1>1, <1>2, <2>1, <2>3 DEF ItemInv, Hands
    <2>5. Parted(Queued, cache, Taken, Batched, InHandlers, handled, dropped, 1..sent)'
      BY <1>1, <1>2, <1>4, <1>5, <1>7, <2>3 DEF Parted
    <2> QED BY <1>4, <2>3, <2>4, <2>5 DEF ItemInv
  <1>8. CASE MakesBatch(w, cache \cup worker[w].msg)
    <2> DEFINE b == cache \cup worker[w].msg
               x == [worker[w] EXCEPT !.at = "flush", !.msg = {}, !.batch = b]
    <2>1. x \in WorkerType /\ x.at = "flush" /\ x.msg = {} /\ x.batch = b
      BY <1>3 DEF WorkerType
    <2>2. worker' = [worker EXCEPT ![w] = x] /\ cache' = {}
      BY <1>8, TypesNamed DEF IInv, MakesBatch
    <2> HIDE DEF x
    <2>3. b \cap Batched = {}
      BY <1>2, <1>5 DEF Parted
    <2>4. /\ \A v \in Workers : worker'[v] = IF v = w THEN x ELSE worker[v]
          /\ Taken' = Taken \ worker[w].msg /\ Batched' = Batched \cup b /\ HeldOnce'
      <3>1. HeldOnce
        BY DEF ItemInv
      <3>2. /\ \A v \in Workers : worker'[v] = IF v = w THEN x ELSE worker[v]
            /\ Taken' = (Taken \ worker[w].msg) \cup x.msg
            /\ Batched' = (Batched \ worker[w].batch) \cup x.batch
            /\ x.msg \cap Taken \subseteq worker[w].msg
                 /\ x.batch \cap Batched \subseteq worker[w].batch => HeldOnce'
        BY <1>2, <2>1, <2>2, <2>3, <3>1, WorkerMoves
      <3> QED BY <1>2, <2>1, <2>2, <2>3, <3>2
    <2>5. Hands'
      BY <1>1, <1>2, <2>1, <2>4 DEF ItemInv, Hands
    <2>6. Parted(Queued, cache, Taken, Batched, InHandlers, handled, dropped, 1..sent)'
      BY <1>1, <1>2, <1>4, <1>5, <2>2, <2>4 DEF Parted
    <2> QED BY <1>4, <2>4, <2>5, <2>6 DEF ItemInv
  <1>9. CASE Process(w)
    BY <1>7, <1>8, <1>9 DEF Process
  <1>10. CASE FlushQuiet(w)
    <2>1. w[1] = "ticker"
      BY <1>10 DEF FlushQuiet
    <2>2. worker[w].msg = {}
      BY <1>2, <2>1
    <2>3. cache = cache \cup worker[w].msg
      BY <2>2
    <2> QED BY <1>6, <1>8, <1>10, <2>3 DEF FlushQuiet
  <1> QED BY <1>9, <1>10

(* A batch goes to its handler. *)
LEMMA ItemsLaunch ==
    ASSUME IInv, ItemInv, NEW w \in Workers, Launch(w)
    PROVE  ItemInv'
  <1> DEFINE b == worker[w].batch
             h == [batch |-> b, at |-> "run", chan |-> 0]
             x == [worker[w] EXCEPT !.at = "loop", !.batch = {}, !.chan = 0]
  <1>1. /\ worker[w].at = "launch" /\ handlers' = handlers \cup {h}
        /\ UNCHANGED <<sent, queue, session, cache, handled, dropped>>
    BY DEF Launch, At
  <1>2. x \in WorkerType /\ x.at = "loop" /\ x.msg = worker[w].msg /\ x.batch = {}
    <2>1. worker[w] \in WorkerType /\ 0 \in 0..MaxStarts
      BY TypesNamed, BatchAssumption DEF IInv
    <2> QED BY <2>1 DEF WorkerType
  <1>3. worker' = [worker EXCEPT ![w] = x]
    BY TypesNamed DEF IInv, Launch
  <1>4. b \subseteq Batched /\ worker[w].msg \subseteq Taken
    BY HandsOnly DEF ItemInv
  <1>5. h.at = "run" /\ h.batch = b
    OBVIOUS
  <1> HIDE DEF b, h, x
  <1>6. /\ \A v \in Workers : worker'[v] = IF v = w THEN x ELSE worker[v]
        /\ Taken' = Taken /\ Batched' = Batched \ b /\ HeldOnce'
    <2>1. HeldOnce
      BY DEF ItemInv
    <2>2. /\ \A v \in Workers : worker'[v] = IF v = w THEN x ELSE worker[v]
          /\ Taken' = (Taken \ worker[w].msg) \cup x.msg
          /\ Batched' = (Batched \ worker[w].batch) \cup x.batch
          /\ x.msg \cap Taken \subseteq worker[w].msg
               /\ x.batch \cap Batched \subseteq worker[w].batch => HeldOnce'
      BY <1>2, <1>3, <1>4, <2>1, WorkerMoves
    <2> QED BY <1>2, <1>3, <1>4, <2>2 DEF b
  <1>7. Hands'
    BY <1>1, <1>2, <1>6 DEF ItemInv, Hands
  <1>8. Running' = Running \cup {h}
    BY <1>1, <1>5 DEF Running
  <1>9. InHandlers' = InHandlers \cup b
    BY <1>5, <1>8 DEF InHandlers
  <1>10. Parted(Queued, cache, Taken, Batched, InHandlers, handled, dropped, 1..sent)
    BY DEF ItemInv
  <1>11. HandledOnce'
    <2>1. \A g \in Running : g.batch \subseteq InHandlers
      BY DEF InHandlers
    <2>2. \A g \in Running : g.batch \cap b = {}
      BY <1>4, <1>10, <2>1 DEF Parted
    <2> QED BY <1>5, <1>8, <2>2 DEF ItemInv, HandledOnce
  <1>12. UNCHANGED Queued /\ QueuedOnce'
    BY <1>1 DEF ItemInv, Queued, QueuedOnce
  <1>13. Parted(Queued, cache, Taken, Batched, InHandlers, handled, dropped, 1..sent)'
    BY <1>1, <1>4, <1>6, <1>9, <1>10, <1>12 DEF Parted
  <1> QED BY <1>6, <1>7, <1>11, <1>12, <1>13 DEF ItemInv

LEMMA ItemsHandler ==
    ASSUME IInv, ItemInv, NEW h \in handlers,
           Return(h) \/ WaitToRelease(h) \/ Release(h)
    PROVE  ItemInv'
  <1>1. UNCHANGED <<sent, queue, session, cache, worker, dropped>>
    BY DEF Return, WaitToRelease, Release
  <1>2. Hands' /\ QueuedOnce' /\ HeldOnce' /\ UNCHANGED <<Queued, Taken, Batched>>
    BY <1>1 DEF ItemInv, Hands, QueuedOnce, HeldOnce, Queued, Taken, Batched
  <1>3. h \in HandlerType
    BY TypesNamed DEF IInv
  <1>4. \A a, e : [h EXCEPT !.at = a, !.chan = e].at = a
    BY <1>3 DEF HandlerType
  <1>5. Parted(Queued, cache, Taken, Batched, InHandlers, handled, dropped, 1..sent)
    BY DEF ItemInv
  <1>6. CASE Return(h)
    <2>1. Running' = Running \ {h} /\ h \in Running /\ handled' = handled \cup h.batch
      <3> DEFINE g == [h EXCEPT !.at = "done", !.chan = 0]
      <3>1. g.at = "done"
        BY <1>4
      <3>2. handlers' = (handlers \ {h}) \cup {g}
        BY <1>6 DEF Return, Becomes
      <3> HIDE DEF g
      <3> QED BY <1>6, <3>1, <3>2 DEF Return, Running
    <2>2. HandledOnce'
      BY <2>1 DEF ItemInv, HandledOnce
    <2>3. InHandlers' = InHandlers \ h.batch /\ h.batch \subseteq InHandlers
      BY <2>1 DEF ItemInv, HandledOnce, InHandlers
    <2>4. Parted(Queued, cache, Taken, Batched, InHandlers, handled, dropped, 1..sent)'
      BY <1>1, <1>2, <1>5, <2>1, <2>3 DEF Parted
    <2> QED BY <1>2, <2>2, <2>4 DEF ItemInv
  <1>7. CASE WaitToRelease(h) \/ Release(h)
    <2>1. Running' = Running /\ handled' = handled
      BY <1>4, <1>7 DEF WaitToRelease, Release, Becomes, Running
    <2>2. HandledOnce' /\ InHandlers' = InHandlers
      BY <2>1 DEF ItemInv, HandledOnce, InHandlers
    <2>3. Parted(Queued, cache, Taken, Batched, InHandlers, handled, dropped, 1..sent)'
      BY <1>1, <1>2, <1>5, <2>1, <2>2 DEF Parted
    <2> QED BY <1>2, <2>2, <2>3 DEF ItemInv
  <1> QED BY <1>6, <1>7

LEMMA ItemsStutter ==
    ASSUME ItemInv,
           UNCHANGED <<sent, queue, session, cache, worker, handlers, handled, dropped>>
    PROVE  ItemInv'
  <1>1. Hands' /\ QueuedOnce' /\ HeldOnce' /\ HandledOnce'
    BY DEF ItemInv, Hands, QueuedOnce, HeldOnce, HandledOnce, Running
  <1>2. UNCHANGED <<Queued, Taken, Batched, InHandlers>> /\ (1..sent)' = 1..sent
    BY DEF Queued, Taken, Batched, InHandlers, Running
  <1>3. Parted(Queued, cache, Taken, Batched, InHandlers, handled, dropped, 1..sent)'
    BY <1>2 DEF ItemInv, Parted
  <1> QED BY <1>1, <1>3 DEF ItemInv

THEOREM ItemsInvariance == Spec => []ItemInv
<1>1. Init => ItemInv
  <2> SUFFICES ASSUME Init
               PROVE  ItemInv
    OBVIOUS
  <2>1. /\ sent = 0 /\ queue = <<>> /\ cache = {} /\ handlers = {} /\ handled = {}
        /\ dropped = {} /\ session = 0 /\ \A w \in Workers : worker[w] = Unborn
    BY DEF Init
  <2>2. \A w \in Workers :
           worker[w].at = "unborn" /\ worker[w].msg = {} /\ worker[w].batch = {}
    BY <2>1 DEF Unborn
  <2>3. Hands /\ HeldOnce
    BY <2>2 DEF Hands, HeldOnce
  <2>4. QueuedOnce /\ HandledOnce
    BY <2>1 DEF QueuedOnce, HandledOnce, Running
  <2>5. Queued = {} /\ Taken = {} /\ Batched = {} /\ InHandlers = {}
    BY <2>1, <2>2 DEF Queued, Taken, Batched, InHandlers, Running
  <2>6. 1..sent = {}
    BY <2>1
  <2> QED BY <2>1, <2>3, <2>4, <2>5, <2>6 DEF ItemInv, Parted
<1>2. IInv /\ ItemInv /\ [Next]_vars => ItemInv'
  <2> SUFFICES ASSUME IInv, ItemInv, [Next]_vars
               PROVE  ItemInv'
    OBVIOUS
  <2>1. CASE Stop \/ Stopped \/ Elapse \/ UNCHANGED vars
    BY <2>1, ItemsStutter DEF Stop, Stopped, Elapse, vars
  <2>2. CASE Next /\ ~ (Stop \/ Stopped \/ Elapse)
    BY <2>2, ItemsSend, ItemsStart, ItemsMove, ItemsReceive, ItemsLock, ItemsLaunch,
       ItemsHandler DEF Next, Moves, Locks, HandlerMoves
  <2> QED BY <2>1, <2>2
<1> QED BY <1>1, <1>2, Invariance, PTL DEF Spec

(* An item sent on the channel of batch_data.go:163-165 is in one place at a *)
(* time until its handler has returned, over any number of restarts: no     *)
(* dispatcher, ticker or handler loses it or hands it out twice, and only a *)
(* Start drops what it finds in the cache.                                  *)
THEOREM NoItemLost == Spec => []ItemsAccounted
<1>1. ItemInv => ItemsAccounted
  BY ItemInvSuffices
<1> QED BY <1>1, ItemsInvariance, PTL
-----------------------------------------------------------------------------
(* HybridStorage. *)
(* A file that does not follow its row will be written, or all of them go. *)
WritesOutstanding ==
    \A p \in Parts \ behind :
       \/ mirror[p] = db[p]
       \/ \E o \in 1..Len(objects) : Save(p, o) \in Waiting
       \/ Delete \in Waiting

(* A goroutine that writes the cached object writes what the database has. *)
CachedIsStored ==
    cached # 0 =>
       /\ life = "created"
       /\ \A p \in Parts \ behind : objects[cached][p] = db[p]

DeletedHasNoRows ==
    /\ life # "created" => db = Absent
    /\ Delete \in Waiting => life = "deleted"

UnbornIsEmpty == life = "unborn" => objects = <<>> /\ cached = 0

MirrorInv ==
    /\ HybridTypeOK
    /\ WritesOutstanding
    /\ CachedIsStored
    /\ DeletedHasNoRows
    /\ UnbornIsEmpty
-----------------------------------------------------------------------------
(* What starting and ending goroutines does to the bag of them. *)
LEMMA Started ==
    ASSUME NEW B, NEW S, IsABag(B)
    PROVE  /\ IsABag(B (+) SetToBag(S))
           /\ BagToSet(B (+) SetToBag(S)) = BagToSet(B) \cup S
  BY DEF IsABag, BagToSet, SetToBag, (+)

LEMMA Ended ==
    ASSUME NEW B, NEW x, IsABag(B)
    PROVE  /\ IsABag(B (-) SetToBag({x}))
           /\ BagToSet(B (-) SetToBag({x})) \subseteq BagToSet(B)
           /\ BagToSet(B) \ {x} \subseteq BagToSet(B (-) SetToBag({x}))
  <1> DEFINE Left == [e \in DOMAIN B |-> IF e \in {x} THEN B[e] - 1 ELSE B[e]]
             Kept == {d \in DOMAIN B : Left[d] > 0}
  <1>1. B (-) SetToBag({x}) = [e \in Kept |-> Left[e]]
    BY DEF (-), SetToBag
  <1>2. \A e \in DOMAIN B : B[e] \in Nat /\ B[e] > 0
    BY DEF IsABag
  <1>3. \A e \in DOMAIN B : e # x => e \in Kept
    BY <1>2
  <1>4. \A e \in Kept : Left[e] \in Nat /\ Left[e] > 0
    BY <1>2
  <1> HIDE DEF Left, Kept
  <1>5. Kept \subseteq DOMAIN B
    BY DEF Kept
  <1> QED BY <1>1, <1>3, <1>4, <1>5 DEF IsABag, BagToSet

LEMMA NoneLeft == IsABag(EmptyBag) /\ BagToSet(EmptyBag) = {}
  BY DEF IsABag, BagToSet, EmptyBag, SetToBag

LEMMA SaveIsNoDelete ==
    \A p, o :
       Save(p, o) # Delete /\ Save(p, o).do = "save" /\ Save(p, o).part = p
  BY DEF Save, Delete

LEMMA PrefixesAreSubsets ==
    ASSUME NEW S, NEW W \in Prefixes(S)
    PROVE  W \subseteq S
  BY DEF Prefixes

LEMMA MutatorsSaveWhatTheyChange ==
    ASSUME NEW m \in Mutators
    PROVE  m[1] \subseteq m[2] /\ m[2] \subseteq Parts
  BY DEF Mutators, Parts
-----------------------------------------------------------------------------
(* Every step keeps the invariant. *)
LEMMA CreateTaskStep ==
    ASSUME MirrorInv, CreateTask
    PROVE  MirrorInv'
  <1> USE HybridAssumption DEF MirrorInv
  <1> DEFINE W == {Save(q, 1) : q \in Parts}
  <1>1. objects = <<>> /\ cached = 0 /\ life = "unborn" /\ Delete \notin Waiting
    BY DEF CreateTask, UnbornIsEmpty, DeletedHasNoRows
  <1>2. /\ objects' = <<[q \in Parts |-> 1]>>
        /\ cached' = 1 /\ db' = [q \in Parts |-> 1]
    <2>1. objects' = <<[q \in Parts |-> 1]>>
      BY <1>1 DEF CreateTask
    <2> QED BY <2>1 DEF CreateTask, Stored
  <1>3. IsABag(pending') /\ Waiting' = Waiting \cup W
    BY Started DEF HybridTypeOK, CreateTask, Spawn, Waiting
  <1>4. [q \in Parts |-> 1] \in Versions
    BY DEF Versions
  <1>5. /\ Len(objects') = 1 /\ objects'[1] = [q \in Parts |-> 1]
        /\ objects' \in Seq(Versions)
    BY <1>2, <1>4
  <1>6. HybridTypeOK'
    <2>1. Waiting' \subseteq {Save(q, o) : q \in Parts, o \in 1..Len(objects')}
                               \cup {Delete}
      BY <1>1, <1>3, <1>5 DEF HybridTypeOK
    <2> QED BY <1>2, <1>3, <1>4, <1>5, <2>1 DEF HybridTypeOK, CreateTask
  <1>7. WritesOutstanding'
    BY <1>3, <1>5 DEF WritesOutstanding
  <1>8. CachedIsStored'
    BY <1>2, <1>5 DEF CachedIsStored, CreateTask
  <1>9. DeletedHasNoRows' /\ UnbornIsEmpty'
    BY <1>1, <1>3, SaveIsNoDelete DEF DeletedHasNoRows, UnbornIsEmpty, CreateTask
  <1> QED BY <1>6, <1>7, <1>8, <1>9

(* A change of the cached object, or of a new one, stored in part or whole. *)
LEMMA MutateStep ==
    ASSUME MirrorInv, NEW m \in Mutators, Mutate(m[1], m[2])
    PROVE  MirrorInv'
  <1> USE HybridAssumption DEF MirrorInv
  <1> DEFINE E == m[1]
             S == m[2]
             o == IF cached = 0 THEN Len(objects) + 1 ELSE cached
             before == IF cached = 0 THEN db ELSE objects[cached]
             after == [q \in Parts |->
                          IF q \in E THEN before[q] + 1 ELSE before[q]]
  <1>1. E \subseteq S /\ S \subseteq Parts
    BY MutatorsSaveWhatTheyChange
  <1>2. /\ life = "created" /\ \A q \in E : before[q] < MaxVersion
        /\ cached' = o /\ mirror' = mirror /\ life' = life
        /\ objects' = IF cached = 0 THEN Append(objects, after)
                      ELSE [objects EXCEPT ![o] = after]
        /\ StoreParts(after, o, E, S)
    BY DEF Mutate
  <1>3. before \in Versions /\ after \in Versions
    <2>1. before \in Versions
      BY DEF HybridTypeOK
    <2>2. \A q \in Parts : before[q] \in 0..MaxVersion
      BY <2>1 DEF Versions
    <2>3. \A q \in Parts : after[q] \in 0..MaxVersion
      BY <1>1, <1>2, <2>2
    <2> QED BY <2>1, <2>3 DEF Versions
  <1>4. /\ objects' \in Seq(Versions) /\ Len(objects) <= Len(objects')
        /\ o \in 1..Len(objects') /\ objects'[o] = after /\ o # 0
    <2> HIDE DEF after
    <2>1. CASE cached = 0
      BY <1>2, <1>3, <2>1 DEF HybridTypeOK
    <2>2. CASE cached # 0
      BY <1>2, <1>3, <2>2 DEF HybridTypeOK
    <2> QED BY <2>1, <2>2
  \* V are the parts that are stored, W those of them with a goroutine.
  <1>5. PICK W \in SUBSET S, V \in SUBSET S :
           /\ W \subseteq V
           /\ Stored(V, after) /\ Spawn(W, o) /\ faults' \in 0..MaxFaults
           /\ behind' = (behind \ W) \cup (E \ W)
    <2> HIDE DEF E, S, o, before, after
    <2>1. CASE /\ Stored(S, after) /\ Spawn(S, o)
               /\ behind' = behind \ S /\ faults' = faults
      BY <1>1, <2>1 DEF HybridTypeOK
    <2>2. ASSUME NEW W \in Prefixes(S), NEW V \in Prefixes(S), Fault, W \subseteq V,
                 Stored(V, after), Spawn(W, o), behind' = (behind \ W) \cup (E \ W)
          PROVE  /\ W \in SUBSET S /\ V \in SUBSET S /\ faults' \in 0..MaxFaults
      BY <2>2, PrefixesAreSubsets DEF HybridTypeOK, Fault
    <2> QED BY <1>2, <2>1, <2>2 DEF StoreParts
  <1>6. /\ IsABag(pending') /\ Waiting' = Waiting \cup {Save(q, o) : q \in W}
    BY <1>5, Started DEF HybridTypeOK, Spawn, Waiting
  <1>7. /\ db' \in Versions
        /\ \A q \in Parts : db'[q] = IF q \in V THEN after[q] ELSE db[q]
    <2> HIDE DEF after
    <2> QED BY <1>3, <1>5 DEF Stored, Versions, HybridTypeOK
  <1>8. \A q \in Parts \ E : after[q] = before[q]
    OBVIOUS
  <1>9. \A q \in Parts \ behind : before[q] = db[q]
    BY DEF CachedIsStored
  <1> HIDE DEF E, S, o, before, after
  <1>10. /\ behind' \subseteq Parts
         /\ \A q \in Parts \ behind' : q \in W \/ (q \notin behind /\ q \notin E)
    BY <1>1, <1>5 DEF HybridTypeOK
  <1>11. HybridTypeOK'
    <2>1. Waiting' \subseteq {Save(q, j) : q \in Parts, j \in 1..Len(objects')}
                               \cup {Delete}
      <3>1. {Save(q, j) : q \in Parts, j \in 1..Len(objects)}
               \subseteq {Save(q, j) : q \in Parts, j \in 1..Len(objects')}
        BY <1>4 DEF HybridTypeOK
      <3>2. {Save(q, o) : q \in W}
               \subseteq {Save(q, j) : q \in Parts, j \in 1..Len(objects')}
        BY <1>1, <1>4
      <3>3. Waiting \subseteq {Save(q, j) : q \in Parts, j \in 1..Len(objects)}
                                \cup {Delete}
        BY DEF HybridTypeOK
      <3> HIDE DEF MirrorInv
      <3> QED BY <1>6, <3>1, <3>2, <3>3
    <2>2. cached' \in 0..Len(objects')
      BY <1>2, <1>4
    <2>3. mirror' \in [Parts -> 0..Torn] /\ life' \in {"unborn", "created", "deleted"}
      BY <1>2 DEF HybridTypeOK
    <2> HIDE DEF MirrorInv
    <2>4. objects' \in Seq(Versions)
      BY <1>4
    <2>5. db' \in Versions
      BY <1>7
    <2>6. IsABag(pending')
      BY <1>6
    <2>7. behind' \subseteq Parts
      BY <1>10
    <2>8. faults' \in 0..MaxFaults
      BY <1>5
    <2> QED BY <2>1, <2>2, <2>3, <2>4, <2>5, <2>6, <2>7, <2>8 DEF HybridTypeOK
  <1>12. WritesOutstanding'
    <2> SUFFICES ASSUME NEW q \in Parts \ behind'
                 PROVE  \/ mirror'[q] = db'[q]
                        \/ \E j \in 1..Len(objects') : Save(q, j) \in Waiting'
                        \/ Delete \in Waiting'
      BY DEF WritesOutstanding
    <2>1. CASE q \in W
      BY <1>4, <1>6, <2>1
    <2>2. CASE q \notin W
      <3>1. q \notin behind /\ db'[q] = db[q] /\ mirror'[q] = mirror[q]
        BY <1>2, <1>7, <1>8, <1>9, <1>10, <2>2
      <3>2. 1..Len(objects) \subseteq 1..Len(objects')
        BY <1>4 DEF HybridTypeOK
      <3> QED BY <1>6, <3>1, <3>2 DEF WritesOutstanding
    <2> QED BY <2>1, <2>2
  <1>13. CachedIsStored'
    <2>1. \A q \in Parts \ behind' : objects'[cached'][q] = db'[q]
      BY <1>2, <1>4, <1>5, <1>7, <1>8, <1>9, <1>10
    <2> QED BY <1>2, <2>1 DEF CachedIsStored
  <1>14. DeletedHasNoRows' /\ UnbornIsEmpty'
    BY <1>2, <1>6, SaveIsNoDelete DEF DeletedHasNoRows, UnbornIsEmpty
  <1> QED BY <1>11, <1>12, <1>13, <1>14

LEMMA DeleteTaskStep ==
    ASSUME MirrorInv, DeleteTask
    PROVE  MirrorInv'
  <1> USE HybridAssumption DEF MirrorInv
  <1>0. Absent \in Versions /\ Saving \subseteq Parts
    BY DEF Absent, Versions, Saving
  <1>1. CASE db' = Absent /\ life' = "deleted" /\ behind' = Saving /\ UNCHANGED faults
             /\ pending' = pending (+) SetToBag({Delete})
    <2>1. IsABag(pending') /\ Waiting' = Waiting \cup {Delete}
      BY <1>1, Started DEF HybridTypeOK, Waiting
    <2>2. HybridTypeOK'
      BY <1>0, <1>1, <2>1 DEF HybridTypeOK, DeleteTask
    <2>3. WritesOutstanding'
      BY <2>1 DEF WritesOutstanding
    <2> QED BY <1>1, <2>2, <2>3
            DEF CachedIsStored, DeletedHasNoRows, UnbornIsEmpty, DeleteTask
  <1>2. CASE Fault /\ db' = Absent /\ life' = "deleted" /\ behind' = Parts /\ UNCHANGED pending
    <2>1. HybridTypeOK'
      BY <1>0, <1>2 DEF HybridTypeOK, DeleteTask, Fault, Waiting
    <2> QED BY <1>2, <2>1 DEF WritesOutstanding, CachedIsStored, DeletedHasNoRows,
               UnbornIsEmpty, DeleteTask, Waiting
  <1>3. CASE Fault /\ UNCHANGED <<db, life, pending, behind>>
    <2>1. HybridTypeOK'
      BY <1>3 DEF HybridTypeOK, DeleteTask, Fault, Waiting
    <2> QED BY <1>3, <2>1 DEF WritesOutstanding, CachedIsStored, DeletedHasNoRows,
               UnbornIsEmpty, DeleteTask, Waiting
  <1> QED BY <1>1, <1>2, <1>3 DEF DeleteTask

LEMMA MirrorSaveStep ==
    ASSUME MirrorInv, NEW q \in Parts, NEW o \in 1..Len(objects), MirrorSave(q, o)
    PROVE  MirrorInv'
  <1> USE HybridAssumption DEF MirrorInv
  <1>1. /\ IsABag(pending') /\ Waiting' \subseteq Waiting
        /\ Waiting \ {Save(q, o)} \subseteq Waiting'
    <2>1. IsABag(pending) /\ pending' = pending (-) SetToBag({Save(q, o)})
      BY DEF HybridTypeOK, MirrorSave
    <2> QED BY <2>1, Ended DEF Waiting
  <1>2. objects[o] \in Versions /\ o # 0
    BY DEF HybridTypeOK
  <1>3. \/ /\ mirror' = [mirror EXCEPT ![q] = objects[o][q]]
           /\ behind' = IF o = cached THEN behind ELSE behind \cup {q}
        \/ mirror' \in {mirror, [mirror EXCEPT ![q] = Torn]} /\ behind' = behind \cup {q}
    BY DEF MirrorSave
  <1>4. \A r \in Parts : r # q => mirror'[r] = mirror[r]
    BY <1>3 DEF HybridTypeOK
  <1>5. HybridTypeOK'
    <2>1. objects[o][q] \in 0..Torn /\ Torn \in 0..Torn
      BY <1>2 DEF Versions, Torn
    <2>2. mirror' \in [Parts -> 0..Torn]
      BY <1>3, <2>1 DEF HybridTypeOK
    <2>3. behind' \subseteq Parts /\ faults' \in 0..MaxFaults
      BY <1>3 DEF HybridTypeOK, MirrorSave, Fault
    <2> QED BY <1>1, <2>2, <2>3 DEF HybridTypeOK, MirrorSave
  <1>6. WritesOutstanding'
    <2> SUFFICES ASSUME NEW r \in Parts \ behind'
                 PROVE  \/ mirror'[r] = db[r]
                        \/ \E j \in 1..Len(objects) : Save(r, j) \in Waiting'
                        \/ Delete \in Waiting'
      BY DEF WritesOutstanding, MirrorSave
    <2>1. CASE r = q
      <3>1. o = cached /\ q \notin behind /\ mirror' = [mirror EXCEPT ![q] = objects[o][q]]
        BY <1>3, <2>1
      <3> QED BY <1>2, <2>1, <3>1 DEF HybridTypeOK, CachedIsStored
    <2>2. CASE r # q
      <3>1. r \notin behind /\ mirror'[r] = mirror[r]
        BY <1>3, <1>4, <2>2
      <3>2. \A j : Save(r, j) # Save(q, o)
        BY <2>2, SaveIsNoDelete
      <3> QED BY <1>1, <3>1, <3>2, SaveIsNoDelete DEF WritesOutstanding
    <2> QED BY <2>1, <2>2
  <1>7. CachedIsStored'
    BY <1>3 DEF CachedIsStored, MirrorSave
  <1> QED BY <1>1, <1>5, <1>6, <1>7 DEF DeletedHasNoRows, UnbornIsEmpty, MirrorSave

LEMMA WithoutIs ==
    ASSUME HybridTypeOK, NEW P
    PROVE  Without(mirror, P) \in [Parts -> 0..Torn]
  BY HybridAssumption DEF HybridTypeOK, Without, Torn

LEMMA MirrorDeleteStep ==
    ASSUME MirrorInv, MirrorDelete
    PROVE  MirrorInv'
  <1> USE HybridAssumption DEF MirrorInv
  <1>1. IsABag(pending') /\ Waiting' \subseteq Waiting
    <2>1. IsABag(pending) /\ pending' = pending (-) SetToBag({Delete})
      BY DEF HybridTypeOK, MirrorDelete
    <2> QED BY <2>1, Ended DEF Waiting
  <1>2. db = Absent /\ life = "deleted" /\ cached = 0
    BY DEF DeletedHasNoRows, MirrorDelete, CachedIsStored
  <1>3. \/ mirror' = Absent /\ UNCHANGED <<behind, faults>>
        \/ Fault /\ (\E P \in SUBSET Parts : mirror' = Without(mirror, P)) /\ behind' = Parts
    BY DEF MirrorDelete
  <1>4. HybridTypeOK'
    <2>1. Absent \in [Parts -> 0..Torn]
      BY DEF Absent, Torn
    <2>2. mirror' \in [Parts -> 0..Torn]
      BY <1>3, <2>1, WithoutIs
    <2>3. behind' \subseteq Parts /\ faults' \in 0..MaxFaults
      BY <1>3 DEF HybridTypeOK, Fault
    <2> QED BY <1>1, <2>2, <2>3 DEF HybridTypeOK, MirrorDelete
  <1>5. WritesOutstanding'
    BY <1>2, <1>3 DEF WritesOutstanding, MirrorDelete
  <1> QED BY <1>1, <1>2, <1>4, <1>5
          DEF CachedIsStored, DeletedHasNoRows, UnbornIsEmpty, MirrorDelete

LEMMA RestartStep ==
    ASSUME MirrorInv, Restart
    PROVE  MirrorInv'
  <1> USE HybridAssumption DEF MirrorInv
  <1>1. IsABag(pending') /\ Waiting' = {}
    BY NoneLeft DEF Restart, Waiting
  <1>2. \/ mirror' = mirror
        \/ \E p \in Saving : mirror' = [mirror EXCEPT ![p] = Torn]
        \/ Delete \in Waiting /\ \E P \in SUBSET Parts : mirror' = Without(mirror, P)
    BY DEF Restart
  <1>3. HybridTypeOK'
    <2>1. behind' \subseteq Parts /\ faults' \in 0..MaxFaults
      BY DEF HybridTypeOK, Restart, Fault, Saving
    <2>2. Torn \in 0..Torn
      BY DEF Torn
    <2>3. mirror \in [Parts -> 0..Torn]
      BY DEF HybridTypeOK
    <2>4. \A p \in Saving : [mirror EXCEPT ![p] = Torn] \in [Parts -> 0..Torn]
      BY <2>2, <2>3
    <2>5. \A P \in SUBSET Parts : Without(mirror, P) \in [Parts -> 0..Torn]
      BY WithoutIs
    <2>6. mirror' \in [Parts -> 0..Torn]
      BY <1>2, <2>3, <2>4, <2>5
    <2> QED BY <1>1, <2>1, <2>6 DEF HybridTypeOK, Restart
  <1>4. WritesOutstanding'
    <2> SUFFICES ASSUME NEW r \in Parts \ behind'
                 PROVE  mirror'[r] = db[r]
      BY DEF WritesOutstanding, Restart
    <2>1. Delete \notin Waiting /\ r \notin behind /\ r \notin Saving
      BY DEF Restart
    <2>2. \A o : Save(r, o) \notin Waiting
      BY <2>1, SaveIsNoDelete DEF Saving
    <2>3. mirror'[r] = mirror[r]
      BY <1>2, <2>1 DEF HybridTypeOK
    <2> QED BY <2>1, <2>2, <2>3 DEF WritesOutstanding
  <1> QED BY <1>1, <1>3, <1>4
          DEF CachedIsStored, DeletedHasNoRows, UnbornIsEmpty, Restart
-----------------------------------------------------------------------------
(* The whole invariant holds of every reachable state.                      *)
THEOREM MirrorInvariance == HybridSpec => []MirrorInv
<1>1. HybridInit => MirrorInv
  BY HybridAssumption, NoneLeft
     DEF HybridInit, MirrorInv, HybridTypeOK, WritesOutstanding, CachedIsStored, DeletedHasNoRows,
         UnbornIsEmpty, Waiting, Absent, Versions, Torn
<1>2. MirrorInv /\ [HybridNext]_hybridVars => MirrorInv'
  <2> SUFFICES ASSUME MirrorInv, [HybridNext]_hybridVars
               PROVE  MirrorInv'
    OBVIOUS
  <2>1. CASE HybridNext
    BY <2>1, CreateTaskStep, MutateStep, DeleteTaskStep, MirrorSaveStep,
       MirrorDeleteStep, RestartStep DEF HybridNext
  <2>2. CASE UNCHANGED hybridVars
    BY <2>2 DEF hybridVars, MirrorInv, HybridTypeOK, WritesOutstanding, CachedIsStored,
                DeletedHasNoRows, UnbornIsEmpty, Waiting
  <2> QED BY <2>1, <2>2
<1> QED BY <1>1, <1>2, PTL DEF HybridSpec

(* Every reachable state has the types of HybridStorage.                    *)
THEOREM MirrorTypes == HybridSpec => []HybridTypeOK
<1>1. MirrorInv => HybridTypeOK
  BY DEF MirrorInv
<1> QED BY <1>1, MirrorInvariance, PTL

(* Whatever the order of the goroutines of storage_db.go:66-77, and whichever *)
(* calls of the database and of the files fail, the files follow the rows    *)
(* once all goroutines have run, but for the parts that MirrorConverges      *)
(* excepts: a failed call costs no other part.                              *)
THEOREM FilesFollow == HybridSpec => []MirrorConverges
<1>1. MirrorInv => MirrorConverges
  <2> SUFFICES ASSUME MirrorInv, pending = EmptyBag, NEW q \in Parts \ behind
               PROVE  mirror[q] = db[q]
    BY DEF MirrorConverges
  <2>1. Waiting = {}
    BY NoneLeft DEF Waiting
  <2> QED BY <2>1 DEF MirrorInv, WritesOutstanding
<1> QED BY <1>1, MirrorInvariance, PTL
=============================================================================
