--------------------------- MODULE BatchProcessor ---------------------------
(***************************************************************************)
(* pkg/tools/batch_data.go: clients put items in a channel; a dispatcher    *)
(* moves them to a cache and, when the cache is full, hands the batch to a  *)
(* handler goroutine; a ticker hands over what a quiet interval has left.   *)
(*                                                                         *)
(* Start makes a new cache, a new channel of handler slots and a new        *)
(* context, and the goroutines read these fields of the Processor when they *)
(* need them: a goroutine of an earlier session that is busy over a Stop    *)
(* and a Start goes on with the new ones.  The order of the items inside a  *)
(* batch and what the handler answers (it is only logged) are left out.     *)
(***************************************************************************)
EXTENDS Naturals, Sequences, FiniteSets

CONSTANTS
    QueueNum,   \* capacity of messageChan (1024)
    CacheNum,   \* Config.CacheNum
    MaxThread,  \* Config.MaxThread
    MaxItems,   \* bound on the items sent
    MaxStarts   \* bound on the calls of Start

ASSUME BatchAssumption ==
    /\ QueueNum \in Nat \ {0}
    /\ CacheNum \in Nat
    /\ MaxThread \in Nat \ {0}
    /\ MaxItems \in Nat
    /\ MaxStarts \in Nat

VARIABLES
    sent,       \* items sent so far: 1..sent
    queue,      \* messageChan
    service,    \* "closed"; "open" (isOpen); "stopping": Stop has cancelled and waits
    session,    \* calls of Start so far: whose context and channels p holds
    cache,      \* the items in p.cacheChan
    slots,      \* the tokens in the threadChan of each session
    fresh,      \* updateTime lies within the interval
    worker,     \* the dispatcher and the ticker of each session
    lock,       \* who holds cacheChanLock, or NoOne
    handlers,   \* handler goroutines
    handled,    \* items whose handler has returned
    dropped     \* items left in a cache that Start replaced

vars == <<sent, queue, service, session, cache, slots, fresh, worker, lock,
          handlers, handled, dropped>>

Sessions == 1..MaxStarts
Workers == {"dispatcher", "ticker"} \X Sessions
NoOne == <<"nobody", 0>>
Items == 1..MaxItems
Unborn == [at |-> "unborn", ctx |-> 0, msg |-> {}, batch |-> {}, chan |-> 0]

Running == {h \in handlers : h.at = "run"}  \* those messageWg counts

TypeOK ==
    /\ sent \in 0..MaxItems
    /\ queue \in Seq(Items) /\ Len(queue) <= QueueNum
    /\ service \in {"closed", "open", "stopping"}
    /\ session \in 0..MaxStarts
    /\ cache \subseteq Items /\ Cardinality(cache) <= CacheNum
    /\ slots \in [Sessions -> 0..MaxThread]
    /\ fresh \in BOOLEAN
    /\ worker \in [Workers -> [at: {"unborn", "loop", "select", "lock", "flush", "blocked",
                                    "launch", "exit"},
                               ctx: 0..MaxStarts, msg: SUBSET Items, batch: SUBSET Items,
                               chan: 0..MaxStarts]]
    /\ lock \in Workers \cup {NoOne}
    /\ handlers \subseteq [batch: SUBSET Items, at: {"run", "done", "release"},
                           chan: 0..MaxStarts]
    /\ handled \subseteq Items
    /\ dropped \subseteq Items

Init ==
    /\ sent = 0
    /\ queue = <<>>
    /\ service = "closed"
    /\ session = 0
    /\ cache = {}
    /\ slots = [e \in Sessions |-> 0]
    /\ fresh = FALSE
    /\ worker = [w \in Workers |-> Unborn]
    /\ lock = NoOne
    /\ handlers = {}
    /\ handled = {}
    /\ dropped = {}
-----------------------------------------------------------------------------
(* Clients, Start and Stop.  messageChan exists from NewProcessor on, and   *)
(* is filled whether or not the processor is open.                          *)

Send ==
    /\ sent < MaxItems
    /\ Len(queue) < QueueNum
    /\ sent' = sent + 1
    /\ queue' = Append(queue, sent + 1)
    /\ UNCHANGED <<service, session, cache, slots, fresh, worker, lock, handlers,
                   handled, dropped>>

Start ==
    /\ service = "closed"
    /\ session < MaxStarts
    /\ service' = "open"
    /\ session' = session + 1
    /\ cache' = {}
    /\ dropped' = dropped \cup cache
    /\ worker' = [w \in Workers |-> IF w[2] = session + 1
                                    THEN [Unborn EXCEPT !.at = "loop"] ELSE worker[w]]
    /\ UNCHANGED <<sent, queue, slots, fresh, lock, handlers, handled>>

Stop ==
    /\ service = "open"
    /\ service' = "stopping"
    /\ UNCHANGED <<sent, queue, session, cache, slots, fresh, worker, lock, handlers,
                   handled, dropped>>

\* messageWg.Wait returns.
Stopped ==
    /\ service = "stopping"
    /\ Running = {}
    /\ service' = "closed"
    /\ UNCHANGED <<sent, queue, session, cache, slots, fresh, worker, lock, handlers,
                   handled, dropped>>

Cancelled(e) == e < session \/ service # "open"
-----------------------------------------------------------------------------
(* The goroutines of Start.  Each turn of a loop reads p.ctx anew; the      *)
(* select then waits for that context, or for an item or the timer.  With   *)
(* both ready either is taken.                                              *)

At(w, a) == worker[w].at = a
Goes(w, a) == worker' = [worker EXCEPT ![w].at = a]

Loop(w) ==
    /\ At(w, "loop")
    /\ worker' = [worker EXCEPT ![w].at = "select", ![w].ctx = session]
    /\ UNCHANGED <<sent, queue, service, session, cache, slots, fresh, lock, handlers,
                   handled, dropped>>

Exit(w) ==
    /\ At(w, "select")
    /\ Cancelled(worker[w].ctx)
    /\ Goes(w, "exit")
    /\ UNCHANGED <<sent, queue, service, session, cache, slots, fresh, lock, handlers,
                   handled, dropped>>

Receive(w) ==
    /\ w[1] = "dispatcher"
    /\ At(w, "select")
    /\ queue # <<>>
    /\ queue' = Tail(queue)
    /\ worker' = [worker EXCEPT ![w].at = "lock", ![w].msg = {Head(queue)}]
    /\ UNCHANGED <<sent, service, session, cache, slots, fresh, lock, handlers,
                   handled, dropped>>

Tick(w) ==
    /\ w[1] = "ticker"
    /\ At(w, "select")
    /\ Goes(w, "lock")
    /\ UNCHANGED <<sent, queue, service, session, cache, slots, fresh, lock, handlers,
                   handled, dropped>>

\* The interval after the last hand-over has passed.
Elapse ==
    /\ fresh
    /\ fresh' = FALSE
    /\ UNCHANGED <<sent, queue, service, session, cache, slots, worker, lock, handlers,
                   handled, dropped>>
-----------------------------------------------------------------------------
(* Under cacheChanLock.  A worker that has made a batch keeps the lock      *)
(* while it waits for a handler slot.                                       *)

MakesBatch(w, batch) ==
    /\ cache' = {}
    /\ lock' = w
    /\ worker' = [worker EXCEPT ![w].at = "flush", ![w].msg = {}, ![w].batch = batch]

FaultyProcess(w) ==  \* leaves out the item that found the cache full
    /\ w[1] = "dispatcher"
    /\ At(w, "lock")
    /\ lock = NoOne
    /\ \/ /\ Cardinality(cache) < CacheNum
          /\ cache' = cache \cup worker[w].msg
          /\ worker' = [worker EXCEPT ![w].at = "loop", ![w].msg = {}]
          /\ UNCHANGED lock
       \/ /\ Cardinality(cache) >= CacheNum
          /\ MakesBatch(w, cache)
    /\ UNCHANGED <<sent, queue, service, session, slots, fresh, handlers, handled, dropped>>

Process(w) ==
    /\ w[1] = "dispatcher"
    /\ At(w, "lock")
    /\ lock = NoOne
    /\ \/ /\ Cardinality(cache) < CacheNum
          /\ cache' = cache \cup worker[w].msg
          /\ worker' = [worker EXCEPT ![w].at = "loop", ![w].msg = {}]
          /\ UNCHANGED lock
       \/ /\ Cardinality(cache) >= CacheNum
          /\ MakesBatch(w, cache \cup worker[w].msg)
    /\ UNCHANGED <<sent, queue, service, session, slots, fresh, handlers, handled, dropped>>

FaultyFlushQuiet(w) ==  \* does not unlock when it finds nothing
    /\ w[1] = "ticker"
    /\ At(w, "lock")
    /\ lock = NoOne
    /\ \/ /\ fresh
          /\ Goes(w, "loop")
          /\ UNCHANGED <<cache, lock>>
       \/ /\ ~ fresh /\ cache = {}
          /\ Goes(w, "loop")
          /\ lock' = w
          /\ UNCHANGED cache
       \/ /\ ~ fresh /\ cache # {}
          /\ MakesBatch(w, cache)
    /\ UNCHANGED <<sent, queue, service, session, slots, fresh, handlers, handled, dropped>>

FlushQuiet(w) ==
    /\ w[1] = "ticker"
    /\ At(w, "lock")
    /\ lock = NoOne
    /\ \/ /\ fresh \/ cache = {}
          /\ Goes(w, "loop")
          /\ UNCHANGED <<cache, lock>>
       \/ /\ ~ fresh /\ cache # {}
          /\ MakesBatch(w, cache)
    /\ UNCHANGED <<sent, queue, service, session, slots, fresh, handlers, handled, dropped>>

\* `p.threadChan <- struct{}{}` reads the field, then waits for room in that
\* channel.
WaitForSlot(w) ==
    /\ At(w, "flush")
    /\ worker' = [worker EXCEPT ![w].at = "blocked", ![w].chan = session]
    /\ UNCHANGED <<sent, queue, service, session, cache, slots, fresh, lock, handlers,
                   handled, dropped>>

FaultyTakeSlot(w) ==  \* goes on when there is no room
    /\ At(w, "blocked")
    /\ slots' = [slots EXCEPT ![worker[w].chan] = IF @ < MaxThread THEN @ + 1 ELSE @]
    /\ Goes(w, "launch")
    /\ UNCHANGED <<sent, queue, service, session, cache, fresh, lock, handlers,
                   handled, dropped>>

TakeSlot(w) ==
    /\ At(w, "blocked")
    /\ slots[worker[w].chan] < MaxThread
    /\ slots' = [slots EXCEPT ![worker[w].chan] = @ + 1]
    /\ Goes(w, "launch")
    /\ UNCHANGED <<sent, queue, service, session, cache, fresh, lock, handlers,
                   handled, dropped>>

\* messageWg.Add, the handler goroutine, updateTime, Unlock.
Launch(w) ==
    /\ At(w, "launch")
    /\ handlers' = handlers \cup {[batch |-> worker[w].batch, at |-> "run", chan |-> 0]}
    /\ fresh' = TRUE
    /\ lock' = NoOne
    /\ worker' = [worker EXCEPT ![w] = [@ EXCEPT !.at = "loop", !.batch = {}, !.chan = 0]]
    /\ UNCHANGED <<sent, queue, service, session, cache, slots, handled, dropped>>
-----------------------------------------------------------------------------
(* The handler goroutine: the handler, messageWg.Done, and one receive from *)
(* the channel that p.threadChan is by then.                                *)

Becomes(h, a, e) == handlers' = (handlers \ {h}) \cup {[h EXCEPT !.at = a, !.chan = e]}

Return(h) ==
    /\ h.at = "run"
    /\ handled' = handled \cup h.batch
    /\ Becomes(h, "done", 0)
    /\ UNCHANGED <<sent, queue, service, session, cache, slots, fresh, worker, lock, dropped>>

WaitToRelease(h) ==
    /\ h.at = "done"
    /\ Becomes(h, "release", session)
    /\ UNCHANGED <<sent, queue, service, session, cache, slots, fresh, worker, lock,
                   handled, dropped>>

FaultyRelease(h) ==  \* counts down whatever the count is
    /\ h.at = "release"
    /\ slots' = [slots EXCEPT ![h.chan] = @ - 1]
    /\ handlers' = handlers \ {h}
    /\ UNCHANGED <<sent, queue, service, session, cache, fresh, worker, lock, handled, dropped>>

Release(h) ==
    /\ h.at = "release"
    /\ slots[h.chan] > 0
    /\ slots' = [slots EXCEPT ![h.chan] = @ - 1]
    /\ handlers' = handlers \ {h}
    /\ UNCHANGED <<sent, queue, service, session, cache, fresh, worker, lock, handled, dropped>>
-----------------------------------------------------------------------------
Moves(w) ==
    Loop(w) \/ Exit(w) \/ Receive(w) \/ Tick(w) \/ WaitForSlot(w) \/ TakeSlot(w) \/ Launch(w)
Locks(w) == Process(w) \/ FlushQuiet(w)
HandlerMoves == \E h \in handlers : Return(h) \/ WaitToRelease(h) \/ Release(h)

Next ==
    \/ Send \/ Start \/ Stop \/ Stopped \/ Elapse
    \/ \E w \in Workers : Moves(w) \/ Locks(w)
    \/ HandlerMoves

Spec == Init /\ [][Next]_vars

(* Goroutines run, handlers return, time passes, and sync.Mutex serves a    *)
(* goroutine that waits for it (its starvation mode) even when others take  *)
(* the lock in between.                                                     *)
FairSpec ==
    /\ Spec
    /\ WF_vars(Stopped) /\ WF_vars(Elapse) /\ WF_vars(HandlerMoves)
    /\ \A w \in Workers : WF_vars(Moves(w)) /\ SF_vars(Locks(w))
-----------------------------------------------------------------------------
(* No item is lost or handed out twice while it passes from the queue to a  *)
(* dispatcher, the cache, a batch and a handler, with the dispatchers and   *)
(* the tickers of two sessions at work: each item sent is in one place, and *)
(* only a Start drops items, those in the cache it replaces.                *)
Queued == {queue[i] : i \in DOMAIN queue}
Taken == UNION {worker[w].msg : w \in Workers}
Batched == UNION {worker[w].batch : w \in Workers}
InHandlers == UNION {h.batch : h \in Running}

ItemsAccounted ==
    LET places == <<Queued, cache, Taken, Batched, InHandlers, handled, dropped>>
    IN  /\ UNION {places[p] : p \in 1..7} = 1..sent
        /\ \A p, q \in 1..7 : p # q => places[p] \cap places[q] = {}
        /\ \A i, j \in DOMAIN queue : i # j => queue[i] # queue[j]
        /\ \A v, w \in Workers : v # w =>
              /\ worker[v].msg \cap worker[w].msg = {}
              /\ worker[v].batch \cap worker[w].batch = {}
        /\ \A g, h \in Running : g # h => g.batch \cap h.batch = {}

(* In its first session at most MaxThread handlers run at once: a worker    *)
(* that has a batch has a slot before it starts the handler, and a handler  *)
(* gives its slot back only after it has returned.  Not so after a restart, *)
(* when a handler of the first session takes a token out of the channel of  *)
(* the second.                                                              *)
HandlersWithinLimit == session = 1 => Cardinality(Running) <= MaxThread

(* In its first session the processor handles every item that is sent,      *)
(* without a further item to push it out, unless it is stopped.  Not so     *)
(* after a restart, when a worker can wait for good, with the lock, for     *)
(* room in a channel nobody reads any more.                                 *)
SentItemsAreHandled ==
    \A i \in Items :
        (sent >= i /\ session = 1 /\ service = "open")
            ~> (i \in handled \/ service # "open")
=============================================================================
