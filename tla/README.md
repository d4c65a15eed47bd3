# Verification of ai_task

TLA+ specifications of this repository: the task system (`pkg/task` with its
service, sessions, storage, executor and context engineering, over
`repository/xormimplement`), the batch processor (`pkg/tools`), the embedding
client (`pkg/clients/embedding`) and the chunkers (`pkg/memory`), with model
checking configurations for TLC and proofs checked by TLAPS. `PROJECT.json`
lists the runs, the source lines each definition stands for, the hazards the
properties are aimed at, and the theorems.

    tlc -workers 2 -config TaskManager.cfg TaskManager.tla    # one run
    tlapm TaskManagerProofs.tla                               # the proofs

## The system

A client creates a *task* with a goal. A language model plans it in *phases* of
*steps*; the executor works through the plan, asking the model what to do at
each step; clients may change the plan, record findings, decisions and errors,
and delete the task at any time. Everything a task knows is kept in three parts,
`task`, `findings` and `progress`, in memory and in storage.

| Part (source) | State | Operations | Talks to |
|---|---|---|---|
| Task data (`types.go`, `constant/task.go`) | three parts behind pointers that may be nil | | |
| Manager (`manager.go`) | `activeTasks`, `viewActionCount`, under one RWMutex | create, update a phase, complete a step, record errors, decisions, findings, tool calls, view actions, resources, test results, delete | storage, synchronously, under its lock |
| File storage (`storage.go`) | a directory per task, three JSON files and Markdown copies, one RWMutex | save, load, delete, list | the manager; the mirror goroutines |
| Database storage (`storage_db.go`, `repository/xormimplement/task.go`) | three tables; in hybrid mode a file mirror | the same, plus queries and statistics | the database, a goroutine for each mirror write |
| Executor (`executor.go`) | none of its own: pointers into contexts while a run lasts | execute a task, a phase, a step | manager, model client |
| Planner (`planner.go`) | none | plan, refine a phase | model client |
| Service (`service.go`), HTTP API (`controller/`, `router/`) | sessions in a map under an RWMutex | one handler per request, panics are recovered | all of the above |
| Sessions, action and error trackers (`executor.go`) | counts per task, without a lock | hooks before and after an action, three strikes, steps with retries, stop check | manager |
| Context engineering (`context_engineering.go`) | none: a request reads the live task three times | compress tool results, summarise, collect references | manager, model client |
| Batch processor (`pkg/tools/batch_data.go`) | channels for items, cache and slots, a mutex, a WaitGroup | start, stop, send | handler goroutines |
| Embedding client (`pkg/clients/embedding`) | an LRU cache: a map and a linked list under a mutex | embed texts in batches, with retries | external service |
| Chunkers (`pkg/memory/chunker.go`) | none | cut a text, falling back from one strategy to the next | |
| Summarizer (`pkg/memory/summarizer.go`) | none | one model call | model client |
| Model, HTTP, redis clients, configuration, logging | | pure I/O | |

What is hard:

* *Partial failure.* Memory changes first, then three files or tables are
  written one after the other; a write may fail or the process die between two,
  or inside one, since `os.WriteFile` truncates first. Nothing is rolled back.
* *Pointers that outlive the lock.* `GetTaskContext` answers with the cached
  context or, after a restart, with a copy nobody updates. A run keeps it for
  its whole life without a lock, while other runs and clients change the task.
* *Ghosts.* A missing file loads as a nil part and never as "not found", so an
  operation on a deleted task caches an empty context and may panic on it.
* *Locks taken part by part.* A context is three loads, a listing a lock inside a
  lock, a save of a row two statements, a session's rule several operations of
  the manager: others come in between.
* *Unordered mirror writes.* In hybrid mode each write of a part to the files is
  a goroutine of its own.
* *Fields read late.* The batch processor's goroutines read context and channels
  from the processor each time, so a restart changes them under their feet.
* *Positions.* The chunkers find pieces again in a text whose blanks have been
  trimmed, and measure separators as one byte.
* *Liveness.* A run stops at the first failure; a quiet batch must still go out;
  a listing must not wait for the writer that waits for it.

## Modules

| Module | Models | Run by |
|---|---|---|
| `TaskContext` | the data, and each handler's pure effect on it | `TaskManager`, `Executor`, `Sessions` |
| `TaskManager` | the Manager over file storage, failures and restarts | `TaskManager.cfg` |
| `Executor`, `MCExecutor` | runs of one task beside other clients | `Executor.cfg`, `ExecutorRetry.cfg` |
| `Sessions`, `MCSessions` | the rules of a session, called side by side | `Sessions.cfg` |
| `ContextEngineering`, `MCContextEngineering` | the optimized context of a task that changes | `ContextEngineering.cfg` |
| `RWMutex` | `sync.RWMutex` with its writer preference | `StorageLock`, `Repository` |
| `StorageLock` | the locks of manager and file storage | `StorageLock.cfg` |
| `HybridStorage` | database, mirror and mirror goroutines of one task | `HybridStorage.cfg` |
| `TaskTables` | what the database storage promises | refined by `Repository` |
| `Repository`, `MCRepository` | the database storage, statement by statement | `Repository.cfg` |
| `BatchProcessor` | the batch processor over restarts | `BatchProcessor.cfg`, `BatchLiveness.cfg` |
| `RecencyCache` | what the embedding client's cache promises | refined by `LRUCache` in `Embedding` |
| `LRUCache` | the cache's map and linked list | `Embedding` |
| `Embedding`, `MCEmbedding` | concurrent requests for vectors | `Embedding.cfg` |
| `Chunker`, `MCChunker` | the three chunkers and their fallbacks | `Chunker.cfg` |
| `TaskManagerProofs`, `ExecutorProofs`, `StorageLockProofs`, `RepositoryProofs`, `EmbeddingProofs`, `SessionsProofs` | inductive invariants and theorems of one module each | tlapm |
| `BackgroundProofs` | those of `BatchProcessor` and `HybridStorage` | tlapm |
| `TextProofs` | those of `Chunker` and `ContextEngineering` | tlapm |

Where one module holds the proofs of two components, one of the two has its
component in the names of its specification: `HybridSpec`, `ChunkSpec`.

Names beginning with `Faulty` are variants of a definition with a plausible
mistake in it; no specification uses them. They show that a property can fail:
with the variant in place of the definition, TLC finds the property violated.

### TaskContext and TaskManager

`cache[t]` is the entry of `activeTasks` (`Nil` when there is none), `disk[t]`
the three JSON files, each of which may be missing (`Nil`) or truncated
(`Corrupt`). Each exported mutator is one action, since `Manager.mu` is held from
beginning to end. All of them share the shape of `Mutate(t, touched, edited,
saves, credit)`: load the context unless it is cached, change it, panic on a nil
part, and save a list of parts, with four outcomes: saved, failed at any point
(answered with an error, memory keeps the change), died at any point, panicked
(recovered by the router, memory keeps what was done). Saving writes the parts
in the order of `SaveContext`, so a save cut short leaves a prefix of them, and
possibly one torn file.

`life`, `unsaved` and `acked` record what callers were told; no action of the
code depends on them except that requests name ids that were once handed out.
Texts, times and the contents of logs are left out: a log is its length.

### Executor

`active` is the task in the cache, `file` its `task.json`, which a write can leave
truncated (`Corrupt`); of the other two parts only `others` is known, whether one is
torn or gone, since that decides whether a context loads or a call panics: their
contents are left to `TaskManager`. `run[r]` is a request in the middle of
`ExecuteTask` or `ExecutePhase`, with the place it has reached and the two
context pointers it holds: `outer`, got by `ExecuteTask`, and `inner`, got anew
by each `ExecutePhase`. A pointer is `Shared` (it is the cached context: the run
sees every later change) or a private copy. Each critical section of the manager
and each read of the shared context is a step, and between two steps other runs,
clients, a deletion or a restart may come. The model's answer is the choice
whether a decision is recorded. The errors of `AddDecision` and `CompleteStep`
are dropped, as in the code. Each call of the manager has three answers, ok, an error
or a panic. `SaveContext` writes `task.json` first and can fail at it or behind it; a
death during a save is a save that fails and then a restart, two faults. A deletion
drops the cached context and then may fail with the files removed in part; `bereft`
marks the runs that were in a phase when that happened. The ids of phases and steps
are the language model's and may repeat: `ConvertToTaskPhases` takes them over
(`planner.go:176`), and `CompleteStep` reaches the first step with an id. The status
that `ExecuteTask` writes without the lock is set as the context is fetched: no
property is about it. `Init` is what `Service.CreateTask` can leave
behind: the planner's phases in memory, and in the file the same or, as the
error of that save is dropped, the default plan.

### Sessions

`at[c]` is the step a call has reached and `call[c]` its local variables.
`PreActionHook` reads the mark, clears it and counts in three steps,
`PostActionHook` is one operation of the manager; `TrackError` reads the count,
writes it and records the error, `ResolveError` records and then deletes: the map
has no lock, and two calls that meet in it may lose a count or stop the process
(`Crash`, Go's "concurrent map writes"). `met` remembers that they did.
`ExecuteStep` makes up to `MaxRetries` attempts, each ending in success, an
error, a result without success, or one that says nothing at all.
`CheckCompletion` looks at the phases twice. `Mixes` names the sets of rules
whose calls are made side by side: those that share state. A behaviour picks one
mix, which keeps the instance small and loses no interleaving that matters.

### ContextEngineering

A text is a sequence of items, each with a width and the references that can be
read in it; a tool result is a sequence of lines. `request` walks through
`BuildTaskContext`: the text of the task and the compressed tool calls, if it is
over the threshold the summary of a text built anew, the answer of the model or
its failure with the cut that replaces it, and last the references, read from the
original calls. The width of a text is a recursive sum over its items, and
`extractReferences` picks the k-th reference by counting, which the proofs can follow.
In between `Record` adds decisions and errors to the live task.
`known` remembers what had been recorded when the client asked.

### RWMutex, StorageLock

`RWMutex` counts the read locks of each process, and has the writer that has
announced itself: from then on a read lock waits, also for a process that has
one. `StorageLock` puts `Manager.mu` and the storage's lock around the files of
one task: a listing (`ListTasks`, which takes the read lock and takes it again
for each entry), a reader (`GetTaskContext`, which loads outside the manager's
lock), operations and deletions under it, and `Service.CreateTask` storing a plan
without it. A part on disk is the number of changes in it, so that a context
whose parts come from different operations shows.

### HybridStorage

A part is represented by a version. `objects` are the contexts the process has
built, `pending` is the bag of goroutines that have not run; a goroutine holds
the object and writes what it is *by then*, which is why order among the
goroutines of one object does not matter. Any call may fail: an upsert after the row
is stored or before, a deletion after its commit took effect or before, a file write
with the file as it was or truncated (`Torn`), a removal half-way, and a death can
fall inside either. `behind` collects the parts of which the code does not promise
that the file follows: their last write failed in the database or in the files (the
goroutine only logs it), their goroutine died with the process, they were last
written from an object the manager had dropped in a deletion that failed, a write of
them was outstanding when the task was deleted, or its deletion answered an error
although the rows are gone.

### Repository and TaskTables

`rows[b][t]` is the sequence of rows a table has for a task: nothing in the
schema forbids a second one in the findings and the progress. A save locks
`DBStorage.mu`, reads, and inserts or updates; a deletion is a transaction of
three statements on rows of its own until `Commit`, whose outcome can be unknown;
a query counts and then finds; the statistics are five counts. Any statement may
fail and the process may die between two. `KeepsPromise` says that these steps
implement `TaskTables`, in which a save sets one row and a deletion removes three
rows in one step, under the mapping that takes the first row of each table.

### BatchProcessor

One dispatcher and one ticker per call of `Start`, and the handler goroutines.
`slots[e]` is the `threadChan` made by the e-th `Start`; a worker or handler
remembers the channel it waits on, because the field of the processor is read
once, when the channel operation begins. `Process` and `FlushQuiet` are the
critical sections of `cacheChanLock`; a worker with a batch keeps the lock while
it waits for a slot. Go's select is the choice between `Exit` and `Receive`.

### LRUCache, RecencyCache, Embedding

`LRUCache` has the nodes with their `prev` and `next` between two sentinels and
the map, and `AddToHead`, `RemoveNode` and `MoveToHead` rewrite links as the code
does. `Embedding` is the requests: look up each text, ask for the others in
batches, wait and ask again after a failure, put the answers one by one. Other
requests run between any two look-ups or puts, each of which holds the cache's
lock. `KeepsMostRecent` says that the list, read from head to tail, implements
`RecencyCache`, a sequence of entries in the order of their use. The service is
outside: it answers in order, or with too few vectors, or not at all.

### Chunker

A text is a sequence of classes of bytes, among them three kinds of blanks, as
the separator expression, `TrimSpace` and the search for a paragraph each know other
ones (`Spaces`, `Blank`, `Skipped`). A chunk is the sequence of positions it
was copied from, with a mark for inserted separators, so that losing, doubling
and misplacing content can be told apart. One step is one iteration of a loop of
`splitParagraphs`, of the packing loops of the paragraph and the sentence
chunker, or of the fixed chunker; ends of loops decide on the fallback. With an
overlap the fixed chunker appends its last chunk for ever; the model keeps one copy,
which keeps its states finite and says the same of what the chunks hold.

## What the runs show

| Run | Bounds | States | Shows |
|---|---|---|---|
| `task_manager` | 1 task, 2 phases of 1 step, 2 log entries, 2 faults, threshold 2 | 221,597 | `SavedPartsMatchMemory`, `AckedErrorsKept`, `CreatedTasksAreWhole`, `DeletedStaysDeleted`, `CompletedWithAllPhases` |
| `executor` | 2 runs, 2 plans, 1 call of another client, 1 fault | 2.5 million | `MarkedPhasesAreDone`, `SavedStepsStayDone` |
| `executor_retry` | 1 run, 3 plans, 1 decision, 1 call, 2 faults | 665,652 | `RetriedRunsFinish` |
| `sessions` | 2 callers, 1 key, 2 phases of 1 step, 2 attempts, threshold 2, 5 log entries | 813,818 | `PlanIsReread`, `StrikesAreCounted`, `FailuresAreOnRecord`, `StopIsJustified` |
| `context_engineering` | 3 tool calls of 2 tools, 2 results, 3 records | 775,044 | `ReferencesAreKept`, `NewestRecordsAreShown`, `AnswersAreBounded` |
| `storage_lock` | 1 listing, 1 reader, 2 operations, 1 plan, 4 calls | 137,742 | `NoTornReads`, `ManagerLoadsWhole`, `ReaderAheadByOne`, `CallsEndOrStandStill` |
| `hybrid_storage` | versions to 3, 4 goroutines at once, 2 faults | 8.1 million | `MirrorConverges` |
| `repository` | 2 callers, 2 tasks, 3 statuses, 2 versions, 1 fault | 1 million | `OneRow`, `PagesMatchTotals`, `StatsAddUp`, `KeepsPromise` |
| `batch_processor` | 3 items, queue, cache and slots of 1, 2 starts | 1.9 million | `ItemsAccounted`, `HandlersWithinLimit` |
| `batch_liveness` | 5 items, queue 2, 1 start | 13,758 | `SentItemsAreHandled` |
| `embedding` | 2 clients, 3 texts, cache of 2, batches of 2, 2 attempts, 2 faults, 3 requests | 248,391 | `AnswersMatchTexts`, `CacheHoldsTrueVectors`, `KeepsMostRecent`, `RequestsEnd` |
| `chunker` | texts of up to 4 of 7 tokens, 12 configurations | 160,057 | `ContentKept`, `NothingTwice`, `SpansHoldTheirText`, `ChunksBounded`, `ChunkingEnds` |

The type invariants of the modules that are proved about are checked too.

*TaskManager.* `SavedPartsMatchMemory`: a part whose last change was answered
without error is the same in memory and on disk; this is what each handler's
choice between saving one part and saving all of them must get right.
`AckedErrorsKept`: the "log all errors" rule across crashes.
`CreatedTasksAreWhole`: no panic on a task whose creation was answered.
`DeletedStaysDeleted`: ghosts never write. `CompletedWithAllPhases`: the status
becomes completed only with all phases complete.

*Executor.* `MarkedPhasesAreDone`: a run never marks a phase complete and saves
it with a step open in memory or in the file, though it works from a pointer
that may be dead and ignores the errors of `CompleteStep`: the saving of the
phase writes the whole plan, which repairs the steps that failed to save. Two
exceptions are the code's: a second step with the id of an earlier one stays open,
and a phase that was under way when a deletion dropped the cached context, and then
failed, may go on with less than it had done. `SavedStepsStayDone`: a run writes no
stale plan back. `RetriedRunsFinish`: see
*Fairness*.

*Sessions.* `PlanIsReread` gives the price of the hook's three steps: with n
callers, n times the threshold and n - 1 more calls can go by before one sees the
mark. This holds for up to threshold + 1 callers; more of them can set a mark with
calls that were under way when the last one was set, and the bound is n times the
threshold and n (n - 1) / 2 more (with three callers and a threshold of one,
six calls do go by). `StrikesAreCounted` holds as long as calls of the tracker do not overlap,
and that is the most that can be said. `FailuresAreOnRecord`: a step is given up
only after `MaxRetries` attempts, those with a reason are in the log in their
order, and guidance is asked for only when the last ended with an error. `StopIsJustified`: a check that says stop names nothing left to do, unless
a phase changed between its two looks.

*ContextEngineering.* `ReferencesAreKept` follows a reference through four
functions, each of which drops some; it states exactly which survive.
`NewestRecordsAreShown`: the three reads of a changing task never hide what the
client had been told before it asked: of each kind, some record at least as new as the
last one known is in the answer, and so are all of the `Shown` that end with it.
`AnswersAreBounded`: when the model fails, too.

*Storage.* `NoTornReads`: the RWMutex keeps loads and listings from half-written
files. `ManagerLoadsWhole` and `ReaderAheadByOne`: a context loaded under
`Manager.mu` is one operation's, one loaded without it can be ahead by one error.
`CallsEndOrStandStill`: nothing blocks for good in the two locks but the nested
read lock of a listing. `MirrorConverges`: once the goroutines have run, in
whatever order, files and rows agree, or are both gone; what a failed call costs is
its own part, until it is saved again. `OneRow`,
`PagesMatchTotals`, `StatsAddUp`: what `DBStorage.mu` is worth in one process.

*Batches, vectors, chunks.* `ItemsAccounted`: each item is in exactly one place.
`AnswersMatchTexts` and `CacheHoldsTrueVectors`: no retry or eviction shifts a
vector to another text. `ContentKept`, `NothingTwice`, `SpansHoldTheirText`,
`ChunksBounded`: what a chunker must do with a text whatever it falls back to;
the bound is what the size checks really guarantee. No chunk begins behind its text;
one may end before it when a blank that the search does not know shifts it.

*Bounds.* Operations on different tasks share nothing but the lock, so one task
suffices for what is said about one; the proofs cover any set of tasks. Two
phases are the least for which completing one opens another, and an unknown id is
among the arguments. Two faults give a failure followed by a crash. In
`executor`, two runs and one client give every overlap of two phases with a third
party; plans with their ids in reverse order tell ids from positions, and those that
use the id of a step or of a phase twice, or have a phase without steps, are ones the
planner may return. The two faults of `executor_retry` are the least for a death during
a save. In
`sessions`, two callers meet in every pair of steps, and two attempts are the
least with a retry. In `context_engineering`, one call is older than the two that
are kept, a result is cut before its first path and has more paths than are kept,
and the threshold is reached by the task alone or only with its calls. In
`storage_lock`, four calls let a plan, a change and a deletion meet in one
listing. In `hybrid_storage` four goroutines allow all three of a save and one of
an earlier operation, or of an object dropped before. In `repository`, each page
has a task before or after it, and both callers can be in any two statements. In
`batch_processor` capacity one makes every channel full at once, and two batches
contend for one slot. In `embedding`, a request is longer than a batch and than
the cache, one asks for a text twice, and all overlap. In `chunker`, four tokens
give two paragraphs with blanks, a form feed, a wide space or sentence ends around
them that exceed the size of four bytes; one odd blank is enough to shift a position.

*Deadlock* is checked in the `TaskManager` and `Executor` runs. Everywhere else
the system may really stop: a store or a request at its bounds, a stopped
processor, an answered request, a listing that waits for its writer.

*Fairness.* `RetrySpec` of `Executor`: a run that was accepted takes its steps
(its model calls end), and its caller asks again for the whole task whenever it
can; strong fairness, because other requests come in between. This is an
assumption about the caller; the code itself gives up at the first failure.
Faults and calls of others are bounded, so eventually undisturbed attempts
remain. With two callers that both retry, each completion of a phase may reopen
the other's next phase for ever, so the property is stated for one. `FairSpec` of
`BatchProcessor`: goroutines are scheduled, handlers return, time passes, and
`sync.Mutex` lets a waiter in even if others take the lock in between (its
starvation mode), hence strong fairness on the lock. `FairSpec` of `StorageLock`:
goroutines are scheduled; weak fairness will do, as the calls are bounded and an
announced writer keeps readers out. `FairSpec` of `Embedding`: a request goes on,
and a call to the service returns or fails (an assumption about the connection).
`FairChunkSpec`: the program goes on.

## Where the code and its documents disagree

These were met while modelling; the properties above are stated so that they hold
beside them, and say where they stop.

* `manager.go:275`: `UpdatePhaseStatus` opens the phase after the one it completes
  whatever its status is; completing phase 1 again takes back phase 2. The plan's
  legend (`storage.go:374`) knows no way back.
* `executor.go:326`: executing a complete task answers "Task completed
  successfully" and leaves its status `in_progress`.
* `executor.go:131`: after a restart a phase runs on a private copy of the plan, so
  the prompt of a step does not show the decisions of the steps before it, against
  "read the plan before a decision" (`executor.go:17`).
* `executor.go:225`: the planner's ids are not checked (`planner.go:176`). Of two
  steps with one id `CompleteStep` completes the first, twice, and the phase is
  answered complete with the other open; of two phases with one id only the first is
  ever marked.
* `manager.go:593`: a deletion drops the cached context before the storage is asked.
  When that fails, a run under way goes on with the copy on disk, or panics.
* `storage.go:83`: a failed or interrupted write leaves a file that does not parse.
  While the task is cached the next save repairs it; after a restart every load
  answers an error and no retry finishes the task (`RetriedRunsFinish` excepts it).
* `storage_db.go:69` (and 125, 200, 261): a goroutine that cannot write or remove the
  files logs it and ends; they stay behind the rows until the next save of the part.
* `storage_db.go:124`: a mirror write that runs after the mirror's deletion brings
  the files back, and nothing removes them (`behind` excepts these parts).
* `storage.go:148`: `ListTasks` takes a read lock in a read lock. A save that asks
  in between stops the storage for good: `StandsStill` of `StorageLock`.
* `chunker.go:476`: the fixed chunker with an overlap steps back after the last
  chunk too and never ends; `chunker_test.go:53` expects it to
  (`ChunkingEnds` excepts it).
* `chunker.go:29` calls `MaxSize` the largest size of a chunk. The checks
  (`chunker.go:137`) measure a separator as one byte and cut only from `MinSize` on, so
  that chunks exceed it; `ChunksBounded` says by how much.
* `chunker.go:229`: the search for a paragraph goes over newlines, blanks, tabs and
  CRs, the separator expression (`chunker.go:209`) eats form feeds too, and
  `TrimSpace` vertical tabs and wide spaces: in "aaa\n\f\nbbb" the second paragraph is
  taken to stand at 4..7 and stands at 6..9. The start of a chunk with an overlap can
  be negative. Nothing but the tests calls the chunkers.
* `context_engineering.go`: the references of compressed calls are lost when the
  text is summarised as well; a later call of the same tool overwrites the keys of
  an earlier one; `IsSummarized` is set when the model failed.
* `executor.go:560`: the error tracker's map has no lock. `CompletionChecker` can
  say stop while `Task.Status` is not completed, as it looks at the phases.
* `batch_data.go`: after a `Stop` and a `Start`, a handler that returned before may
  give its slot back to the new channel: then more than `MaxThread` handlers run.
  A worker that waits with the lock for a slot of the old channel waits for good,
  and with it both sessions. Items left in the cache at `Stop` are dropped by the
  next `Start`. Two properties are stated for the first session for that reason.
* `xormimplement/task.go:32`: with a second process on the database, two saves can
  insert a row each, which `OneRow` excludes for one process.

## What is proved

For every value of the constants that satisfies the named assumptions:

| Module | Theorem | States |
|---|---|---|
| `TaskManagerProofs` | `TypeCorrect` | `Spec => []TypeOK` |
| | `SavedPartsAgree` | `Spec => []SavedPartsMatchMemory` |
| | `NoErrorLost` | `Spec => []AckedErrorsKept` |
| | `CreatedWhole` | `Spec => []CreatedTasksAreWhole` |
| | `DeletionIsFinal` | `Spec => []DeletedStaysDeleted` |
| | `CompletionIsWhole` | `Spec => CompletedWithAllPhases`, the action property |
| `ExecutorProofs` | `MarkedAreDone` | `Spec => []MarkedPhasesAreDone` |
| | `StepsStayDone` | `Spec => SavedStepsStayDone`, the action property |
| `StorageLockProofs` | `TypeCorrect` | `Spec => []TypeOK` |
| | `NoReadIsTorn` | `Spec => []NoTornReads` |
| | `LoadsAreWhole` | `Spec => []ManagerLoadsWhole` |
| | `ReadersAheadByOne` | `Spec => []ReaderAheadByOne` |
| `RepositoryProofs` | `NoSecondRow` | `Spec => []OneRow` |
| | `TablesImplemented` | `Spec => KeepsPromise`, the refinement of `TaskTables` |
| | `PagesTrue` | `Spec => []PagesMatchTotals` |
| | `StatsTrue` | `Spec => []StatsAddUp` |
| `BackgroundProofs` | `TypeCorrect` | `Spec => []TypeOK` of `BatchProcessor` |
| | `HandlersLimited` | `Spec => []HandlersWithinLimit` |
| | `NoItemLost` | `Spec => []ItemsAccounted` |
| | `MirrorTypes` | `HybridSpec => []HybridTypeOK` |
| | `FilesFollow` | `HybridSpec => []MirrorConverges` |
| `EmbeddingProofs` | `CacheTrue` | `Spec => []CacheHoldsTrueVectors` |
| | `AnswersTrue` | `Spec => []AnswersMatchTexts` |
| | `MostRecentKept` | `Spec => KeepsMostRecent`, the refinement of `RecencyCache` |
| `SessionsProofs` | `PlanReread` | `Spec => []PlanIsReread` |
| | `StrikesCounted` | `Spec => []StrikesAreCounted` |
| | `FailuresRecorded` | `Spec => []FailuresAreOnRecord` |
| | `StopsAreJustified` | `Spec => StopIsJustified`, the action property |
| `TextProofs` | `ContentIsKept` | `ChunkSpec => []ContentKept` |
| | `NothingIsHeldTwice` | `ChunkSpec => []NothingTwice` |
| | `SpansFit` | `ChunkSpec => []SpansHoldTheirText` |
| | `ChunksAreBounded` | `ChunkSpec => []ChunksBounded` |
| | `ReferencesAreTheFirst` | what `extractReferences` picks out of a result |
| | `ReferencesStay` | `Spec => []ReferencesAreKept` of `ContextEngineering` |
| | `NewestIsShown` | `Spec => []NewestRecordsAreShown` |
| | `AnswersAreShort` | `Spec => []AnswersAreBounded` |

*TaskManager* (`DataAssumption`, `ManagerAssumption`). All rest on one inductive
invariant, `IInv`: the first five properties and
`UnbornUntouched` (an id that was not handed out is not cached and has no
acknowledged errors). They need each other. That an acknowledged error is not lost
needs the created task to be whole, or the handler would skip the missing part;
wholeness needs memory and disk to agree on what is saved, or a failed save might
drop a part; and a deleted task's handlers change nothing because its context is
empty. `UnbornUntouched` is what makes creation start from nothing.

The argument goes through the shape the handlers share. `EditTaskSound` and its
siblings say what an edit may change and dereference; the `Mutate...` lemmas show
that any sound edit preserves each conjunct, under each of the four outcomes;
`HandlersInvariant` then needs no more than the right edit for each handler.
Creation, deletion, the view counter and the crash have lemmas of their own.
`CompletionIsWhole` is about steps: each one from a state of `IInv` either leaves a
cached task's status alone or is `UpdatePhaseStatus`, whose edit
(`WithPhaseStatus`) looks at the phases it leaves; a new task and a task read back
from its files after a crash were not in the cache before.

*Executor* (`DataAssumption`, `ExecutorAssumption`). A run decides by what it sees through
a pointer that may be a copy nobody updates; why is its decision right? Because the plan
only grows: `Covers(a, b)` says that b has the phases and steps of a, with their ids, and
every step that is completed in a, and each edit of the manager covers what it was made from
(`StatusCovers`, `CompletionCovers`). So what is completed in the
copy is completed in the plan (`Holds`), what a run has passed stays completed (`Passed`),
and a phase whose steps have all been passed has none open that its id reaches. Nothing is
assumed of the ids: a step that is first with its id in the copy is first with it in the
plan (`StepsCovered`, `FirstCovered`), and it is the one that `CompleteStep` completes.
`FileCovered` says that memory covers the file if that parses, except for the default plan
that is left on disk when the planner's could not be saved, in which no step is completed;
`Memory`, that there is a file as long as a task is cached. What a save leaves behind,
whole, torn or half-way, is in `SaveMoves`, and `RecordMoves` and `ChangeMoves` carry it
through every answer of the manager. A deletion is apart: it can set the plan back to what
is on disk, so `Holds` and `Passed` say nothing of the runs it leaves `bereft`, and after
a restart there is no run. `RunKept` carries every run that does not move over any step;
each action then has to explain only its own record.

*StorageLock* (`MutexAssumption`, `StorageAssumption`). `NoTornReads` is not
inductive: it needs to know why nobody writes. `IInv` counts the read locks of a
process by the place it is at (`ReadersCounted`), says that the announced writer is
the process in its writing section and no other (`WritersKnown`), that the lock is
held only without readers (`WriterAlone`), and that files are touched only under it
(`TouchedUnderLock`). One lemma per action, one step per conjunct.
`LoadsAreWhole` and `ReadersAheadByOne` are about what is in the files rather than who
may touch them, and have `VersionInv` on top of `IInv`. While the context is cached,
`FilesFollowMemory` says what a save has still to write: the task may be ahead of the
progress by one operation, never behind. Without it, `FilesAreWhole` says that the
files belong together unless a deletion is at work, and `PartsRead` that what a call
has read is still what they hold (under the manager's lock) or is ahead by no more than
one (without it, as a save writes in the order a load reads). In this model a context
leaves the cache only by a deletion, so before one an uncached context is one that has
not been changed yet.

*HybridStorage* (`HybridAssumption`). `MirrorConverges` speaks of the moments
without goroutines. On the way there, `WritesOutstanding` says that a part whose
file differs has some write, or the deletion, outstanding, and `CachedIsStored` that
the cached object is what the database has, so that the last write, whichever it is,
writes the right thing. A write that fails moves its part to `behind` and touches no
other, which is all that the failing alternatives of an action have to show; after a
deletion nobody knows the outcome of, everything is there. `Started` and `Ended` are what
is needed of bags.

*Repository* (`MutexAssumption`, `RepositoryAssumption`: finitely many tasks, pages
with natural limits and offsets). `OneRow` alone is not inductive: an insert has to
know that the row it did not find is still missing. `IInv` says so (`InsertsFirst`,
and `UpdatesOne` for the update), and that nobody else can have come between, because
whoever is in the middle of a write holds the lock (`WritersInside`). `CallsKnown`
ties each place in a call to the operation and arguments of its locals. Two lemmas
carry the steps: `Moved` for a caller that goes on while the rows stay, `Written` for
one that ends a write. The refinement needs the same invariant: an update replaces
exactly one row and an insert adds the first, so both are `TaskTables!Save`
(`SaveWrites`, `StoredSave`); a commit, also one that reports an error after it
reached the database, is `TaskTables!DeleteTask` (`StoredWithout`); every other
statement leaves the rows alone (`StoredKept`).
`PagesTrue` needs the readers as well: `LockInv` counts the read locks of a caller by
its place and knows the writer, as in `StorageLockProofs`, and `CountsKnown` says that
the total a caller has counted is still the number of rows when it goes on to the page.
`StatsTrue` says the same of five counts instead of one: `TalliesKnown` has each count
made so far equal to the tasks that have its status now, `StatusesKnown` has no task
with a status but the five of `constant/task.go` (hence `Statuses \subseteq
TaskStatuses` in the assumption), and five disjoint sets make up the total.

*BatchProcessor* (`BatchAssumption`). `HandlersWithinLimit` counts handlers, the code
counts tokens in a channel. `TokensSuffice` relates the two: in the first session every
handler goroutine, also one that has returned and not yet given its token back, and
the worker about to start one, has a token of its own. That there is only one such
worker is `BatchUnderLock`; that its token and the handlers' tokens are in the same
channel is `FirstSession`. `OneMessage` is there for the size of the cache.
`NoItemLost` holds over restarts too. `Hands` says what a worker can have in hand at each
place, so that a step that overwrites a message or a batch drops nothing; `Parted` says
that the seven places have the items sent and share none, `QueuedOnce`, `HeldOnce` and
`HandledOnce` that within the queue, the workers and the handlers none is there twice.
Each step moves one set of items from one place to the next (`Parted` is a predicate of
eight sets, so that a move is a fact about sets alone).

*Embedding* (`CacheAssumption`, `EmbeddingAssumption`). An answer is put together out of
order: what the cache had at once, the rest batch by batch. `Accounted` says where each
position that was looked up stands: it has its vector, it waits in `needRequest` behind
those already taken, or the service left it out, in which case the caller was told
nothing (`short`). `TrueAnswer` ties a batch of vectors to the positions it was asked
for, and `TrueResult` rules out another text's vector. The last step of `AnswersTrue` is
that nothing waits behind the end of the list.

For `MostRecentKept` the invariant `ListInv` says that some sequence of keys s is in the
list: the links form a chain of s between the two sentinels (`Place`, `Held(s)`), its
keys are distinct, they are the keys of the map, and there are no more than `Capacity`.
The list is followed edit by edit (`AddToHeadKeeps`, `RemoveNodeKeeps`,
`MoveToHeadKeeps`, and `OldestIsLast` for the node that is dropped), and `RecentKnown`
ties s to the refinement: the walk along `next`, by which `Recent` is defined, meets
the keys of s in their order. The walk is a recursive function, so what it yields at a
position is shown by a least counterexample and not by the library's induction. With
that each edit is a step of `RecencyCache` (`EntriesRenewed`, `EntriesAdded`,
`EntriesCut`).

*Sessions* (`DataAssumption`, `SessionsAssumption`: finitely many callers). Each property
has an invariant of its own on top of the types; the properties speak of calls that have
ended, the invariants of every place inside one.

* `PlanReread`: `RereadInv` counts the callers that are about to clear the mark and
  those about to count a call. A clearing can take back one mark, so the budget of calls
  that go by unseen depends on how many clearings are still to come (`Bounded`). The
  property was first stated with n - 1 more calls for any n; that could not be made
  inductive beyond threshold + 1 callers, and TLC found the counterexample with three
  callers and a threshold of one. `MarksGrow` and `MarksMonotone` are the arithmetic.
* `StrikesCounted`: `StrikeInv` says that as long as calls have not overlapped one caller
  at most is in the tracker, what it has read or added (`InHand`), and that the count of
  a key is that of the log unless that caller is between the count and the entry
  (`Ahead`). A resolution makes `Since` empty and a strike makes it one larger, with the
  next number (`SinceRecorded`); what is recorded for other keys changes neither
  (`SinceKept`).
* `FailuresRecorded`: `RecordInv` says for each caller that the attempts in the log are
  those it will answer for, the one it is about to record excepted, all of them below
  the attempt it is at. `Records` ties an entry to its caller, so that no step of
  another caller, not even a resolution that writes into the log, changes that.
* `StopsAreJustified`: a check that said stop and has not been told of a change still
  sees no open phase (`StopInv`); only a change of a phase could open one, and that
  marks every check under way (`ChangeMarks`).

*Chunker* (`ChunkerAssumption`: texts are sequences of the six classes, the numbers of
a configuration any integers, since `NewChunker` mends them). The theorems are about
texts of every length. Half of the argument is about the operators: `Parts` and
`Sentences` are computed once from a text, and `PartsAre` and `SentencesAre` say that
their spans follow one another and leave nothing solid out, which rests on `InOrderIs`
(a finite set of spans, listed by counting how many begin before). The other half is
`ChunkerInv`: the words of the pieces are in the order of the text (`WordsInOrder`) and
hold all that is solid (`WordsHoldAll`), at every stage and through every fallback. The
search for a paragraph never passes its beginning, whatever blanks come before, and when it knows all of them
(`Findable`, `GapIsSkipped`) it stops exactly there (`Located`, `PiecesFit`).
`AddPieceIs` takes the packing step apart into the four things it can do (`Skips`,
`Begins`, `BeginsAnew`, `GoesOn`), and each theorem has its own invariant over them:

* `ContentIsKept`: what has been gone through is in the chunks or in `current`
  (`GoneThroughHeld`); a fallback throws the chunks away with the position.
* `NothingIsHeldTwice`: without an overlap what is held comes before what is to come
  (`HeldInTurn`).
* `SpansFit`: `current` lies between `currentStart` and the end so far, with an overlap
  only behind the end less the overlap (`CurrentFits`).
* `ChunksAreBounded`: the bound is the largest of three that the three checks leave open
  (`SizeBoundIs`); the property is inductive beside `ChunkerInv`.

*ContextEngineering* (`ContextAssumption`: a result is a sequence of lines, and one that
begins with a reference shows it). `ContextInv` follows a request: the calls are those
the client has, compressed (`CallsAreThose`; the client sends no other while it waits),
what was known is still known (`KnownStays`, the records only grow), and the text has
what the answer must have as soon as it is ready (`NewestAre`: all of the last `Shown`
up to the record that was the newest when the text was built, `AllAreListed`,
`CallsAreShown`,
`TextFits`). `WidthOfAppend`, `JoinedWidths`, `CutIs` and `ListedIs` are the algebra of
texts; that a sum over a text exists, is unique and depends on the summed items only
(`SumsExist`, `SumsAgree`) is shown by a least counterexample. `ReferencesStay` follows a
reference of a recent call to its key, which only a later whole call of the same tool can
have taken (`RecentReference`), and one of an older call to the line that stands for it
(`OldReference`). `ReferencesAreTheFirst` shows that counting picks the references it
should.

Every invariant and every action property that a run checks, and both refinements, are
proved. Only model-checked are the liveness properties: `RetriedRunsFinish`,
`SentItemsAreHandled`, `CallsEndOrStandStill`, `RequestsEnd` and `ChunkingEnds`. Liveness
under fairness and `ENABLED` are out of the prover's reach and stay with TLC.

## Not modelled

* Data races: the mirror goroutine marshals an object the manager may be
  changing, and `ExecuteTask` writes the status without the lock. Both are atomic
  here. `WaitGroup` misuse panics in the batch processor, and `Start` replacing
  its fields one by one.
* Several processes over one database.
* `StartSession` holding the service lock over the creation of its task
  (`service.go:181`; no model is called there), and the registry of sessions, which
  only grows. Two sessions never share a task.
* Statuses of a phase other than complete in `Sessions`; no property there tells them
  apart, and `TaskManager` and `Executor` have them.
* The size and the overlap that a single call of a chunker may give
  (`chunker.go:86-92`), unmended as they are: the fallbacks alone pass them, with the
  values they have.
* The texts themselves: prompts, the parsing of the model's answers, Markdown
  copies, JSON, times. `RefinePhase` changes nothing that is kept. `ContextBuilder`,
  `DelegateTask`, `ToolLoader` and `KVCacheOptimizer` have no caller and no state.
* The summarizer, the model and HTTP clients, redis, the user profile repository,
  configuration and logging: I/O without a state the rest depends on. Their
  failures are choices in the models that use them.

Modelled, although no route of `router/api.go` leads there: `ExecuteStep`, and the
hooks before and after an action and the error tracker of a session
(`Session.PreAction`, `PostAction`, `RecordError`), which are exported for clients
in Go.

## Plan

What is left:

1. An abstract storage (one durable context per task) that `TaskManager` without
   faults implements over `TaskTables`, so that the manager is composed with the
   database as it is with the files.
2. Two processes over one database, should the system ever be deployed so.
