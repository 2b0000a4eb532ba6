# EverMemory in TLA+

EverMemory gives an agent a long-term memory: a SQLite database of memories with
the code that stores, merges, ages, restores and recalls them (`src/core/memory`,
`src/storage`, `src/retrieval`, `src/tools`), rules of behaviour and profiles
derived from them, and the *Butler*, an agent of its own that works on that memory
between the user's sessions (`src/core/butler`). This directory holds TLA+ models of
the parts of it whose correctness depends on the order of events, the TLC runs that
check them and the theorems TLAPS proves about them.

Paths below are relative to the repository's `src/`, except `docs/`, `test/` and
`skills/`, which are beside it.

## 1. The system

### Components, their state and their operations

| Component | State | Operations | Correct when |
|---|---|---|---|
| Memory store: `core/memory/{service,lifecycle,housekeeping,archive,decay}.ts`, `storage/memoryRepo.ts`, `tools/{store,edit,restore,consolidate}.ts` | table `memory_items` | store (+ maintenance), getById, recall counter, edit, restore, consolidate, housekeeping | supersession leads somewhere, owners stay apart, archived means archived, passes settle |
| Conflicts: `core/memory/conflict.ts` | tags and rows of `memory_items` | detect (with awaits), resolve | a resolution undoes nothing |
| Automatic capture: `core/memory/autoCapture*.ts` | - | evaluate a turn, store what it calls for | what is captured follows the turn |
| Relations, compression: `core/memory/{relationDetection,compression}.ts`, `storage/relationRepo.ts` | table `memory_relations` | detect, infer, add, remove, traverse, compress | bounded, nothing lost, traversals agree |
| Embeddings and semantic index: `embedding`, `storage/semanticRepo.ts` | provider, batch queue, vectors | configure, embed, flush, set up, dispose | every promise settles once, with its own vector |
| Retrieval: `retrieval` | - | route, filter, rank, select, inject | nothing suppressed or of another owner is returned, and the foremost are |
| Retrieval feedback: `core/memory/{microReflection,selfTuningDecay}.ts`, `retrieval/adaptiveWeights.ts` | signals, session histories, weights, overrides | record, reference, finalise, adapt | every signal counts once |
| Intent: `core/intent` | - | analyse, enrich | drives the recall |
| Write policy: `core/policy` | - | clean, judge | decides what a text becomes |
| Behaviour rules and reflection: `core/{behavior,reflection}` | rules, reflections | reflect, promote, read (and review), freeze, roll back, retire | rules in force do not contradict each other, retired ones stay so |
| Session hooks: `hooks`, `runtime`, `core/memory/progressiveConsolidation.ts` | scopes, contexts, counters of sessions | start, message, tool call, end | what is injected is the user's |
| Profile, import and export: `core/profile`, `core/io`, `core/memory/transfer*.ts` | projected profiles | recompute, onboard, import, export | profiles say what the memories say |
| Butler agent: `core/butler/{agent,state}.ts`, `scheduler` | row of `butler_state` | `runCycle` for six triggers, ticks, tune, review, brief | overlapping cycles do not undo each other |
| Task queue: `core/butler/taskQueue.ts`, `storage/butlerTaskRepo.ts` | table `butler_tasks` | enqueue, lease, complete, fail | a task runs once, has one owner, and is finished |
| Insights: `core/butler/{attention,commitments,goals,producers,intelligence}` | insights, feedback, goals | scan, derive, surface, snooze, dismiss, prune | nothing derived twice, dismissed stays away |
| Cognition: `core/butler/{cognition,llmClient}.ts`, `openclaw/llmGateway.ts` | tokens spent, readiness of a gateway | runTask, invoke | budgets bound what is spent |
| Actions, protocol, standalone runtime: `core/butler/{actions,protocol,transports,runtime}` | counters, pending requests | execute, ask, answer, time out, shut down | limits hold, each promise settles, plans end |
| Worker pool: `core/butler/worker/pool.ts` | slots, queue, resolvers, drain waiters | dispatch, drain, terminate, thread events, timeouts | every call settles once, no lost wake-up, no lost thread |
| Evolution: `core/butler/evolution` | tuned parameters and their log | evolve, revert, restore | parameters equal their log |
| Connection and migrations: `storage/{db,migrations}` | schema, version, full-text table | open, run phases | whoever opened has the whole schema |
| Briefing, alerts, narrative, strategy overlay, ports, set-up, analytics, configuration, views | - | - | not modelled (section 7) |

### How they interact

Everything runs in one Node.js process (or a few, on one database file). The
host's hooks call the memory engine and start Butler cycles *without waiting for
them* (`openclaw/hooks/index.ts`, `runButlerCycle`). SQLite is called
synchronously (better-sqlite3), so a statement, and any code between two awaits,
is atomic for the process; the awaits are where things interleave: embeddings,
LLM calls, worker threads, timers, the bodies of deferred tasks. Several
processes share the tables (the plugin and the standalone runtime), so for
`butler_tasks` and for migrations every statement or transaction is a step of its
own.

A turn goes through most of the system: the host starts a session
(`SessionHooks`), the message is analysed (`IntentAnalysis`), memories are recalled
(`RecallSelection`, `MemoryIndex`) and rules injected (`BehaviorRules`); at its end
memories are captured (`AutoCapture`, `MemoryStore`, `ConflictScan`), related
(`RelationGraph`) and compressed, the profile is projected (`UserProfile`), rules are
promoted and retired, and a cycle of the Butler (`ButlerCycle`, `ButlerTasks`) leaves
tasks for the next start, whose insights (`ButlerInsights`) are put before the user.

### What is hard

- **Many writers of one table.** Seven kinds of operations merge, archive, revive
  and copy memories, each correct alone; chains of them are what a test hardly
  reaches. The same holds for rules, relations and insights.
- **No transaction around a pass.** Consolidation, housekeeping and imports are
  sequences of statements over rows fetched at their start: rows go stale within
  the pass, and a crash or a failing item leaves it half done.
- **Read, await, write.** Conflict scans, cycles, budgets, action limits,
  commitment scans, session ends and promotions all act on what they read before
  something else ran.
- **Four events that end a worker's task** (answer, error, exit, timeout), in any
  order, with `terminate` and `drain` beside them; likewise answer, timer and
  shutdown for a request to the host, and set-up, answer, failure, `configure` and
  `dispose` for an embedding.
- **Overlapping cycles and processes** on the task queue and on migrations, and a
  death with a lease held or a phase half run.
- **Every read writes.** Looking rules up reviews them and writes them back.

`PROJECT.json` lists each hazard at its line, with the properties that cover it.

## 2. The modules

| Module | Models | Kind |
|---|---|---|
| `MemoryStore` | the memory table and every operation on it | specification with its properties |
| `ConflictScan` | scans for conflicts and their resolution; EXTENDS `MemoryStore` | composition with its property |
| `MCMemoryStore`, `MCMemoryPasses` | inputs, requests and contents; the second adds the scans | instances for TLC |
| `MemoryStore_proofs` | theorems about the two | proofs |
| `TaskSettlement` | what a pool promises its callers | abstract specification |
| `WorkerPool` | `WorkerThreadPool`, which implements `TaskSettlement` | specification with its properties |
| `WorkerPool_proofs` | theorems about `WorkerPool` | proofs |
| `ButlerTasks` | `butler_tasks`, the queue service, the agent's cycles over them | specification with its properties |
| `MCButlerTasks` | two sessions' tasks and priorities | instance for TLC |
| `ButlerTasks_proofs` | theorems about `ButlerTasks` | proofs |
| `EmbeddingManager` | the process-wide manager of providers and batches | component |
| `RelationGraph` | the relation table, detection, inference, traversals, injection | operators |
| `MemoryIndex` | store, edits, recall and compression over the two | composition with its properties |
| `IntentAnalysis`, `RecallSelection` | what a message is taken for; how a recall chooses | pure algorithms with a reference |
| `MCMemoryIndex` | embeddings, relations, recalls | instance for TLC |
| `MemoryIndex_proofs` | theorems about `MemoryIndex`, what it is composed of, and `RecallSelection` | proofs |
| `ButlerInsights` | insights, goals, feedback, attention | component |
| `ButlerCycle` | `runCycle`, the state row, scans and tasks; EXTENDS `ButlerInsights` | composition with its property |
| `Cognition` | budgets and readiness of the model | specification with its property |
| `ButlerHost` | actions under their policy, the protocol, the runtime | specification with its properties |
| `MCButlerRuntime` | the three together | instance for TLC |
| `ButlerRuntime_proofs` | theorems about `ButlerCycle`, `Cognition` and `ButlerHost` | proofs |
| `BehaviorRules` | reflections, promotion, reading, retirement of rules | specification with its properties |
| `SessionHooks` | sessions, their contexts, turns and ends; EXTENDS `BehaviorRules` | composition with its properties |
| `MCSessionHooks` | users, proposals and the interval | instance for TLC |
| `SessionHooks_proofs` | theorems about the two | proofs |
| `WritePolicy`, `AutoCapture` | what a text becomes; what a turn calls for | pure algorithms |
| `UserProfile` | profiles under the writers of memories; EXTENDS both | specification with its properties |
| `DataTransfer` | snapshots and notes; EXTENDS `UserProfile` | composition |
| `RetrievalFeedback`, `Evolution`, `Migrations` | one component each | specifications with their properties |
| `UserData_proofs` | theorems about the last five | proofs |
| `MCUserData` | the last six | instance for TLC |
| `DataInduction` | induction over numbers, finite sets and folds, with sets in place of predicates | lemmas |

Definitions whose comment begins "Mutant of" are altered versions of an operator. No
specification uses them: each shows that a property notices that change
(`PROJECT.json`, "mutants").

### MemoryStore and ConflictScan

`mem` is the table, a row or `None` for each id. The two flags `active` and
`archived` are always written together and are one field. `accesses` and
`retrievals` saturate at the thresholds they are compared with. `today` is the clock
in days, which is the unit of every rule. `pass`, `request`, `mode`, `todo` and
`done` are the local variables of the pass that is running: the phase, its arguments,
the rows fetched and not yet visited, the rows visited while nothing was cut off.
`Fetches` is a query: ordered by the date of the last update, and cut by a limit.

| Action | Code |
|---|---|
| `Store`, `StoreInterrupted` | `MemoryService.store`: scope check, INSERT, then `maintainForNewMemory`; the process may die, or a statement throw, between the two or between any two writes of the maintenance |
| `GetById`, `Recall` | `incrementAccess`, `incrementRetrieval` (on a row fetched some awaits ago) |
| `UserMerge`, `Delete`, `Correct`, `Update`, `Pin`, `Unpin` | `evermemoryEdit`, one per action, behind `MayEdit` |
| `Restore` | `restoreArchived` in mode apply, one approved id |
| `ConsolidateStart`, `ConsolidateRow`, `ConsolidateEnd`, `MigrateRow`, `MigrateEnd` | `consolidate`: maintain each fetched row, then (daily, deep) `applyLifecycleMigrations` |
| `HousekeepingStart`, `MergeNext`, `MergeEnd`, `ArchiveNext`, `ArchiveEnd`, `ReinforceNext`, `ReinforceEnd`, `LimitNext`, `LimitEnd` | `MemoryHousekeepingService.run`, its four phases |
| `Crash`, `NextDay` | the process dies, or a statement throws, within a pass, in the middle of one row's maintenance (`MaintainInterrupted`) or between two rows; time passes |
| `ScanStart`, `DetectStart`, `DetectNothing`, `DetectEnd` (`ConflictScan`) | `scanConflicts`, `detectConflicts`: before and after each memory's awaits |
| `CaptureStore`, `Resolve` | the store of a captured memory with its scan; `resolveConflict` writes the row it was given |

`Maintain` is `maintainForNewMemory`: `Decides` says which outcomes the scan of the
near-duplicates can have (newest first; it beats rivals until it meets a better one),
`RivalScans` and `StaleScans` what the two queries return within their limits,
`MergeDuplicates` and `Archive` what is then written. The limits are the constant
`Limit`: in the code 20, 60 or 120 rows for a consolidation by its mode, 100 or 200 for
its migrations, 60 and 120 for the two scans of maintenance, 500 for housekeeping,
10000 for a type with a limit, and 10 merges a pass.

Abstractions: a content is one of `Contents`, and `Similar` says which pairs score as
near-duplicates (a symmetric relation that need not be transitive). Quality and decay
scores are sums of many features: quality keeps its most important one, `importance`,
as the order; a low decay score is a free choice in mode deep. A scope's `project`
behaves exactly as `chatId` and is left out. A pass is synchronous, so no other operation happens within it; between
processes this is an assumption. Which memories contradict each other is left open,
and one scan runs at a time.

### WorkerPool and TaskSettlement

One action per handler of the event loop; the two handlers with an `await`
(`terminate`, `handleTaskTimeout`) are two actions each. `slot` joins a thread
(`thread`, `owes`: what it was posted and has not answered) with the pool's record of
it (`listed`, `active`) and with the handler that awaits its stop (`asked`). The
thread itself is external: it answers at most once what it was posted, may throw or
exit at any time, and exits when asked to terminate. `ScheduleNext` is the shared end
of the handlers. `Choices` leaves open which idle worker is taken.

`TaskSettlement` says it to a caller: a dispatched call settles once, closing the pool
settles everything at once, a drain ends only at an instant where nothing is
outstanding, and, under fairness, all calls settle and all drains end. The refinement
mapping is the identity on `outcome` and `drain` and `closed <- phase # "open"`.

### ButlerTasks, ButlerCycle, ButlerInsights

`ButlerTasks` is the table: `status` is the column of that name for each idempotency
key; `stage` and `held` say where a cycle is and which keys it still has to enqueue or
which tasks it holds. `FindExisting` and `Insert` split `enqueue` where another
process may come between the SELECT and the INSERT. `Lease` is one `leaseTasks(1)`, a
transaction; `Begin` and `Finish` are the two sides of the await in `completeTasks`.

`ButlerCycle` is what the tasks do. `stored` is the row of `butler_state`, `cache` the
agent's copy, and each record of `cycles` holds the state that `runCycle` loaded and
will write back whole at `Finish`. A scan for commitments awaits the model between two
memories, so `InsertCommitment` is one action per memory with the references read at
`BeginScan`; of the references it reads those of the foremost `ExistingLimit` insights
(`ScansFor`), and `unread` remembers that a scan left some out. Tune, review, brief and the probe of the model write the same row beside
the cycles. The queue is a sequence here: leasing is the other module's question.
`ButlerInsights` holds the tables `butler_insights`, `butler_goals`,
`butler_feedback`, each operation one action; what is deleted or pruned keeps its place
and is not found any more. An entry in working memory is known by the cycle that wrote
it. History variables (`overlapped`, `unread`,
`lastMode`, `saved`, `verdict`, `shown`) are marked "not in the code".

### Cognition and ButlerHost

`Cognition`: `asked` are the calls that were found within the budgets and await the
gateway; `Answer` charges the table's tokens of the day and the process's field, each
as the code does (an answer that cannot be parsed is charged to the day only), and
`Fail` sets what the gateway then says of itself, which depends on its kind.

`ButlerHost`: `plan[p]` is a run of `ActionExecutor.execute`; a step is checked
(`Begin`), pending at the host (`HostAnswers`, `TimesOut`, `ShutDown`) and counted
when the plan goes on (`Continue`).

### EmbeddingManager, RelationGraph, MemoryIndex

The manager's two parallel arrays, timer, providers and batches are variables of
their own; a handler runs to its next await. `Configure` and `Dispose` reset them in
the middle of a set-up, which then installs what it has loaded, as the code does. A
batch goes to the remote provider in chunks of `ChunkSize` texts (100 in the code), any
of which may be answered short; `Concatenated` joins the answers as the code does, so
that the vectors behind a short chunk move up.
`RelationGraph` has the relation table as a set of rows with a key, upserts,
detection up to a limit, transitive inference, the recursive queries as operators on
paths with the limit of `findConnected`, and the injection into recalls of at most
`MaxInjected` memories (3 in the code) that are related to one of the first `ScanTop`. `MemoryIndex` composes both with the operations
that call them: `Resume` is what a handler does after its embedding has come, with
what it read before.

### IntentAnalysis and RecallSelection

Pure: texts are known by the families of patterns found in them, memories by their
traits, and scores by the order they give. `Analyzed` is the whole of the analysis
with a model's enrichment; `Recalled` goes from routing over candidates, policies and
ranking to the loop that selects, and `ForemostSelected` is its reference definition.

### BehaviorRules and SessionHooks

A promotion reads its rows, freezes what contradicts a candidate and judges the
candidate on what it had read (`Consider` folds over the candidates with both the
table and what was seen); every read reviews and writes (`ReadRows`). `SessionHooks`
has a message in three steps (its recall and its predictions are awaited) and the end
of a turn in four, so that the ends of earlier turns overlap later messages.

### UserProfile, DataTransfer, AutoCapture, WritePolicy and the rest

A memory is known by its place in the order of the projection. Writers that project
(store, restore, imports of snapshots, ends of sessions) and those that do not (edits,
passes, notes, the summary of a compression) or that end before they do (a store or a
restore that throws after its write, an import with a failing item) are actions of
their own; `behind` holds the users of the latter.
`WritePolicy` and `AutoCapture` say which rows a text or a turn becomes.
`RetrievalFeedback` counts rows by signal, and any of its statements may throw after
the entry in memory was made (`RecordFails`, `ReferenceFails`, `FinalizeFails`), which
leaves `orphans`; `Evolution` knows a parameter by its place
in the chain of values that its steps go through; `Migrations` has a transaction per
phase and process, with the version each process read.

## 3. The runs

Modules that share a run do not interact through shared state there: a variable
`focus`, chosen in the initial state, says which of them a behaviour is about, and the
others stay as they are. A run is then the union of its focuses, each of which is
exhaustive within its bounds; the components of one focus do interact. This leaves
combinations of focuses (such as a crash in a pass amid edits) to the proofs, which
are about the full specifications, and to the argument that they share no variable.

| Run | Instance | Checks |
|---|---|---|
| `memory_passes` | 3 ids (symmetric), 2 users, 1 chat, 2 days, near-duplicates of two qualities, a system row without scope, queries of 2 rows; focuses: passes (stores, recalls, crashes, light and deep consolidation, housekeeping of one user), edits (by a user and by nobody, restores), conflicts (scans with awaits, resolutions, edits in between); 2.4 million states | `TypeOK`, `SupersessionSound`, `NeverAcrossUsers`, `ConsolidationSettles`, `OnlyStaleResolutionUndoes` |
| `memory_housekeeping` | 3 ids, rows of a type with a limit of one, queries of 2 rows, memories of the first day, reads, pins, restores and housekeeping; 3.3 million states | `HousekeepingSettles`, `OnlyRestoreRevives` |
| `worker_pool` | 4 calls, 1 drain, 2 workers, a queue of 1; 449 thousand states | `TypeOK`, `WorkConserving`, `Accounted`, `NoThreadLeaks`, `Implements`, `DrainEnds` |
| `butler_tasks` | 2 cycles, 3 keys in two sessions, 2 tasks a lease, 1 crash; 28 thousand states | `TypeOK`, `RunOnce`, `OneOwner`, `LeasedFinishes` |
| `memory_index` | focuses: embedding (2 calls at once, 2 disturbances, a local model and a server), batches (3 calls, a queue of 2, chunks of 1, which may be answered short), graph (4 memories of 2 users, limits of 2 and 1, traversals of 2), recall (6 memories of every class, all modes, routes and intents, up to 3 memories that join); 339 thousand states | `EmbedAccounted`, `AnswersMatch`, `EmbedSettles`, `OnlyGraphCrossesScopes`, `AutomaticRelationsBounded`, `CompressionKeepsRelations`, `TraversalsAgree`, `ForemostSelected`, `SuppressedStaysOut` |
| `butler_runtime` | focuses: row and tasks (3 cycles, 2 at once, 1 restart), insights (3, with 3 reviews, scans that read 1 commitment), cognition (2 calls, 2 days), host (2 plans of 2 steps, limits of 1, 2 resets); 1.2 million states | `OnlyOverlapLoses`, `DismissedStaysAway`, `UsageBounded`, `ActionsBounded`, `PlansEnd` |
| `session_rules` | focuses: rules (2 statements that contradict each other, 2 rules, 2 reflections, 3 days, one user and everybody), hooks (1 session, 2 users, 2 messages, 2 ends at once); 2.3 million states | `OneVoice`, `RetiredStaysRetired`, `InjectedForUser` |
| `user_data` | focuses: memories, hints and transfer (3 places, 2 users), migrations (2 processes, 4 phases), feedback (1 session, 2 memories, 2 strategies, rows left behind for one memory at a time, tuning between sessions), evolution (2 parameters, 2 reverts); 856 thousand states | `ProfileCurrent`, `OnboardedOnce`, `UpgradeComplete`, `FeedbackSettles`, `ParametersSurvive` |
| `store_duplicate` | 3 ids | violates `StoreKeepsContent` (section 5) |
| `scopeless_store` | 3 ids | violates `EmptyScopeTakesNothing` (section 5) |
| `lease_ends` | as `butler_tasks` | violates `LeaseEnds` (section 5) |
| `progressive_interval` | 1 session, 5 messages, every turn reported as ended | violates `ConsolidatesRegularly` (section 5) |

The properties in words:

- `SupersessionSound`: a superseded row's successor exists and is another row.
- `NeverAcrossUsers`: whoever takes the place of a user's row, directly or over a chain
  of rows that each belong to a user, belongs to that user or to nobody, provided
  housekeeping is always called for a user. (Called without one, its merge phase
  compares rows of all users.) A chain may go on from a row of nobody to another user:
  see section 6.
- `ConsolidationSettles`, `HousekeepingSettles`: what a pass has visited, or its
  archive phase has left, needs no second visit until the pass ends, as far as its
  queries were not cut by their limits; what a query leaves out is not looked at.
- `OnlyRestoreRevives`: no operation of the store but restore makes an archived row
  live. `OnlyStaleResolutionUndoes` adds the scans: the resolution of a conflict from a
  row that was written meanwhile does, and nothing else; nor is a row superseded by
  one that was archived before.
- `WorkConserving`, `Accounted`, `NoThreadLeaks`, `Implements`, `DrainEnds`: no queued
  call beside an idle worker; an unsettled call is in one place; no forgotten thread;
  the pool implements `TaskSettlement`, liveness included; waiters are told.
- `RunOnce`, `OneOwner`, `LeasedFinishes`: a task's body begins at most once; what a
  cycle holds is running and its own; a leased task completes or fails unless its
  process dies.
- `EmbedAccounted`, `AnswersMatch`, `EmbedSettles`: every promise of an embedding that
  is not settled is in exactly one place that will settle it; it is settled with the
  vector of its own text, unless the server answered a chunk in front of it short; and it
  is settled.
- `OnlyGraphCrossesScopes`: a recalled memory of another user was reached by relations
  from one of the caller's, in at most two steps. `SuppressedStaysOut` says the same
  of what the policies suppress. Both state exactly how far the injection of related
  memories goes, since the code checks neither scope nor policy there.
- `AutomaticRelationsBounded`, `CompressionKeepsRelations`, `TraversalsAgree`: limits
  hold under every order of writers; a summary has its originals' outside relations;
  the recursive queries agree with reachability by levels, and what the limit of one
  leaves out is no nearer than what it returns.
- `ForemostSelected`: the selection's loops return what their reference says.
- `OnlyOverlapLoses`: as long as no two cycles, scans or tools touched the row at
  once, it holds what was last written into each part, and no commitment has two
  insights unless a scan found more insights than the 200 it reads; goals are never
  derived twice at all.
- `DismissedStaysAway`: an insight whose last review dismissed it is not put before
  the user, whatever is pruned. This is about that insight: a later one about the same
  commitment, which `OnlyOverlapLoses` says when there may be, is not dismissed.
- `UsageBounded`, `ActionsBounded`: budgets and limits, checked before an await and
  charged after it, are overrun by no more than what is under way at once.
- `PlansEnd`: every plan ends, whether or not the host answers.
- `OneVoice`: two rules in force that one user is shown neither repeat nor contradict
  each other, but for a rule of everybody promoted after one of the user's.
- `RetiredStaysRetired`: no review or write-back brings a rule back into force.
- `InjectedForUser`: what a context keeps and injects is its user's or everybody's.
- `ProfileCurrent`, `OnboardedOnce`: a profile says what the memories say unless a
  writer that does not project, or that failed before it did, came last; who was asked
  is not asked again.
- `UpgradeComplete`: whoever has opened the database has every phase, and the search
  index is that of the rows.
- `FeedbackSettles`, `ParametersSurvive`: no signal stays open after its session,
  except where the process ended or a statement threw between an entry and its row;
  a restart restores the parameters in use.

### Bounds and why they are enough

- *Three memories* are a merge with a third row that is superseded by, or supersedes,
  one of the two: the shortest chain in which an edge could break. Ids are never
  reused. *Queries of two rows* are cut by the third; two memories are not.
- *Two days* (`MaxDay` = 1, `StaleDays` = 1) put every row on either side of each
  threshold. *Thresholds of one* (`ProtectAt`, `SemanticAt`, `HotAt`) keep below and at
  each threshold apart; the memory runs take every row as frequently read (`HotAt` =
  0), so that reinforcement always writes.
- *Four calls on two workers with a queue of one* fill the workers, the queue and
  refuse the last; a thread is named after the call it was created for.
- *Two cycles and three tasks of which a cycle leases two*: both can hold leases and
  compete for the third. *Three cycles, two at once*: a lost update needs two, and the
  third finds its consequences.
- *A queue of two and three calls* make the embedding queue overflow with callers
  waiting, and batches of two texts in which, with *chunks of one*, a short first chunk
  moves the second vector up; *two disturbances* are a reset during a set-up and a second one, or a
  failure, before it ends.
- *Four memories with two relations each* make a chain of two steps beside a cycle,
  and a compression with a relation to the outside; *traversals and rankings of two* leave
  the third out.
- *A scan that reads one insight* of three leaves commitments out and inserts them again.
- *Limits of one and two plans* overrun the limit; *two days* meet a plan in the middle.
- *Two rules and three days* put a rule on either side of staleness and expiry with a
  rival; *two ends at once* are an end that overlaps a later turn and its end.
- *Two processes and four phases* where one cleans, one may fail and be tolerated and
  one fills the index.

### Fairness

- `WorkerPool`: weak fairness of the timeout of each active worker (a timer that is
  armed and not cleared fires), of the exit of a thread that threw or was asked to
  terminate (the guarantee of `worker_threads`), and of the resumption of the two
  awaiting handlers. That a thread answers is *not* assumed.
- `ButlerTasks`: weak fairness of each cycle's steps and of the start of a session. A
  task's body awaits LLM calls with time limits of their own.
- `MCMemoryIndex`: weak fairness of `Flush` (the batch timer) and of `MovesOn` for each
  call: a set-up is given up after 120 seconds, and a provider that was asked answers
  or fails.
- `MCButlerRuntime`: weak fairness of `TimesOut` of each request, whose timer is set
  when it is made, and of the continuation of each plan (the event loop). That the
  host answers is *not* assumed.
- `TaskSettlement`: weak fairness of settling each call and of releasing the drains;
  this is the promise, which `Implements` derives from the above.

The deadlock check is off where a bounded instance may stop: a closed pool whose
threads have exited (`worker_pool`), and the instances whose bounds on cycles,
messages, recalls or reviews are used up (`memory_index`, `butler_runtime`,
`session_rules`, `user_data`, `progressive_interval`).

## 4. The theorems

For all values of the constants that satisfy the named assumptions of the modules. The
assumptions say that the constants have their types, that `None` is no other value, that
`Similar` is reflexive and symmetric, that no memory precedes itself in the order of ids, that there is at least one worker, a finite set of
calls and of plans, that limits are positive, that no estimate of a call is below the
cheapest, that each phase of the migrations needs earlier ones only, that the threshold
of protection is not above that of migration (1 and 3 in the code), that what detection
makes of two texts is a type of relation or nothing, that the pool of a recall is finite
and `maxRecall` positive, that the places of memories are a finite set of numbers and a
profile holds a hint at least, and that the window of the evolution's log (100 entries)
holds all rungs of the parameters' ladders (60) and what may be reverted, which nothing
but a test does.

| Theorem | Property |
|---|---|
| `MemoryStore_proofs!TypeCorrect` | `TypeOK` |
| `MemoryStore_proofs!SupersessionIsSound` | `SupersessionSound` |
| `MemoryStore_proofs!UsersKeptApart` | `NeverAcrossUsers` |
| `MemoryStore_proofs!SuccessorsAreLive` | `SupersededByLive` |
| `MemoryStore_proofs!RestoreAloneRevives` | `OnlyRestoreRevives` |
| `MemoryStore_proofs!ConsolidationSettling` | `ConsolidationSettles` |
| `MemoryStore_proofs!HousekeepingSettling` | `HousekeepingSettles` |
| `MemoryStore_proofs!ResolutionAloneUndoes` | `OnlyStaleResolutionUndoes` |
| `WorkerPool_proofs!TypeCorrect` | `TypeOK` |
| `WorkerPool_proofs!NoLostWakeup` | `WorkConserving` |
| `WorkerPool_proofs!CallsAccounted` | `Accounted` |
| `WorkerPool_proofs!ThreadsAccounted` | `NoThreadLeaks` |
| `WorkerPool_proofs!SettlementSafety` | `Spec => Settlement!Spec`, the safety part of `Implements` |
| `ButlerTasks_proofs!TypeCorrect` | `TypeOK` |
| `ButlerTasks_proofs!RunAtMostOnce` | `RunOnce` |
| `ButlerTasks_proofs!LeasesExclusive` | `OneOwner` |
| `ButlerRuntime_proofs!BudgetsHold` | `UsageBounded` |
| `ButlerRuntime_proofs!LimitsHold` | `ActionsBounded` |
| `ButlerRuntime_proofs!LossesNeedOverlap` | `OnlyOverlapLoses` |
| `ButlerRuntime_proofs!DismissalsLast` | `DismissedStaysAway` |
| `ButlerRuntime_proofs!CyclesTypeCorrect` | the types of insights, the row and the cycles |
| `MemoryIndex_proofs!IndexTypeCorrect` | the types of the manager, the relations and the index |
| `MemoryIndex_proofs!EmbedsAccounted` | `EmbedAccounted` |
| `MemoryIndex_proofs!AnswersStayAligned` | `AnswersMatch` |
| `MemoryIndex_proofs!AutomaticStayBounded` | `AutomaticRelationsBounded` |
| `MemoryIndex_proofs!TraversalsAgreeThroughout` | `TraversalsAgree` |
| `MemoryIndex_proofs!RecallsStayInScope` | `OnlyGraphCrossesScopes` |
| `MemoryIndex_proofs!SummariesKeepRelations` | `CompressionKeepsRelations` |
| `MemoryIndex_proofs!RecallsTakeForemost` | `ForemostSelected`, of `SelectionSpec` |
| `MemoryIndex_proofs!SuppressedNeverRecalled` | `SuppressedStaysOut`, of `SelectionSpec` |
| `SessionHooks_proofs!SessionsTypeCorrect` | the types of rules and sessions |
| `SessionHooks_proofs!OneVoiceHolds` | `OneVoice` |
| `SessionHooks_proofs!RulesInjectedForUser` | `InjectedForUser` |
| `SessionHooks_proofs!RetiredForGood` | `RetiredStaysRetired` |
| `UserData_proofs!Upgraded` | `UpgradeComplete` |
| `UserData_proofs!FeedbackSettled` | `FeedbackSettles` |
| `UserData_proofs!ProfilesCurrent` | `ProfileCurrent` |
| `UserData_proofs!OnboardedForGood` | `OnboardedOnce` |
| `UserData_proofs!TuningSurvives` | `ParametersSurvive` |

Along which argument:

- **Supersession and owners.** The property of the edges is almost inductive: an edge
  is written only towards a row that is live or new, a stored row is never removed, and
  owners never change. What is missing is the merge phase of housekeeping, which
  compares rows it fetched earlier. `SupersessionInv` adds that those rows still match
  the requested scope (`MergeInScope`), so two rows merged by it have the owner the
  request names. Maintenance needs no such addition: it searches with the row's own
  scope, which names at least the row's user if there is one. Chains follow from edges:
  the rows of a user and of nobody are closed under them, so the least closed set
  (`Heirs`) is within.
- **Consolidation settles.** A visited row that stays live has won or has no rival, and
  its rivals are retired; later rows of the pass only retire rows and change nothing
  else of a live row's scope, type or content, so no new rival can appear; migration
  moves rows to the lifecycle `episodic` only with today's date, and so never makes a
  stale episodic row. A row counts as visited only when both its scans were whole
  (`ScansWhole`), so that they saw all its rivals. The proof carries one fact, that maintenance and migration give
  no live row a new rival or a new stale neighbour, across all steps of the pass.
- **Housekeeping settles.** While the archive phase runs, the rows that it has visited
  are settled, and they are all that was fetched, which is the whole scope if it was less
  than the limit; afterwards reinforcement only sets a row's date to today, and the limits
  only archive.
- **Live successors, no revival.** Both follow from one relation between the tables
  before and after a step (`MayCome`), shown for each writer. The stale candidates
  matter in one place: the merge phase compares rows it fetched before its own writes,
  so the invariant `MergeLive` says that what is still on its list is live.
- **Conflict scans.** A resolution whose row is unchanged writes what is there, so the
  table does not change; every other step of a scan is a step of the store or leaves
  the table alone. What remains is that a scan keeps rows of the right type.
- **The pool.** Calls, resolvers, active slots and outcomes correspond one to one, and
  that is inductive together with the counts of listed slots. The proof of every
  handler goes through one lemma about `ScheduleNext`, which says what it preserves
  from a state where the handler has already freed a slot. Work conservation needs the
  count of `Listed \cup Leaving`: the slot that a timeout frees is counted until its
  handler has scheduled.
- **The tasks.** A key is `none` or `queued` exactly while its body has not begun
  (`Unstarted`), what a cycle holds is running, without repetition, and apart from what
  others hold (`Leased`, `Apart`), and the task a cycle is about to begin has not been
  begun (`Positioned`).
- **Budgets.** `UsageBounded` counts what is under way at its worst: used, plus the
  largest answer of each call asked, within the budget plus the largest answer of every
  call. A call that is asked found room for its estimate; a call that is answered moves
  at most one answer from one side to the other. A new day needs `Affordable`: that a
  call was asked at all shows the budget holds the cheapest estimate.
- **Limits on actions.** In the same way a step that is allowed joins those not yet
  counted, of which there are never more than plans, and leaves them by being counted
  or by failing (`UnderWay`: it is the first step left of its plan).
- **Cycles.** While nothing has overlapped (`Calm`), at most one cycle is under way; the
  row, and the copy that this cycle will write back, agree with the mode, the version
  and the rate that were last set; and no memory it has left to scan has an insight. A
  cycle that begins, a tool or a probe with another under way ends the calm for good. A
  scan that read all references leaves no memory with an insight (`ScansFit`); one that
  did not sets `unread`.
  That no insight gets two active goals needs no calm: goals are derived in one step.
- **Dismissals.** The latest of the reviews about an insight is the dismissal, as long as
  that was the last verdict (`DismissalsLatest`): a new review ends either, and pruning
  takes away snoozes only.
- **Migrations.** What the file or a process has counted is applied (`Counted`), even
  where a second process sets the version back, since a phase is never undone; and the
  index is that of the rows from the transaction that fills it on (`Indexed`).

- **Embeddings.** Resolvers occur once over the queue and all batches, the queue and its
  texts have one length, and a call waits exactly while one of these holds it
  (`Accounts`, `Holds`, `Apart`). A flush moves a prefix from one side to the other, and
  an answer settles a batch at its positions. The n-th of the joined vectors is that
  of the n-th text unless a text in front of it got none, which only the remote provider
  allows.
- **Relations.** A handler that detects relations counts down what it may still write
  (`GoodTask`); each row it writes is one upsert, which either replaces a row of the same
  key or adds one, and what a row counts as automatic only grows by upserts of its own
  handler (`Continues`). Compression takes rows over by a fold, which is shown,
  by induction on the set that is folded, to keep every relation to the outside.
- **Traversals.** Each recursive query collects what paths reach, the reference what
  layers reach: by induction on the number of steps, a memory is in the layer `n` iff
  some path of `n` steps leads there, and a path with a repeated memory can be cut
  short, so that neither the ban on cycles nor the bound loses anyone. The limit of
  `findConnected` keeps what has fewer ahead of it than the limit, so whatever is ahead of
  a memory that is left out is no farther away, and whatever is returned is no farther
  either (`LimitCuts`).
- **Recalls.** A memory that was injected into a recall has a boost above zero; the
  boosts of a fold are zero but for memories at the ends of paths from the recalled
  ones, so a memory of another user among the results was reached by relations.
- **Selections.** `SelectionSpec` is any series of recalls, by a tool or for a message
  as any analysis takes it, with any query, scores and limit; the run `memory_index`
  makes them from small sets. The invariant `SelectionInv` needs no history, since each
  recall determines `selection` anew; the work is in its two loops. Over the anchors'
  types, by induction on the types tried: each memory taken is the first of its type,
  since no memory of that type was taken before. Over the ranked list, by induction on the places tried (`Follows`):
  either the limit is reached or the content of each place is there, and a memory that
  was added found the contents of all earlier places there.
- **Rules.** That two rules in force agree is almost inductive; a promotion judges by what
  it read at its start, so the fold over candidates carries that the table's rules in
  force are those it has seen or added itself, and that each rule it adds was compared
  with all of them. Reviews and write-backs never set `active`: retired rules stay so,
  and a read that interleaves with nothing cannot revive one.
- **Sessions.** A context and the messages in flight hold rules that were read for a user's
  scope, and the session's user never changes within a session.
- **Feedback.** A row is opened together with its entry, and closed with it: the
  finalisation marks all that is pending. Where a process or a statement ends between
  the two, the memory is among the `orphans`, until its rows are marked with those of a
  later recall in the session.
- **Profiles.** The projection of a user reads that user's memories only, so a writer that
  touches no memory of the user leaves it as it is, and one that does either projects
  again or puts the user among the `behind`. Imports need the owners on both sides: of
  the rows written and of the rows they replace. The onboarding hint comes first in the
  list of hints, which is cut at the end, so no projection drops it.
- **Tuned parameters.** The entries in force for a parameter climb its ladder in the
  order of the log (`Climbing`, `OnLadder`) and none is above the value in memory
  (`NoneAbove`). So two of them never stand on one rung, the log has at most as many
  entries as there are rungs plus what was reverted, and the window holds all of it
  (`WindowHolds`): what a start reads is the last entry in force. Without the assumption
  on the window the property fails, since the newest entry of a parameter that has come
  to its end may be pushed out by those of others.

Induction over data. The library's induction theorems take a predicate as a parameter,
which the provers cannot instantiate. `DataInduction` states the same principles for a
*set* `S`, the set of the arguments for which the predicate holds: induction on the
naturals and on an interval, on the subsets of a finite set, existence of recursive
functions and of the function behind a fold. They are derived from the library's
statement that the naturals are well-founded and from the definitions of the folds.

### Only model-checked

Liveness (`DrainEnds`, `LeasedFinishes`, `EmbedSettles`, `PlansEnd` and the
fairness part of `Implements`): temporal reasoning under fairness is beyond the prover.
The four violated properties cannot be.

## 5. Where the code and its documents differ

1. **Storing a near-duplicate can lose both copies** (`store_duplicate`).
   `maintainForNewMemory` merges the new row into an older one of higher quality and
   then archives the stale episodic rows of the scope, excluding only the new row
   (`core/memory/lifecycle.ts:211`). If the winner itself is stale it is archived, and
   nothing of what was stored is recalled. `test/lifecycle-maintenance.test.ts` expects
   one memory to remain.
2. **A scopeless system store takes over users' memories** (`scopeless_store`).
   `docs/CHANGELOG.md:133` says that an empty scope no longer matches all users' data
   and that system stores are exempt from the check; the exempted row is then
   maintained with a filter that names no user (`core/memory/lifecycle.ts:176`).
3. **Leases do not end** (`lease_ends`). `docs/CHANGELOG.md:25` promises lease-based
   execution; the query leases only `queued` rows (`storage/butlerTaskRepo.ts:70`), so
   what a dead process held stays `running`.
4. **Messages do not trigger consolidation under the host** (`progressive_interval`).
   `docs/CHANGELOG.md:86` promises a light compression every five messages; the host
   reports the end of every turn, and the engine's `sessionEnd` deletes the session's
   counter (`hooks/sessionEnd.ts:351`), so the count never passes one.

## 6. Observed beside the properties

What was met while modelling and is not, or only in part, the subject of a property:

- *Worker pool.* While a timed-out thread is terminated its place is taken, so more
  than `maxWorkers` threads may be alive (`pool.ts:173`); resolvers are keyed by the
  caller's task id, and a reused id replaces the first call's (`pool.ts:134`).
- *Tasks.* The idempotency key of a failed task blocks its next enqueue
  (`taskQueue.ts:41`). `session_end` deletes the session's scope before it starts a
  cycle (`openclaw/hooks/index.ts:229`). A tick that finds a task due runs none
  (`scheduler/triggers.ts:68`).
- *Memory store.* What lies beyond the limit of a query is never examined, and housekeeping
  reads the most recently updated 500 rows although it looks for stale ones
  (`housekeeping.ts:219`). A chain of supersessions may lead from bob's memory over one of
  nobody to alice's: a scopeless store is maintained with all rows, beats bob's and then
  loses to alice's. A superseded memory can be corrected once more (`tools/edit.ts:239`);
  housekeeping prefers the last access to the last update (`housekeeping.ts:233`) and
  is skipped for scopes that are in daily use (`hooks/sessionEnd.ts:314`); compression
  without a scope merges rows of all users (`progressiveConsolidation.ts:41`).
- *Embeddings.* The chunks of a batch are joined without a look at the `index` of each
  answer (`embedding/openai.ts:79`), so that a short chunk moves later vectors to other
  texts.
- *Commitments.* With more than 200 insights of commitments, expired ones included, a scan
  inserts some again with no other scan beside it (`commitments/watcher.ts:218`).
- *Feedback.* A recall or a reference whose statement throws leaves rows whose signal no
  session's end settles (`microReflection.ts:79`).
- *Index.* A vector computed for an older text may be written over a newer one, and is
  labelled with the kind of the provider current at that moment; update, merge, correct
  and restore leave the lexical index as it is; limits of full-text and cosine search
  apply before scopes are filtered; the originals' relations stay active after a
  compression; an upsert revives a relation that was removed.
- *Recall.* A need for targeted or deep memory returns at least four or eight rows
  whatever smaller limit was asked; a message longer than 24 characters may become an
  empty query, which matches everything; an enrichment that changes only the intent's
  type keeps the need and the types of the heuristics.
- *Rules.* A rejected candidate still freezes the rule that it conflicts with
  (`behavior/service.ts:97`); viewing rules counts as applying them; a snapshot keeps
  injecting a rule that was frozen in the middle of a session; the context that the end
  of a turn clears is not built again.
- *Profile.* Every store projects the profile before `sessionEnd` compares it
  (`sessionEnd.ts:254`), so that drift is hardly ever seen; onboarding reports
  completion even when its result is not completed.
- *Import.* A snapshot imported with `allowOverwrite` may move a memory to another
  owner; notes are imported as explicit statements and leave profiles as they are.
- *Cognition.* The day's budget counts prompt and completion tokens, the process's the
  total; the bridge reports no tokens, so no budget ever binds it; the process's count
  is never reset.
- *Evolution.* A step that rounds to nothing stalls a parameter before its limit
  (`parameterTuner.ts:111`); an override of the decay is never taken back.
- *Without a caller in `src/`*: `decayWeights`, `reinforceWeight`, graph statistics,
  `checkForContradictions`, `getCachedPredictions`, `hasPendingAlerts`, narrative
  writers, `completeGoal`, the question planner, the recording side of
  `microReflection`, and `ActionExecutor` but for tests.

## 7. Not modelled

- *Alerts, predictive context, proactive recall, active learning*: reports computed from
  memories without writes; their caches have no reader.
- *Briefing, strategy overlay, analytics, set-up, explain, browse and status views*:
  selection by fixed lists and formatting.
- *Two processes beside each other*, except where they share tables by design: `ButlerTasks`
  and `Migrations` have several; in the other modules one process writes. So the
  evolution's log has one writer, a profile is not projected by two processes at once,
  and no operation of another process falls within a pass.
- *A drain whose later lease throws* (`taskQueue.ts:66-72`), and a `fail` that throws itself
  (`agent.ts:486`): the tasks it holds would stay leased.
- *Narrative threads and question planning*: no caller of their writers.
- *Ports and adapters*: forwarding. *Configuration, text patterns, i18n, utilities*:
  constants and formatting; pattern families appear as the `signs` of texts.
- *Scores* of quality, decay, ranking and confidence: orders and classes in the models.
- *Lexical index*: a ranking, left open by `RecallSelection`.
- *Time budgets of single steps at a session's start and end*: the awaits they bound are
  modelled as ending at any time.

## 8. What is left

1. An abstract once-only task list that `ButlerTasks` implements, and an abstract
   "latest writer wins" row that `ButlerCycle` implements while nothing overlaps.
2. Briefing and alerts, should they come to write what others read.
