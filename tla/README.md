# TLA+ verification of the x2c runtime and translator

x2c compiles a superset of C to C. The repository holds the translator
(`src/src`), the runtime library its output links against (`src/lib`), and the
commands built on both (`src/commands`), all written in x2c itself (`.x`). The
translator runs on that same library, so a flaw of the runtime is a flaw of every
compiled program and of the compiler. The C under `src/bootstrap` is what the
translator makes of the `.x` files: every definition here is taken from the `.x`
source, and none from what is generated of it.

Most of the code is sequential data transformation that unit tests cover well.
What is hard to test is collected in a few places: first-use initialization of
statics on several threads, worker threads and their handles, non-local transfer
through user code, interning shared by threads, a cache keyed by borrowed
addresses, jobs and their pipes, the helper process that runs `meta` functions, the
workers the translator forks, and the builds that use earlier outputs again. This
project models those
places, checks them with TLC, and proves with TLAPS, for every value of the
constants, every safety property, action property and refinement that its passing runs check.

Contents

1. Inventory of the system
2. Modules, and how they correspond to the code
3. What the runs check and what they show
4. Bounds, symmetry and fairness
5. What is proved, and how
6. Disagreements between the code and its documentation
7. What is assumed of the programs that use the runtime
8. What is not modelled
9. Plan
10. Running it

## 1. Inventory of the system

### Components that are modelled

| Component | Source | State | Operations |
|---|---|---|---|
| Static initialization guards | `lib/static-init.x`, `src/emit/initialization.x` (the emitted calls) | per guard `ready`, `owner`, `payload`; one mutex, one condition variable; a wait edge per thread; release chains per thread and for the process | `x2c_static_acquire`, `_commit`, `_abort`, `_thread_release`, `_shutdown` |
| Worker threads | `lib/thread.x`, `lib/var/classes.x` (registration lock) | a handle's state, its captured policy and result stores; the live count; the once control; the registration lock and freeze | `start`, the worker's run, `join`, `free`, the shutdown hook |
| Error dispatch and transfer | `lib/exception.x`, `lib/error/*.x`, `src/components/try-catch.x` | the handler chain, the chain hidden by a dispatch, running arms, cleanup records, transfer frames, the records' count | `raise`, `push`/`pop`, dispatch, catch selection, unwinding, landing, the emitted `try`/`catch`/`finally`/`defer` |
| Parallel translation | `src/translation.x` | slots of live workers, captured output, the signal mask | `_start`, `_reap`, `_show`, `_forward_stop` |
| Canonical pools | `lib/pool/interning.x`, `pool/storage.x`, `pool/threads.x`, `string/storage.x`, `list/list.x`, `context.x` | a table of identities per level, the home of each identity | `lookup`, `intern`, `insert`, `intern_new`, `promote`, `own`, brackets, export |
| Match plan cache | `lib/match-cache.x`, `lib/match/sites.x` (borrowability) | entries with pins, bucket chains, a recency ring, two admission memos, an epoch | acquire, release, resynchronise, recycle, dispose |
| Processes and pipelines | `lib/process.x` | per job a table of process ids and statuses; the pipe ends open in this process, and which are close-on-exec | `start`, `status`, `ready`, `kill`, `cleanup`, the finalizer |
| Meta helper process | `src/meta-helper-client.x`, `etc/meta-helper.x` | the active helper, its pipes, unread replies, a reset that is due; in the helper the stack of bodies and the statics of a unit | a call, queries and nested calls while it waits, deadlines, restart, close; fork of a worker, the helper's watcher |
| Build reuse | `commands/build/build.x`, `workflow.x`, `src/deps.x`, `src/utils.x` | the generated outputs, the depfile, the record of a translation, a script's executable and its record | check, translate, publish, record, link, publish a script |

How they interact:

- Generated code calls the static guards; a failing initializer leaves them by an
  error transfer, through a cleanup record whose callback is `x2c_static_abort`.
- `Thread.start` captures the error policy, and freezes class registration. A
  worker's result lives in a pool and a scope of its own, sealed when the callback
  ends and exported into the joiner's pool. `Thread.shutdown`
  refuses to let the process go while a worker is live; only then are process
  statics released.
- Every constructor of a String or a List interns in the innermost pool of its
  thread and looks outward to the root, which all threads share under a lock.
- The Match cache borrows addresses of interned cells. It learns that an address
  may have been reused from `Pool.epoch`.
- The translator forks workers, each a copy of the process; they share only the
  captured standard error files and the signals the parent forwards.

- A job's children inherit whatever descriptors the process has open when they are
  forked, those of other threads' jobs included, except the ones that are
  close-on-exec by then.
- The compiler calls a `meta` function by a frame to its helper and answers the
  queries of the body while it waits, which may make further calls. A forked
  worker inherits the record and the pipe ends of its parent's helper.
- A build believes what an earlier one recorded: the depfile names the inputs,
  the record is a hash of their contents, and outputs, depfile and record are
  published one rename at a time.

The hard behaviours: threads that wait for each other through user initializers
(deadlock, lost wakeups, retries of failed attempts); joins, failures of native
calls and a registry read without a lock; transfers that start inside cleanup
code or callbacks; a probe and an insertion with another thread in between; a
cached address that names something else; signals between `fork` and the record of
a child; descriptors that leak through a `fork`; replies that race a deadline or the
end of a process; edits and failures between any two steps of a build.

### Components that are not modelled

Those marked *planned* carry state whose correctness is worth a model; the others
are pure functions or input and output.

| Component | Source | State and operations | What makes it correct |
|---|---|---|---|
| Pool storage (*planned*) | `lib/pool/storage.x` | blocks, slots, a depot, kept slots, promotion records; three kinds of lock | locks are taken in the order storage, child, parent; a slot is never free and named at once |
| Scopes (*planned*) | `lib/scope/*.x` | a tree of regions, allocations, shutdown hooks | each allocation is freed once; a hook may add hooks |
| Contexts and policies (*planned*) | `lib/context.x`, `lib/error/policy.x` | a stack of overlays of policy, handlers, pools and Match caches | closing restores exactly what opening saved, also after a failed open |
| Match and catch sites (*planned*) | `lib/match/sites.x`, `lib/error/handlers.x:295` | plans published once for the life of the process | a site is bound once, readers see it whole |
| Object classes (*planned*) | `lib/var/classes.x`, `lib/dispatch.x` | append-only rows behind a release store | a reader never sees a half-written row |
| Logger (*planned*) | `lib/logger.x` | sinks, a depth of delivery | sinks do not change while an event is delivered |
| Static initializer order (*planned*) | `src/cache.x` | a depth-first order | every initializer runs after those it uses; a cycle is reported |
| Values, conversions, containers, strings, lists, text, iterators | `lib/var/*`, `lib/map.x`, `lib/array.x`, `lib/string/*`, `lib/list/*`, `lib/iter.x`, ... | data structures with one owner | their algebraic laws |
| Match plans and machine | `lib/match-plan.x`, `lib/match-machine.x`, `lib/match/*` | compiled patterns | a plan matches what its pattern does |
| Lisp and macro values | `lib/lisp/*`, `lib/macrovalue/*`, `lib/meta.x` | an interpreter | evaluation rules |
| Project meta build | `src/meta-project.x` | a manifest of the project's meta modules | what BuildReuse says of a unit, for one more file |
| Files and paths | `lib/file.x`, `lib/path.x`, `lib/digest.x`, `lib/args.x` | none | input and output |
| Lexing, parsing, analysis, lowering, C emission | `lib/tokenizer.x`, `src/parse`, `src/compiler`, `src/transform`, `src/emit`, ... | trees | meaning is preserved |
| Linked meta code, driver, projects, diagnostics, commands | `src/meta-*`, `src/main.x`, `src/cli`, `src/commands/*` | options, reports | - |
| Bootstrap, packages, examples, unit tests, site | `src/bootstrap`, ... | generated C and samples | - |

## 2. Modules, and how they correspond to the code

Each component is one module whose header says what one step stands for, with the
properties in its last section. An `MC` module supplies the constants of a run, a
`_proofs` module the theorems. Operators marked *mutant* are not part of any
specification: each is a plausible bug of the definition that follows it, and
shows which property would notice.

| Module | Models | Refines |
|---|---|---|
| `StaticInit` | `lib/static-init.x` and the emitted calls | `StaticOnce`: one initializer at a time, visible once published |
| `Thread` | `lib/thread.x` with the registration lock | `Future`: runs once, delivers once, goes away after delivery |
| `ErrorTransfer` | `lib/exception.x`, `lib/error/*`, the emitted regions | - |
| `TranslationWorkers` | the worker loop of `src/translation.x` | - |
| `CanonicalPool` | interning over nested levels by several threads | - |
| `MatchCache` | `lib/match-cache.x` | `PlanCache`: least recently lent goes first, and nothing lent goes |
| `Job` | `lib/process.x` | - |
| `MetaHelper` | `src/meta-helper-client.x` and `etc/meta-helper.x` | `RemoteCall`: a body runs at most once, its own value or a failure, and no body left running by a failed call |
| `BuildReuse` | translation and scripts in `commands/build` | - |

### StaticInit

Each locked section of `x2c_static_acquire`, `_commit` and `_abort` is one
action, and so is each unlocked step in between: the evaluation of the
initializer (`Copy`, `Fail`), the reservation of storage (`Reserve`,
`ReserveFails`), the end of the cleanup record (`Leave`, `Unwind`). `running[t]` is
the stack of initializers a thread is inside of, so one thread's initializer may
use any guard, its own included. `pc = "lock"` with the thread in `asleep` is the
wait in `pthread_cond_wait`; `Disown` is the broadcast, and `SpuriousWakeup` what POSIX
allows. `Cycle` is the walk of `_cycle` along the wait edges, stated as
reachability (every closed set that holds the owner holds the caller) so that it
can be proved about. `Home` distinguishes process statics from `static threaded`
ones. `bytes` says what the storage holds, so that publication can be compared
with what a reader sees.

### Thread

`StartNew` to `StartEnd` are the steps of `Thread.start`, separated where another
thread can see the difference; `CreateFails`/`StartUndo` and `StartOnceRaises` are
its failures. `Boot`, `CallbackEnds`, `Seal` are the worker. `JoinClaim` is the
compare-and-exchange, `JoinRefused` the two cases `pthread_join` reports
(`EDEADLK`); a longer ring blocks. `Export` may lose the result; `Finish` is
`_finish_join`, which runs on every way out. A worker may start, join and free
handles like the main thread. `RegisterBegin`/`RegisterEnd` declare a class under
the lock that a start holds.

### ErrorTransfer

The program is not fixed. `stack` is the C stack, and from wherever the program's
own code runs it may open a `try` (with a catch, a finalizer or both), a `defer`, or
an observing handler that a deferred `Error.pop` removes; raise; or end its
innermost region. The other variables are the chains the runtime keeps beside the
stack. A pointer into a chain is the path from its root, so `prev` is `Front`, NULL
is the empty path and membership is `IsPrefix`. Dispatch offers a raise to one
handler per step; a selected catch starts `unwind`, which abandons frames whose
finalizer is running, drains the cleanup records down to the landing frame's
watermark and lands. Deferred bodies, finalizers and callbacks are program code
again and may do all of the above; `CallbackOpens` and `CleanupOpens` say which
regions they open in a run. A record is one unit of `errs`; a
cause is `hard` (must not return) or `soft`. Each check of the runtime that ends
the process sets `floor` to its reason.

### TranslationWorkers

A slice is its index and names its worker. The parent's steps are cut where a
signal may arrive: `Block`, `Fork`, `RecordSlot`, `Unblock` in `_start`; `Wait`,
`Capture`, `Drop` in `_reap`. `Forward` is the handler: it runs whenever a signal
is pending and not blocked, signals every live slot and ends the parent.

### CanonicalPool

A value is a content and an identity a pointer. `table[l][v]` is the identity
level `l` holds for `v`, `home[x]` the level whose release frees it. A thread's
levels are its own; only the root is shared, so a step is what one thread does
between two of its locks on the root. `Probe` with `Insert` are the two steps of a short
String, and of a String of any length that a buffer is finalized into
(`String.intern_free`, `_finish`), `Probe` with `InternNew` those of a List cell, `Intern`
the single one of `String.new` for a long String. A buffer may have been allocated in an
outer level and be larger than what it is finalized to, so `Insert` gives an
identity any home in the chain. `Raise` is `_promote_level` over the levels a promotion passes: published
where no equal identity is. A slot moves out when it lives further in; storage above 512 bytes (`Large`),
which a Scope owns, is moved to the last of these levels from wherever it was, and `sunk` records where that
was further out (section 6). `Own` stops at a level that holds another identity. `Export` interns in the level around the
private pool of a Context. `got`, `permanent` and `sunk` are history: the List cells constructors
returned, what `Pool.own` answered 1 for, and what a promotion moved further in.

### MatchCache

The ring (`prev`, `next`, `head`) and the bucket chains (`chain`, `bucket`) are
the links of the code; `Unlink`, `LinkMru`, `Touch`, `Insert` and `Remove1`
change them in the order the code does. `Chain`, and `Visited`, the walk of `_victim`,
are stated by closed sets, as `Cycle` is in StaticInit. `Emptied` is the removal of every
entry by `_resync` at once: what the links of free slots say is never read. `Admission` is `_admitted`: it
resynchronises with the pool epoch, asks the two memos and otherwise the pattern
(`Borrowable`). `Acquire` is one call: transient plan, hit, miss with a free or a
recycled slot, pressure (every entry pinned), or a raise. The pools around the
cache are three actions: a pattern is built at an address, its Strings become
permanent, a level is released with its cells. A plan is the
pattern it was prepared from, so that using a stale plan is visible. To `PlanCache` a
cache shows the keys of its ring from the head on (`Recent`, read off by `Forward`), its
capacity (`Limit`) and the keys of the leases out (`LentKeys`).

### Job

A stage is a job and an index, a descriptor one end of the link that leaves a stage
or of its report pipe. `held` and `sealed` are this process's open and
close-on-exec descriptors. `Pipe` and `Seal` are the two halves of `_pipe`,
separate because another thread may fork in between; `Fork` copies `held` to the
child; `Spawned` is `_read_report` with what follows it. Every step of a launch may
fail (`NoTable`, `PipeFails`, `ForkFails`, `ExecFails`) and then goes through
`Undo` and `_terminate`: `Term`, `Grace`, `KillAll`, `Reap`, `Finish`. `Status`,
`Ready`, `UserKill`, `Cleanup` and `Drop` are the operations on a job that has
started. A program (`Exits`, `Over`) is external: it ends when its input ends or its
reader has gone, the first stage by itself unless the job is `Endless`.

### MetaHelper

A frame is one element of `req` or `rep`, the two pipes of a helper. `proc[p].stack`
holds the calls of a process, innermost last, with the place each is at in
`_call_helper`: `Send`, `Read`, `TakeNotice`, `TakeResult`, `TakeQuery`, `Answer`.
A deadline is `Overdue`, possible at any wait; a write or read that meets no
process is `Stopped`; both end in `GiveUp`, which is `_stop`. `Fork` copies the whole
of `proc[Main]` to a worker, which is how a worker comes to hold the record of a
helper it did not start (`Running` is the test of the code). The helper's side is `Boot`,
the four requests of `_serve`, the end of the requests (`Hangup`), what a body may
do, and the watcher (`Watch`). The number of a call appears in answers and values
only for the properties: no frame of the protocol names its call.

### BuildReuse

A fingerprint is the contents it was computed from, an output the contents its
translation read. `Check` is `translation_current`; `ReadSource` and `ReadHeader`
are the translation's reads, separate because the user may `Edit` in between;
`Publish` is one rename of `publish_files`; `WriteDepfile`, `Hash` and `Record` are
the depfile and the two halves of `record_translation`. `Link` to `RecordScript` are
the script's executable. `Ends` ends a build at any step: a failure, an error in
another unit, or a signal. `reverted` is history: an edit gave an input contents it
had before.

## 3. What the runs check and what they show

States are distinct states found by TLC.

| Run | Instance | Checks |
|---|---|---|
| `static_init` | 2 threads, 2 process guards, 1 threaded guard, 3 slow calls each; 92k states | `NoDeadlock`, `NoLostWakeup`, `ReservedOnce`, `VisibleIsWhole`, `RefusalIsReal`, `ImplementsOnce`, `AcquireReturns` |
| `thread_workers` | 3 handles, failing creation, failing hook; 57k states | `OneOwner`, `ExitIsReal`, `RegistryStable`, `ImplementsFuture`, `JoinReturns` |
| `error_transfer` | 3 nested regions, 3 records, 2 nested raises, callbacks open `defer`, cleanups open everything but observers; 647k states | `TypeOK`, `NoImbalance`, `ChainsExact`, `FramesExact`, `CleanupOnce` |
| `translation_workers` | 4 slices, 3 workers, failing forks and units, one signal; 19k states | `SlotsExact`, `StopReachesAll`, `PrintedInOrder`, `ResultExact`, `Terminates` |
| `pool_threads` | main thread with two brackets and a worker with its result pool, 3 identities, one of them large, one content of each kind; 573k states | `NoDangling`, `PermanentSurvives`, `KeepsInterned`, `SameCell` |
| `match_cache` | capacity 1 or 3, 4 addresses, 5 patterns, 2 leases, 1 released level, 4 insertions; 273k states | `LendsItsPattern`, `ChainsHoldEntries`, `ImplementsPlanCache` |
| `job` | one thread, a pipeline of 3 stages and an endless job of one, every step of a launch failing; 166k states | `PidsExact`, `StatusExact`, `OnlyOwnEnds`, `OperationsReturn` |
| `meta_helper` | one process that may be killed and the worker it forks, 3 calls, 2 units, 1 query a body; 196k states | `HelpersInHand`, `OwnStatics`, `ImplementsRemoteCall`, `NoWaitForNothing` |
| `build_reuse` | one builder, a source that includes the header every other time, 3 edits; 184k states | `ReusedUnlessReverted`, `ScriptUnlessReverted`, `RecordsDescribe` |
| `pool_replaced`, `job_threads`, `build_reverted` | small instances | one statement of the documentation each, which TLC finds violated: section 6 |

Each module has a type invariant, `TypeOK` (`WorkersTypeOK` in TranslationWorkers). It is
a property of a run where it says more than types (`error_transfer`), and a theorem for
every module but BuildReuse, whose types are the `TInv` of its proofs.

What the passing runs show:

- **static_init.** Initializers that use each other's statics on two threads, in
  any nesting and with failed attempts, neither sleep for ever nor are refused
  without need: a wait is refused exactly when a circle of waits is real, although
  a wait edge outlives the broadcast that ends the wait. A sleeper is always owed a
  broadcast. Storage survives a failed attempt and is linked once.
  No caller sees a value that is not complete, not even on the path
  without the lock. With fair scheduling every acquire returns or raises.
- **thread_workers.** A sealed result is exported and released by one join, after
  the worker has ended. The process leaves quietly only with no
  worker and no store left, and aborts only for a worker that is really there. The
  registry does not change once a worker can read it. Every handle is a future. A
  join that waits comes back, unless workers join each other in a ring of three or
  more.
- **error_transfer.** For every structured program within the bounds, wherever
  program code runs every registration is in exactly one of the three chains
  `exit()` reclaims, the frames are those of the regions that are entered, and each
  region's cleanup runs once, whichever way it is left. The order checks that end the process never fire.
- **translation_workers.** Error output is in input order, nothing is lost, the
  failure count is exact, and a stop signal at any instant leaves no worker running.
- **pool_threads.** No table names storage that goes before it does, and
  what `Pool.own` proved permanent stays so when another thread promotes an equal
  value at the same moment, in both cases but for a large identity that was promoted although it lived
  further out (section 6). The fused `intern_new` keeps the identities the
  two-step insertion of Strings loses (section 6): a thread gets one pointer
  for a cell. `KeepsInterned` says how far the loss goes: an open level exchanges an identity only
  if it is the root, and only when a String is inserted there that its thread had looked up
  before. For Strings one pointer per thread is not claimed: those that are finalized from
  buffers, or short, keep it only while a single thread runs at the root itself, and long ones
  lose it by an export.
- **match_cache.** No lease ever runs the plan of another pattern although
  addresses are reused, chains hold exactly the entries, and the links implement
  recycling of the least recently lent that no lease pins.
- **job.** Whatever step of a launch fails, the table of a job names exactly its
  children that were not waited for, so a kill reaches no other process and
  nothing is left behind when the job has ended; the status is that of the last
  failing stage; no program has a pipe end that is not its own, and launch, wait and
  end come back, also when programs ignore SIGTERM. With one thread: section 6 says
  what a second one does.
- **meta_helper.** Every call takes the value of its own body or fails, although no
  frame names its call, deadlines pass at any wait, helpers crash, and a worker
  inherits a helper that is not its own. No body runs twice, or on after its call
  failed. A body sees the statics of its own unit. A helper, and what its bodies left
  running, is in the hands of the process that started it until that has ended both. With
  no deadline at all a call waits only while some body runs.
- **build_reuse.** A record is only ever made beside outputs of the contents it
  records, whatever is edited or fails in between. So nothing stale is used again,
  with one exception, which the invariants name: an input that gets contents
  back it had before (section 6).

## 4. Bounds, symmetry and fairness

Bounds, all named in the modules:

- `MaxCalls` (StaticInit): slow acquires per thread. Three allow an initializer
  to use two other guards, or a failed attempt, a retry and one more. Two threads
  suffice for circles of two and self recursion; a circle of three or more is
  covered by the theorem `DeadlockFreedom`, which is for any set of threads.
- `Handles` (Thread): three, the least with which joins can form a ring
  that `pthread_join` does not find. All but the liveness is a theorem for any
  finite number of them.
- `MaxOpen`, `ERROR_BOUND`, `ERROR_MAX_DEPTH` (ErrorTransfer): three open regions
  give a cleanup inside a finalizer inside a catch; two nested raises a raise from
  a callback and one from a cleanup; the limits are reached, so the fatal ends at
  both are exercised. All five properties are theorems for any bounds.
- `Slices`, `jobs` (TranslationWorkers): four slices on three workers give a full
  set of slots, a slot that is reused, and a swap with the last slot from either end;
  the four invariants are theorems for any number of both.
- `MaxDepth`, `Shallow`, `Ids` (CanonicalPool): two brackets of the main thread give an ancestor
  that is not the root to promotions, exports and buffers alike; the worker keeps to
  its result pool, from which it promotes, owns and interns. Two identities in slots allow one
  content to be canonical twice, the third is large. Running out of
  identities is the code's allocation failure (`AllocFails`) and no more. All four
  properties of the run are theorems for any bounds.
- `Capacities`, `MaxEpoch`, `MaxInserts` (MatchCache): one slot gives pressure
  and eviction at once, three slots a ring in which forward and backward differ;
  the four addresses collide in buckets and memos; four insertions fill three slots
  and recycle one. All three properties are theorems for any capacities, leases, collisions,
  levels and insertions.
- `Count`, `Endless`, `Owner` (Job): three stages give a first, a middle and a last one
  and a launch that fails with none, one or two stages running; the endless job is the
  one whose start may fail while the pipeline runs, and the reason a wait need not return.
  The three invariants are theorems for any jobs.
- `MaxCalls`, `MaxUnits`, `MaxAsks`, `ForkCalls` (MetaHelper): three calls are a
  call, one nested in its query and one after a failure; two units need one reset;
  the worker is forked after two calls, when its parent's helper runs and may hold the statics of
  another unit. Theorems cover any number of calls, units, queries and workers for all but
  the liveness.
- `MaxEdits`, `Builders`, `Including` (BuildReuse): three edits are one before the
  reads, one between them and one before the record, and let a header come and go
  among the includes; the three properties are theorems for any number of them.

Symmetry is used where no liveness is checked: over identities in slots in `pool_threads`
and over leases in `match_cache`.

Deadlock is checked except where the system may stop: `thread_workers` (a ring of
joins, and what remains after a start that hangs), `error_transfer` (the process
ends), `translation_workers` (the loop is done, or the parent ended), `job` and
`job_threads` (every job is dropped), and `meta_helper` (no call is left, or the
processes ended).

Fairness:

- StaticInit: weak for each thread's steps: the operating system runs every
  thread and the mutex is held for a bounded time. Strong for `Copy \/ Unwind`: a user
  initializer does not raise and catch for ever, it ends.
- Thread: weak for the main thread and for each worker; strong for `CallbackEnds`: a
  callback that gets back to its own code again and again returns in the end.
- TranslationWorkers: weak for the parent, for the delivery of a
  pending signal, and for the end of each worker (the translation of a unit ends).

- Job: weak for the thread that launches or ends a job, and for a child's way to its
  program or its exit; weak for the end of a program whose input or reader has
  gone, or that is the first of a job not `Endless`.
- MetaHelper: weak for the compiler where it may go on, for a helper's boot, for its
  loop, and for its watcher's poll. None for bodies, which may run for ever, for
  deadlines, which need not be set, or for what ends a process.

No fairness is assumed of failures, of signals being sent, of edits, or of
broadcasts. BuildReuse has no liveness property.

## 5. What is proved, and how

The theorems hold for every value of the constants that satisfies the assumption each
module names (`StaticAssumption`, `ThreadAssumption`, `WorkersAssumption`,
`BoundsAssumption`, `PoolAssumption` with `KindsAssumption` and `NamesAssumption`,
`CacheAssumption` with `NoneAssumption`,
`JobAssumption`, `MetaAssumption`, `ReuseAssumption`): any number of threads, guards, handles,
regions, records, slices, levels, slots, leases, jobs, calls, contents and edits. Three kinds of
theorem have a hypothesis more, stated where they are: `OneThread` in Job_proofs,
`OneBuilder` for BuildReuse and `OnlyDefers` in ErrorTransfer_proofs. For each of them a run or
section 6 shows what goes wrong without it. TLC checked each statement, and each inductive invariant below,
on the instances above before it was proved.

**StaticInit_proofs**

- `TypeCorrect`: `TypeOK`, strengthened by the fact that a thread preparing
  storage is inside the initializer it does so for.
- `DeadlockFreedom` (`NoDeadlock`) and `NoWakeupLost` (`NoLostWakeup`), from `WaitInv`. Its
  core is `Acyclic`: every set of threads has a member whose wait edge leaves the
  set. `NoDeadlock` alone is not inductive, since it says nothing of
  edges of threads that were woken and have not run yet, and those are the edges
  `_cycle` walks. `AddEdge` shows that a wait admitted by the walk keeps the
  edges acyclic: the closed set that avoids the caller cuts a smaller trapped set
  out of any trapped one. `SleepInv` ties a sleeper to its edge and owner.
- `RefusalsAreReal` (`RefusalIsReal`), from `EdgeInv`: an edge that is set
  belongs to a call still inside acquire, so a circle found by the walk is one
  of threads that really wait.
- `VisibleStorageIsWhole` (`VisibleIsWhole`), from `OnceInv`, which relates the
  stacks of initializers to the owners, and storage to publication.
- `ReservationsAreSingle` (`ReservedOnce`), from `ChainInv` under `OnceInv`: no guard is
  twice in a release chain, and it has storage exactly when the chain of its home holds
  it, whatever attempts fail in between.
- `StaticInitImplementsOnce` (`ImplementsOnce`): initial states map to initial
  states and each step to a step of `StaticOnce` or a stutter, under `OnceInv`.

**Thread_proofs**: `TypesHold` (`TypeOK`), `OneOwnerHolds` (`OneOwner`),
`RegistryIsStable` (`RegistryStable`), `ExitsAreReal` (`ExitIsReal`) and
`HandleIsFuture` (`ImplementsFuture`). `Operating` says that an operation between its
first and last step is the only one on its handle, and what state it finds; `Handle` is
how far the worker of a handle has come in each state, and what becomes of its stores;
`Hooked` and `Frozen` say that the shutdown hook and the freeze come before the first
worker, though a start holds the lock only for part of its way. That `live` counts
exactly the handles that are started and not yet past `_finish_join` (`CInv`) makes both ends of the
process honest; it is why `TypeOK` can bound it. The refinement needs no more
than these.

**ErrorTransfer_proofs**: `TypesHold` (`TypeOK`), `FramesAreThoseEntered` (`FramesExact`),
`RegisteredOnce` (`ChainsExact`), `NoOrderCheckFires` (`NoImbalance`) and `LeftCleanedOnce`
(`CleanupOnce`), all under `OnlyDefers`: a callback opens only deferred bodies, a cleanup no
observers. The invariant (`StackInvariant`) speaks of positions of the C stack.
The chains are ascending sequences of positions, so each is determined by the set of positions it
names, and membership of a path is a comparison of positions. Its parts say, for the whole stack:

- `Shape`, `Tries`, `Frames`: what may stand on what, the state of a `try` in each phase, and which
  of them are the frames that are entered;
- `Targets`, `Arms`: a transfer goes to a live frame that catches, and the running arms are the
  claimed ones;
- `Owes`, `Marks`: the cleanup records are the regions whose cleanup has not run, and the
  watermark of a frame is the part of them below it;
- `Registers`, `Heads`: the handler chain at hand, and the one a transfer will hand back, hold
  the registrations below them;
- `Dispatches`, `Depths`: what each dispatch has saved of the chains, and how many are under way.

`Dead` names what a cleanup during a transfer stands on and is about to be abandoned: nothing is
claimed of it, and no action returns to it. The handler chain is in three pieces while a raise is
dispatched (the rest to offer, the saved one, that of the running callback);
`UnwindHead` is the piece a transfer would restore. Most lemmas say how one part goes from a stack to
one that differs at its top: it grows (`Pushed`), shrinks (`Popped`), changes its top (`Retop`),
draws a record (`Drains`, `Runs`) or is cut at a landing (`Lands`), and there is one lemma for each
action. `ChainsExact` needs no more than the sets; `CleanupOnce` also that an activation leaves the
stack only at the ends the code has (`EndsOrderly`), at which its cleanup has run.

**Driver_proofs** holds the theorems of TranslationWorkers and of BuildReuse.

*TranslationWorkers*: `WorkersTypesHold` (`WorkersTypeOK`), `SlotsNameUnreaped` (`SlotsExact`) and
`StopReachesEveryWorker` (`StopReachesAll`), from `WorkersInv`. `SlotsExact` speaks only of the
places where a signal can arrive; `SlotsInv` says what the slots are at every place
of the loop, `FreshInv` that a slice not yet started has no process, and
`SignalInv` where the signals are blocked. `SwapOut` shows that moving the last slot
into the freed one removes exactly that one, also when they are the same.
`OutputInOrder` (`PrintedInOrder`) and `ResultsAreExact` (`ResultExact`) add what
was captured and counted: a slice is shown only after all before it, and the number of failures is
that of the reaped slices that failed or could not be forked. `WorkersTypeOK` bounds the slots
by the number of jobs, which needs `JobsInv`: a place where a slice begins has a slot to spare.

*BuildReuse*: `RecordsDescribeOutputs` (`RecordsDescribe`), `ReuseIsSound`
(`ReusedUnlessReverted`) and `ScriptReuseIsSound` (`ScriptUnlessReverted`), all under
`OneBuilder`, the assumption that no two builds of the directory run at a time: two
of them do violate the second (section 6). `PInv` says at each place of a
translation what was read, published and hashed: what was read of an input that
was not edited since is what the input holds (`Agrees`). A record is made only when no
input was edited since the build began, so the hash is the reading
(`RecordedIsRead`) and the outputs beside it are that reading, which is the first
theorem. The other two need `RInv`, about the time after: a record is either
*outdated* (some input it names holds something else, and without a reversion
always will) or the outputs are what it records; a build translates only when the
record is outdated, so it may replace outputs without harm, and a script's
executable is replaced before its record goes only by one that is equal, or
when that record is outdated.

**CanonicalPool_proofs**: `TypeCorrect`, `TablesNameLiveStorage` (`NoDangling`),
`OwnedForGood` (`PermanentSurvives`), `InternedKept` (`KeepsInterned`) and `OneCell`
(`SameCell`). `NoDangling` needs `OpInv` (a constructor between its
probe and its insertion works at a level that is still open) and `EmptyAbove`
(the table of a level that is not open is empty, so opening one exposes nothing).
`OneCell` needs that what a thread was given is what a lookup still finds (`GotInv`),
and that a cell about to be inserted at the innermost level has not been given
out, or is being exported from under a level that holds it (`PendInv`).
`TableStep` says once for all actions how a step changes the cells of a table: it fills an
empty place below one that is taken, inserts at the top, or closes the level.
`InternedKept` needs `ProbedInv`, that what a constructor missed in a bracket is
still missing there when it inserts, since only its own thread works on the bracket, and
`Touches`, that nothing but an insertion puts an identity in the place of another. The first two properties
except `sunk`, of which `Raised` shows that it only grows, and by large identities.

**MatchCache_proofs**: `TypesHold` (`TypeOK`), `LeasesRunTheirPattern`
(`LendsItsPattern`), `ChainsAreExact` (`ChainsHoldEntries`) and `CacheImplementsPlanCache`
(`ImplementsPlanCache`). `Ring` says that the links of
the ring go once around all entries: `next` and `prev` undo each other, and a set of
entries closed under `next` has none or all of them. `Linked` says that a chain leads
to entries of its own bucket that are ever older, and to each by one link. That the
generation falls along a chain is what rules out a circle, and `ChainIsBucket` needs it: the set of entries not
reached would have a newest member, to which some link leads. `UnlinkRing`,
`LinkRing`, `SpliceLinked` and `PushLinked` are the four changes of links, from which
`Touch`, `Remove1` and `Insert` are made. `VictimFacts` shows that the walk of `_victim`
ends at an entry that no lease pins. `Pinned` counts the leases that pin a slot, so that an
entry that is recycled is nobody's, and `Lent` follows each lease to its entry. `Fresh` is the point of
the epoch: an entry names what is at its address now, or the cache has not seen
the last release, and then it lends from no entry before it has dropped all of them.
For the refinement, `Order` says that a sequence lists the entries along the links of the ring:
`Ring` fixes what the links do, `Order` in which order they do it. `UnlinkOrder`, `LinkOrder` and
`TouchOrder` are the changes of that list (one entry goes, one comes first, one comes to the front),
and `ForwardIs` shows, by the least place at which they would differ, that the walk of the
mapping reads off this list and no other. `Single`, no key with two entries, is what makes
taking an entry out of the ring the same as taking its key out of the list. `HeldIs` and `VictimIs` say that
the entries with pins are the keys that are lent, and that the walk of `_victim` ends at the least
recent one that is not. Each step is then a `Lend`, `Return` or `Drop` of PlanCache or a stutter
(`LendMaps`, `ReleaseMaps`, `FlushMaps`, `PoolMaps`).

**Job_proofs**: `TypesHold` (`TypeOK`), `PidsAreExact` (`PidsExact`),
`StatusIsExact` (`StatusExact`) and, under `OneThread`, `OwnEndsOnly` (`OnlyOwnEnds`).
The first three hold for any threads. `Launched` places a launch: its
stages are forked in order, and those after the one under way have no process. `Tabled`
says that the table is the forked stages not waited for, but for the one whose
report is still being read; `Recorded` that statuses are those of the stages
waited for, and the status of a finished job that of the last that failed. For the pipe
ends, `DInv` says which ends each place of a launch has open here and which of these are not yet
close-on-exec. `OneThread`, with the fact that a thread is inside one operation at a
time (`OneBusy`), makes every fork find all ends close-on-exec (`KInv`), which is
exactly what the run `job_threads` breaks with a second thread.

**MetaHelper_proofs**: `TypesHold` (`TypeOK`), `HelpersStayInHand` (`HelpersInHand`),
`OwnStaticsHold` (`OwnStatics`) and `CallsAreRemote` (`ImplementsRemoteCall`).
`HInv` is about processes only: who started a helper, and who has its pid. The other two need the protocol, and no frame of it names its
call. `Link` says that a process and its helper are always in one
of eight modes (`Resting`, `Sending`, `Calling`, `Working`, `Asking`, `Answering`,
`Answered`, `Replied`): what is in each pipe, at which place the innermost call is, and
whether a body runs. `Aligned` says that the bodies in the helper are those of the calls the process
waits for, in the same order, so that the reply that comes next is that of the
innermost call. `Fresh` ties the statics to the process's unit and to a reset
that is due or on its way. `UInv` says that a call is in one place, among the
processes and among the helpers. From there each action maps to one of `RemoteCall` or a
stutter: `GiveUp` to a failure, because a body of a failing call that still runs can only be in the
helper that was just stopped.

Only model-checked: liveness (`AcquireReturns`, `JoinReturns`, `Terminates`,
`OperationsReturn`, `NoWaitForNothing`), which the proof system does not reach.

## 6. Disagreements between the code and its documentation

Each is a run whose only property TLC violates. The first and the last were also
reproduced with compiled x2c programs, the last by the translator built from this
source: edit one file and break another, let the build fail, undo both; the next
build says "up to date" and the program prints what the undone edit made it print.

| Run | Statement | What the code does |
|---|---|---|
| `pool_replaced` | `lib/pool/storage.x:367`: an equal identity in the parent stays canonical | the `table.set_entry` of a short String, or of one of any length finalized from a buffer (`_intern_owned`), overwrites the identity another thread promoted after the probe, although `Pool.is_permanent` had answered 1 for it |
| `job_threads` | `lib/process.x:531`: `Job.start` starts the job without waiting | a fork by another thread between `pipe` and `fcntl` gives that thread's program the writing end of this job's report pipe; `_read_report` waits until the other program ends |
| `build_reverted` | `commands/build/build.x:369`: the generated C is never reused for an input it does not match | a build that publishes outputs and then fails leaves the record of the earlier ones, which matches again when the edit is undone |

Other limits, which bound what the passing runs claim and have no run of their own:

- A raise out of `_register_shutdown` leaves `pthread_once` by a transfer, which
  never completes it, so that later starts block (`StartOnceRaises`). `JoinReturns`
  speaks of joins only.
- `error_transfer` lets callbacks open only `defer`, and cleanups no observers. With
  `"catch"` in `CallbackOpens`, or `"watch"` in `CleanupOpens`, `NoImbalance` is
  violated, which is why the theorems assume `OnlyDefers`: the chain handed back by a transfer is the one saved before the callback,
  so a catch opened inside it is missing; and a frame abandoned in its finalizer is
  trimmed before the `Error.pop` it had deferred runs. A `try` with a finalizer inside
  an observing callback trims the handler that is running.
- A long String gets a second pointer after an export, since `Pool.intern`
  searches the ancestors first; `SameCell` is about List cells.
- Storage above 512 bytes belongs to a Scope, and `_promote_level`
  (`lib/pool/storage.x:430`) moves it to the parent of the promoting level wherever it was. A value
  that `Pool.own` has proved safe at the root and that is promoted again from an inner level
  goes back inward with it, and the tables further out, the root's included, name freed
  storage once that level is released. A compiled program shows it: a String of more than 512 bytes is owned
  to the root from the second of two brackets, promoted there, and when both are closed
  `Pool.is_permanent` answers 0 for it and its bytes are overwritten. `NoDangling` and
  `PermanentSurvives` except such identities (`sunk`), and with them what a program does after
  it has read one through a table.
- Between `waitpid` and the removal of the slot `_forward_stop` may signal a
  process id that is no longer this program's.
- A job whose table could not be allocated reports status 0 (`StatusExact` is about
  jobs that have one), and a stage whose program did not run may report 143 in
  place of 127 when the launch's own SIGTERM reaches it before its `_exit(127)`.
- Two builds of one directory at a time take no lock: with two `Builders`
  `ReusedUnlessReverted` is violated, each recording a mix of both's outputs.
- When the compiler is killed, a helper that ends by SIGPIPE before its watcher polls
  leaves the processes its bodies started; `HelpersInHand` is about processes that
  were not killed.

## 7. What is assumed of the programs that use the runtime

- A Thread handle is not used after `Thread.free`, nor before `Thread.start` returned it.
- `Error.push` is paired with a deferred `Error.pop`, the documented form.
- A level is not released while its owner is matching against a pattern in it.
- A worker opens its brackets inside its callback and closes them; its result pool
  is closed by the join. The export of a result by a join is not part of CanonicalPool.
- Memory failures while a worker boots end the process and are left out; other
  allocation failures are modelled where the code handles them.
- One thread uses a job at a time, and the program does not ignore SIGCHLD or wait for
  children that are not its own.
- An edit changes the modification time of its file; one build of a directory runs at a
  time (a script's directory is locked).
- Mutexes and condition variables do what POSIX says, spurious wakeups included;
  reads outside a lock are of the atomic or once-written fields the code reads so.

## 8. What is not modelled

Section 1 lists the components. Inside the modelled ones: the text of messages and
diagnostics; hash tables, statistics and the blocks behind pool storage; the
preparation and execution of plans; the stack of Match caches of nested Contexts;
values of results beyond their kind; the preflight of a parallel translation and the
translation of a unit; error records beyond their number and whether they may
return; capture files, `wait_any` and the options of jobs; the snapshot of the
compiler's executable and failed initializers in a helper; a value of a `meta` call too
deep to be sent; the compile pool, static libraries, options and search paths of a
build, and the lock and pruning of the script cache.

## 9. Plan

In order of importance; each module is to be a component of its own, with one
passing run.

1. `PoolStorage`: blocks, slots, depot, kept slots and promotion records under
   the lock order storage, child, parent; no slot free and named, no circle of locks;
   refines the `home` of CanonicalPool.
2. `Scope`: moves, retain and release, hooks that register hooks.
3. `Context`: overlays restored on every exit, composed with the policy a worker
   captures and the Match caches a Context stacks.
4. `MatchSites` with the binding of catch sites, and `ClassRows`: publication
   once, read without a lock.
5. `Logger`, and the static initializer order as a bounded check of the algorithm
   in `src/cache.x`.

Every invariant, action property and refinement of a passing run is a theorem; a
new module should come with its own. What stays with TLC is the liveness, and in ErrorTransfer
the programs `OnlyDefers` leaves out, for which the code does not keep the properties.

## 10. Running it

    tlc -workers 2 -config MCStaticInit.cfg MCStaticInit
    tlapm StaticInit_proofs.tla

`PROJECT.json` lists for each run its module, configuration and properties; for
each property a mutant that violates it; and for each definition the
lines it models.
