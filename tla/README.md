# A TLA+ model of Neyuki

Neyuki is a scripting language implemented in Rust: a compiler to bytecode, a virtual machine
with its libraries, and tools (package manager, language server, debug adapter, formatter).
This directory holds specifications of the parts in which *order* decides what happens, the
TLC configurations that check them, and proofs about them for TLAPS. Source paths below are
relative to the repository.

* [Inventory](#inventory): the system's parts, their state and what is hard about them
* [Plan](#plan): what is modelled now, what comes next
* [The modules](#the-modules): how state and actions correspond to the code
* [What is checked](#what-is-checked): runs, bounds, fairness
* [What is proved](#what-is-proved)
* [Disagreements found](#disagreements-found)
* [Abstractions and omissions](#abstractions-and-omissions)

## Inventory

Almost everything runs on one *interpreter thread*. Other threads exist for background jobs,
for reading from sockets, pipes and process output, and for the REPL's line reader. Values are
never shared between threads (`Rc`), so threads meet only at the completion channel, the pool's
mutex, and the mutex of each connection.

| Component (source) | State it keeps | Operations and who calls them | What is hard | What makes it correct |
|---|---|---|---|---|
| **Coroutines** (`src/vm/libs/coroutine.rs`, `src/vm/machine.rs`) | each coroutine's saved stack and status; `current_co`, `native_calls`, `yield_floor`, `frames_below`, `is_yielding`; locals of `resume` on the Rust stack | `create`, `resume`, `yield`, `close`, `wrap` from scripts; `resume_with_error` and `new_coroutine` from the scheduler | resumptions, natives calling back, module bodies and scheduler loops nest in any order, and the VM keeps only a few counters of that | nobody is entered twice, control returns to the caller, statuses tell the truth, a yield only unwinds frames that were saved |
| **Task scheduler** (`src/vm/libs/task.rs`) | queues `deferred`, `sleeping`, `ready`, `pollers`; `waiting` by job id; `task_ids`; `failed`; the completion channel | `spawn`, `defer`, `delay`, `wait`, `cancel` from scripts; passes from blocking waits, `ui.poll`, the end of the program | loops nest inside tasks and change the queues an outer pass is walking; cancellations; timeouts racing with events and completions | no wake-up is lost, none goes to the wrong wait, every wait ends, the program ends only when idle |
| **Background work** (`src/vm/libs/background.rs`) | the job queue, `workers`, `idle`, one condition variable | `submit` from the interpreter, `worker` on each pool thread, completions back | lost wake-ups, a thread that times out while a job arrives, threads the system refuses | every job is done once without relying on a timeout; counters stay right |
| **ui.poll** (`src/vm/libs/ui.rs`) | the event loop and the waker | pumps events, parks a poller, makes a budgeted pass | events, deadlines and completions end the same wait | part of the scheduler's properties |
| **Program execution** (`src/vm/machine.rs`, `src/main.rs`) | frames and registers of the VM | `execute_program` runs the main chunk, then `run_until_idle` | errors end the program with tasks pending | the outcome reflects failed tasks |
| **Garbage collector** (`src/vm/gc.rs`) | colours, gray lists, finalizer queue, the sweep in progress | allocation steps, `collectgarbage`, write barrier; runs finalizers | finalizers run between marking and a sweep done in slices, may resurrect or collect | a reachable table is never cleared, a finalizer runs once, weak tables drop dead keys only |
| **Modules at run time** (`src/vm/builtins/global.rs`, `src/module_loader`) | `vm.modules`, with an empty table for a module being loaded | `require` from scripts | cycles, failures half way, a coroutine switching inside | a module runs once, a failed one may be tried again |
| **Sockets, processes** (`src/vm/libs/net.rs`) | a bounded buffer shared with a reader thread | read, write, close, drop; reader thread | limit reached while closing, waits that must wake | no byte lost or reordered, the reader thread ends |
| **HTTP** (`src/vm/libs/http.rs`) | a table of streamed bodies; requests in flight | request, read, end | a body leaves the table while a read is in flight; cancellation | reads return the body in order, nothing twice, nothing missing |
| **Package manager** (`src/pkg`) | manifest, lock file, store | resolve, add, remove, install | the second dependent of a package | every constraint is satisfied by the lock file |
| **Debug adapter** (`src/dap.rs`) | breakpoints, step mode and depth | `check_line`, `check_break`, protocol requests | stepping across coroutines | stepping over stops in the frame it started from |
| **Compiler** (`src/compiler`) | IR, control flow graph, live intervals, register assignment | statements to IR, six optimizer passes round by round, the allocator, bytecode | passes enable and undo one another; closures see variables from outside the instruction stream | optimized code does what the source says, in registers too; the rounds settle |
| **Parser, sema, linter, formatter, bytecode files, LSP, libraries, app bundling, REPL** | data of one call | sequential functions, or I/O | nothing that a model adds to tests and the fuzzers | — |

`PROJECT.json` lists all components with the reason where one is not modelled, and the hazards
of the code at their lines, with the property that would notice each of them.

## Plan

The order follows where concurrency and long histories matter most.

| | Module(s) | Question | State |
|---|---|---|---|
| 1 | `Subsequences`, `Coroutines`, `Tasks`, `MCTasks` | who runs, who waits, who is woken | done |
| 2 | `Coroutines_proofs`, `Tasks_proofs`, `Subsequences_proofs` | types, the discipline of coroutines, wake-ups, jobs and the end of the program, for all instances | done |
| 3 | `WorkerPool` implementing `Background`, proofs in `HttpStreams_proofs` | is what `Tasks` assumes of background work true | done |
| 4 | `Gc`, `MCGc`: the collector over an abstract heap, its finalizers and its sweep in slices | is anything in use taken; does a finalizer run once | done |
| 5 | `NetConn` implementing `ByteStream`, `NetConn_proofs` | lost or reordered bytes, threads and calls that never end | done |
| 6 | `Ir`, `Optimizer`, `LinearScan`, `Compiler`, `MCCompiler` | does compiled code do what the source says | done |
| 7 | `Gc_proofs`: pins and finalizers, garbage, weak entries, bytes | is only garbage taken, and all of it; is a finalizer run once; does the count drift; for any heap | done |
| 8 | `HttpStreams` on top of `WorkerPool`, `HttpStreams_proofs`: the stream table, reads through the pool, cancellation | does a reader of a body miss anything | done |
| 9 | `Optimizer_proofs`, `Compiler_proofs`: the scan for any intervals; the passes keep code well formed, so that the scan begins as its proof assumes; the graph stays one `verify_cfg` accepts through every pass | does no compiled function have two variables in a register at once; which functions are refused | done |
| 10 | `Modules`: `require` with its pending table, cycles, failures, coroutines | is a module run once | |
| 11 | `Resolver`: the traversal against "every constraint holds" | constraints of later dependents | |

Every safety property that a run checks has a theorem, except `SameBehaviour`, `SameInRegisters` and
`Settles` of the compiler (see "Only model-checked").

## The modules

`Tasks` EXTENDS `Coroutines`, which EXTENDS `Subsequences`; `MCTasks` adds the symmetry used by
TLC. `WorkerPool` instantiates `Background`, and `NetConn` instantiates `ByteStream`, with a
refinement mapping. `HttpStreams` EXTENDS `WorkerPool`: each of its steps is one of the pool, or
leaves the pool alone. `Compiler` EXTENDS `Optimizer`, which EXTENDS `Ir`, and `LinearScan`.
`X_proofs` EXTENDS `X`; `HttpStreams_proofs` holds the theorems about `WorkerPool` too, and
`Compiler_proofs`, which EXTENDS `Optimizer_proofs`, those about `LinearScan`.

### Subsequences

`Retain(queue, kept)` is what `VecDeque::retain` leaves of a queue: its elements at the
positions `kept`, in order. It is defined by position, without recursion, so that it can be
proved about.

### Coroutines

The interpreter is one thread; whatever it is in the middle of nests on the Rust stack. The
variable `stack` is that nesting as a sequence of *activations*, innermost last: the main chunk,
a coroutine that was resumed (with the `caller` and `floor` that `coroutine_resume` and `resume`
keep in locals), a function a native called back (`call_function`), a module body
(`execute_module`), or a scheduler loop. `status`, `currentCo`, `nativeCalls`, `yieldFloor`,
`isYielding` and `resumeError` are the fields of the same names. `park` is what a suspended
coroutine's frames say it is suspended *at*: its start, `coroutine.yield`, or a native that
returns when its time, job or events come.

| Action or operator | Code |
|---|---|
| `Switch`, `SwitchBack` | the two halves of `resume` around `run_to_depth(0)` |
| `DieYielding` | the branch of `resume` for a body that is a native |
| `DieOfError`, `ErrorTakenForYield` | a pending `resume_error`: raised, or taken for a yield while `is_yielding` is set |
| `ResumeOverflows` | the call depth check in `coroutine_resume`, with what `resume_with_error` left behind |
| `CreateCoroutine`, `CloseCoroutine`, `AsThread` | `coroutine_create`, `coroutine_close`, `new_coroutine` |
| `EnterNative`/`LeaveNative`, `EnterModule`/`LeaveModule` | `call_function`, `execute_module` |

### Tasks

The queues of `Scheduler` are sequences of entries: a thread, the suspension the entry answers,
and whether it raises an error there. The suspension comes with `left`, the time still to go, so
no clock is needed: `Tick` takes a unit off everything that waits, whatever the interpreter is
doing. A loop of `run_until`/`run_for` is an activation with its mode (`until` a deadline, `idle`
for the end of the program, `once` for `ui.poll`), its phase, how much of the pass is `due`, and
whether it `ran` anything.

| Action | Code |
|---|---|
| `CoroutineResume`, `TaskSpawn`, `TaskDefer`, `TaskDelay` | `coroutine_resume`, `task_spawn`, `task_defer`, `task_delay` (with `resume_with`) |
| `TaskWait`, `TaskWaitBlocking` | the two branches of `task_wait` |
| `BackgroundRun` | `background::run` in a task: `expect_completion`, `submit`, the yield |
| `PollParked`, `PollInPlace` | `builtin_poll`: `park_poller`, or `next_due`, the pump and `run_for` |
| `TaskCancel` | `task_cancel`: `forget`, then `coroutine_close` |
| `BodyReturns`, `BodyRaises` | the ends of `resume`, and of the `resume_with` that called it |
| `MainReturns`, `MainRaises`, `ProgramEnds` | `execute_program`, `run_until_idle` |
| `BeginPass`, `ResumeNext`, `PassOver` | `run_pass` with `service_pollers` and `drain_completions` |
| `LoopReturns`, `PassAgain`, `WaitForEvents`, `WaitForDeadline`, `WaitForCompletion` | the rest of `run_until`, branch by branch |
| `JobDone` | a worker's `CompletionSender::send` |

Scripts are not fixed: `ScriptStep` lets whatever Neyuki code is executing make any call of the
set `Calls`, with any arguments. Two constants restrict what scripts do, since some promises
only hold then: `ManualResume` (a script may resume, spawn, defer or delay a coroutine that
already waits for the scheduler) and `DepthLimit` (a script may stand at the call depth limit).
`YieldingNatives` are coroutines whose body is a native function that yields (`task.wait` itself,
for instance).

### WorkerPool and Background

`WorkerPool` is the pool at the grain of its mutex: each step is what a thread does while it
holds it. `at` is where each thread is. Waking from the condition variable and getting the mutex
back are two steps, since the interpreter may submit more in between, while the thread is still
counted as idle. `Background` is the whole promise: a submitted job is done, once, sooner or
later. `Tasks` assumes exactly that (`JobDone` with weak fairness), and the run `WorkerPool`
checks that the pool implements it.

### HttpStreams

One response body that is streamed, and the tasks that use it; the pool is that of `WorkerPool`,
whose jobs are now requests, reads, and work that has nothing to do with the stream. `slot` is
the entry in `STREAMS` ("parked" for `Some(reader)`, "taken" for `None`), `waits` the jobs the
scheduler has a task for, `outcome` what was sent to it. `Request`, `Read`, `ReadInPlace` (outside a
task), `End` are the natives, `Cancel` is `task.cancel`, `Finish` is `file_completion`, which runs the
native's `finish`; `SendsFrom` and `SendsInline` end a job in a thread of the pool, or in `submit`.
A script is one of `Scripts`, which says which jobs may be what.

A task that is cancelled while its read is in flight leaves the entry `None` although, after the
job has ended, nobody reads ("stream is already being read" until `__http_end`). This is not only a
leak: it is what keeps `BodyInOrder`, since the job may have taken bytes off the connection, and the
mutant that puts the reader back shows the hole. A task cancelled later, when `finish` has run but
the scheduler has not resumed it yet, takes its chunk with it, while the stream can be read on.
`BodyInOrder` is about what `finish` returns, so it does not exclude this second kind of loss.

### Gc

The heap is a set of addresses, of tables and of closures, with what each refers to; `visible`
and `aside` are what the program holds, on stacks that are marked and on those of suspended
coroutines, which are not. `header`, `pinned`, `bytes`, `state`, `hasWeak` and the four variables
of the staged sweep are fields of `GcTracker`; `plans` are the collections under way, each one
inside a finalizer of the one before. Reference counting is modelled too, since the collector
reads the counts: after each step that drops references, `Counting` frees what nothing keeps
(`Kept`; cycles keep themselves), and an address is used again when the object and its header
are gone.

| Action or operator | Code |
|---|---|
| `NewTable`, `NewClosure`, `Store`, `Erase`, `Load`, `Forget`, `Suspend`, `Resume` | what programs do, with `write_barrier` in `Store` |
| `Collect` (`Plan`) | `gc_collect` or `gc_auto_step` up to `collect_plan`: `flush_young`, marking, counting of internal references, sparing, the queue of finalizers |
| `StartFinalizer`, `FinalizerEnds` | `settle_queue`, `settle_table`; in between the finalizer is `Program` |
| `Sweep`, `AutoSlice`, `DrainStaged` | `sweep_begin` with `sweep_slice`, a slice of `gc_auto_step`, the drain at the start of `gc_collect` |

### NetConn and ByteStream

One stream connection at the grain of its mutex. Three kinds of threads meet there: the script's
(`ReadNow`, `ReadLater`, `ReadAvailable`, `Write`, `Close`, `DropWriter`), the pool's, which wait
for bytes or for the writer's lock (`KeepWaiting`, `EndRead`, `LockWriter`, `EndsWrite`), and the
reader thread (`ReadChunk`, `WaitForRoom`, `StoreChunk`, `ReadEnds`, `ReadFails`, `EndClosed`:
`pump`). The peer sends, hangs up or fails at any time. A waiting thread is in "waits" until it
is notified or `WAKE` passes, and in "woken" until it has the mutex again. `ByteStream` is what a
script may rely on: bytes in their order, each once, none after the script closed the connection.

### Ir, Optimizer, LinearScan, Compiler

`Ir` has the instructions (one of each kind that the passes tell apart), `build_cfg`,
`to_flat_instructions`, `verify_cfg`, liveness, and `RunLog`: what code does when it runs, as the
list of its tests and calls with the values they are given, and what closures see in each call.
`Optimizer` has the six passes of `optimize_cfg` as functions on graphs, each one named after
its pass. `LinearScan` is `allocate_registers` as a state machine, one interval a step; it leaves
open which copy partner's register is taken, where the code goes through a list.

`Compiler` strings them together for one function. While `stage` is "build", each action emits
the code `IrBuilder` emits for one statement, or for the beginning or end of a block; the
statements are chosen from `Statements` in any order, so TLC tries every function within the
bounds. `Finish` builds the graph, `Optimize` is one round, `Relayout`, `ComputeIntervals` and
`SortIntervals` are what codegen and the allocator do before the scan, `Allocate` is a step of it.

## What is checked

| Run | Constants | States | Properties |
|---|---|---|---|
| `TasksAny` | 3 coroutines (one with a native body), 1 nested activation that is not a coroutine beyond the main chunk, delays {0}, 1 job, 1 queue entry made by scripts, depth limit and manual resumes allowed, every call but `close`, `delay`, `poll` | 956 thousand | `TypeOK`, `NeverReentered`, `StatusMatchesStack`, `CallersChain`, `WaitedJobsRun`, `EndsIdle` |
| `TasksOrderly` | 3 coroutines, 2 nested activations, delays {0, 1}, 2 jobs, 2 queue entries, no depth limit, no manual resumes, no native bodies, no `require` | 1.5 million | `YieldsFromOwnFrames`, `NoLostWake`, `WakesAnswerWaits` |
| `TasksLive` | 2 coroutines, 2 nested activations, delays {0, 1}, 1 job; spawn, wait, background work, polls, natives that call back | 9 thousand | `WaitsEnd`, `ControlComesBack` |
| `WorkerPool` (module `MCHttpStreams`) | at most 3 threads; either 4 jobs submitted over and over, or 3, two of which request and read a body of at most 2 chunks | 109 thousand | `TypeOK`, `CountersAgree`, `NobodySleepsOnWork`, `QueuedJobsHaveThreads`, `KeepsPromise`, `BodyInOrder` |
| `Gc` | 3 tables (one plain, one with a finalizer, one plain or weak), a closure, 2 references between objects, 2 held by the program, a collection inside a finalizer | 589 thousand | `TypeOK`, `PlannedStaysWhole`, `BytesAgree`, `CondemnsOnlyGarbage`, `FinalizedOnce`, `FinalizedBeforeDeath`, `CollectsGarbage`, `WeakEntriesGone` |
| `NetConn` | 2 reads, a write, a buffer of 2 bytes filled 2 at a time, 4 bytes sent | 371 thousand | `TypeOK`, `NothingLost`, `BufferBounded`, `NilOnlyAtEnd`, `ReadsEnd`, `ReaderEnds`, `CloseReturns`, `IsStream` |
| `Compiler` | functions of 3 statements out of 9, 2 loops or branches, a parameter, 5 registers, 3 answers to tests; closures read what they capture, parameters are not assigned | 115 thousand | `TypeOK`, `SameBehaviour`, `SameInRegisters`, `GraphVerified`, `Settles`, `NoClash`, `ScanBegins` |
| `CompilerHoist` | as `Compiler`, with closures that assign what they capture | | `SameBehaviour`, violated; see below |
| `CompilerChain` | functions of 6 statements and 3 loops or branches, of which `MarksInOrder` keeps those that begin with given statements in a given order; the parameter is assigned | | `GraphVerified`, violated; see below |
| `TasksModuleYield`, `TasksUntask`, `TasksDeepWake` | smallest instances | | one documented statement each, violated; see below |

Each property is stated with a comment above it in the module. In short:

* `NeverReentered`, `StatusMatchesStack`, `CallersChain`: the VM's few fields and the locals of
  nested `resume` calls always describe the same nesting.
* `YieldsFromOwnFrames`: the test `native_calls <= yield_floor` is exact.
* `NoLostWake`: a coroutine that waits for time, a job or events always has an entry (or a job)
  that answers this very wait. `WakesAnswerWaits`: conversely no entry answers another wait.
* `WaitedJobsRun`, `EndsIdle`: the scheduler never waits for a job nobody does, and never returns
  with something to wait for (the `debug_assert` in `run_until_idle`).
* `WaitsEnd`, `ControlComesBack`: waits end and nested loops return, even beside tasks that wait
  for no time in endless loops.
* `CountersAgree`, `NobodySleepsOnWork`, `QueuedJobsHaveThreads`, `KeepsPromise`: see Background
  work in the inventory.
* `BodyInOrder`: reads of a streamed body return its chunks in order, none missing, none twice.

* `CondemnsOnlyGarbage`: no collection plans to clear or finalize what the program can still
  reach, suspended coroutines and waiting finalizers included. `PlannedStaysWhole`: what it has
  planned is still there when its turn comes, whatever collections finalizers start.
  `FinalizedOnce`, `FinalizedBeforeDeath`: a finalizer runs once, before its table is emptied.
  `BytesAgree`: the account of bytes does not drift. `CollectsGarbage`, `WeakEntriesGone`: what an
  undisturbed collection leaves behind is only what the known limits (below) allow.
* `NothingLost`, `IsStream`, `NilOnlyAtEnd`, `BufferBounded`: see Sockets in the inventory.
  `ReadsEnd`: a read ends unless it asks for bytes that have not been sent, also when it needs
  all that fits and the reader thread waits for room. `ReaderEnds`, `CloseReturns`: a close ends
  the reader thread and returns, even while a write waits for a peer that does not read.
* `SameBehaviour`, `SameInRegisters`: whatever the tests' answers, code after each round, and
  after allocation, makes the same tests and calls with the same values as the code that was
  built. `GraphVerified`: each round leaves a graph codegen accepts. `Settles`: rounds end because
  nothing changes, not at the limit. `NoClash`: variables in one register are never needed at
  once. `ScanBegins`: the scan starts from a state the theorem about it speaks of.

Every property is also run against a plausible bug of the code (the "mutants" of `PROJECT.json`,
whose definitions stand before the ones they replace): a timeout that no longer wakes a poller,
a status not restored, `idle` not counted down by a thread that exits, a job queue not looked at
after a timeout, and so on. Each property fails for its bug.

### Why the bounds are enough

*Bounds*: `Threads`, `JobIds`, `Delays`, `MaxNested` (activations that are not coroutines, beside
the first), `MaxEntries` (how full scripts may make the queues); the pool's `Jobs` and `Workers`.

Three coroutines give one that executes, one that it interrupted and one that is queued or
resumed; nesting of two non-coroutine activations gives a loop inside a native inside a loop, the
shortest history in which an inner pass takes entries that an outer pass counted. Delays of 0 and
1 distinguish "due now", "due after an equal deadline" and "not due". Two jobs let completions
arrive in either order and for a cancelled task. Two entries suffice for order within a queue.
`TasksAny` pays for misuse (which multiplies states) with a smaller nesting and no delays; the
invariants of coroutines it checks are proved for all values anyway. Four jobs and three threads
let the pool be full with a job waiting, with one thread between notification and mutex and
another timing out. Two tasks and the main chunk compete for a stream; two chunks are the fewest
that can come in the wrong order, or of which the first can be lost; a job that has nothing to do
with the stream makes their jobs queue and be run by either thread, or by `submit`.

Three tables are a table with a finalizer, something it refers to, and something that refers to
it, weakly or not; the closure makes references the tracker does not see. Two references suffice
for a cycle, two held by the program for storing one object into another; one nested collection
is the shortest history in which a plan could be pulled from under another. A slice takes one
table, so that the program gets between any two. For a connection, two bytes of buffer and chunks
of two let the buffer overshoot, be full, and be asked for as a whole; four bytes from the peer
fill it twice; two reads compete for what is there.

Functions of three statements with two blocks contain a loop in a loop, a branch in a loop, code
after `break`, a closure over a variable of the loop, shadowing and reassignment, and the passes
turn each other's results over in up to several rounds. Three answers let a loop go round twice
and end. Five registers suffice for some of these functions and are too few for others, so both
ends of the scan happen. Operators are two functions of which the passes know nothing but that
one commutes; constants differ from each other.

A coroutine is created at most once, as ids are in the code (`next_co_id` is never reused). A job
id is used again only once nothing refers to it, which makes the counter `next_job` finite
without merging two jobs.

### Fairness

`FairSpec` (run `TasksLive`) assumes:

* `WF(SchedulerStep)`: the interpreter thread goes on; a pass is ordinary code.
* `WF(Tick)`: time passes, also during computation.
* `WF(JobDone(j))`: jobs end. This is what the refinement `KeepsPromise` shows of the pool, from
  weak fairness of each of its threads alone (which also says that the blocking call of a job
  returns). No fairness is put on a wait timing out, so no job depends on `IDLE_EXIT`.
* `SF` of `GivesBack(t)`, `NestedReturns(n)`, `MainGivesBack`: scripts do not compute for ever. A
  script that has control again and again waits, yields or returns some time. They may still
  wait in endless loops, which is the interesting case. Without this a cooperative scheduler
  promises nothing ("a main chunk that computes without calling `task.wait` leaves the window
  unserved", says `task.rs`). Strong fairness is needed because another activation may take
  over in between.

`HttpSpec` (run `WorkerPool`) assumes the same of the pool's threads and of a job run in place. A
read then ends, which is up to the server: `ureq` sets no timeout on a streamed body.

`NetConn` assumes weak fairness of the reader thread, of each pool thread and of waits that end
after `WAKE`, of the lock's next holder, of a write whose transport is gone (`FailsWrite`), and of
the drop that waits for the lock. Nothing is assumed of the peer, nor that a write to a peer that
does not read ever ends. `ReadsEnd` needs `WAKE`: `conn_read_available` makes room without
notifying, so that a reader thread that waits goes on only when its own wait ends.

The strong fairness of scripts is about the programs, not about the interpreter, and is the only
assumption on them.

## What is proved

All theorems are checked by `tlapm`: those about `Tasks` for every number of coroutines, jobs,
delays, entries and nesting, and with every set of `Calls`; those about `WorkerPool` for every set
of jobs and every finite set of threads; those about `HttpStreams` also for any scripts and length
of the body; those about `NetConn` for any tasks, buffer, chunk and
number of bytes; those about `LinearScan` for any intervals, copies and registers, and those about
`Compiler` for any statements, length, nesting, parameters and registers; those about `Gc`
for any finite set of objects, any references and any nesting of collections.

| Theorem | Module | States |
|---|---|---|
| `TypesHold` | `Tasks_proofs` | `Spec => []TypeOK` |
| `NeverReenteredHolds` | `Tasks_proofs` | `Spec => []NeverReentered` |
| `StatusMatchesStackHolds` | `Tasks_proofs` | `Spec => []StatusMatchesStack` |
| `CallersChainHolds` | `Tasks_proofs` | `Spec => []CallersChain` |
| `YieldsFromOwnFramesHolds` | `Tasks_proofs` | `Spec => []YieldsFromOwnFrames`, if `"require" \notin Calls` |
| `WaitedJobsRunHolds` | `Tasks_proofs` | `Spec => []WaitedJobsRun` |
| `EndsIdleHolds` | `Tasks_proofs` | `Spec => []EndsIdle` |
| `NoLostWakeHolds` | `Tasks_proofs` | `Spec => []NoLostWake`, if `DepthLimit = FALSE` and `YieldingNatives = {}` |
| `WakesAnswerWaitsHolds` | `Tasks_proofs` | `Spec => []WakesAnswerWaits`, if `ManualResume = FALSE` |
| `PoolTypeHolds` | `HttpStreams_proofs` | `Spec => []TypeOK` |
| `CountersAgreeHolds` | `HttpStreams_proofs` | `Spec => []CountersAgree` |
| `NobodySleepsOnWorkHolds` | `HttpStreams_proofs` | `Spec => []NobodySleepsOnWork` |
| `QueuedJobsHaveThreadsHolds` | `HttpStreams_proofs` | `Spec => []QueuedJobsHaveThreads` |
| `PoolImplementsBackground` | `HttpStreams_proofs` | every step of the pool is a `Submit`, a `Done` or a stutter of `Background` |
| `BodyInOrderHolds` | `HttpStreams_proofs` | `HttpSpec => []BodyInOrder` |
| `PoolServesHttp` | `HttpStreams_proofs` | `HttpSpec` implies the pool's invariants |
| `ConnTypeHolds` | `NetConn_proofs` | `Spec => []TypeOK` |
| `NothingLostHolds` | `NetConn_proofs` | `Spec => []NothingLost` |
| `BufferBoundedHolds` | `NetConn_proofs` | `Spec => []BufferBounded` |
| `NilOnlyAtEndHolds` | `NetConn_proofs` | `Spec => NilOnlyAtEnd` |
| `IsStreamHolds` | `NetConn_proofs` | `Spec => IsStream`: a connection implements `ByteStream` |
| `NoClashHolds` | `Compiler_proofs` | `ScanSpec => []NoClash`: the scan by itself |
| `ParamsKeptHolds` | `Compiler_proofs` | `ScanSpec => []ParamsKept` |
| `CompilerTypes` | `Compiler_proofs` | `Spec => []TypeOK`: through every pass of every round |
| `ScanBeginsHolds` | `Compiler_proofs` | `Spec => ScanBegins` |
| `NoClashCompiled` | `Compiler_proofs` | `Spec => []NoClash`: the scan of any compiled function |
| `ParamsKeptCompiled` | `Compiler_proofs` | `Spec => []ParamsKept` |
| `AllPlacedHolds` | `Compiler_proofs` | `Spec => []AllPlaced`: when the scan ends, whatever the code names has a register |
| `CapturedKeepRegisterHolds` | `Compiler_proofs` | `Spec => []CapturedKeepRegister`: captured variables share their registers with none placed later |
| `BuiltVerifiedHolds` | `Compiler_proofs` | `Spec => []BuiltVerified`: `verify_cfg` accepts the graph built of any function |
| `RelayoutVerifiedHolds` | `Compiler_proofs` | `Spec => RelayoutVerified`: building an accepted graph again gives an accepted one |
| `GraphVerifiedHolds` | `Compiler_proofs` | `Spec /\ []StraightSoFar => []GraphVerified`: every round leaves a graph `verify_cfg` accepts, unless an empty block jumps back to a bypassed one |
| `BuildCfgSound` | `Optimizer_proofs` | the graph of well labelled code is `Sound` |
| `HoistInvariantsSound` | `Optimizer_proofs` | hoisting, with its front blocks, keeps any graph `Sound` |
| `EliminateDeadSound` | `Optimizer_proofs` | so does the elimination of dead code |
| `SimplifyCfgSound` | `Optimizer_proofs` | so does `simplify_cfg`, if `NeverBack` |
| `SoundVerified` | `Optimizer_proofs` | `verify_cfg` accepts a `Sound` graph |
| `BuildCfgVerified` | `Optimizer_proofs` | `build_cfg` of any code with each label placed once and no other jumped to |
| `RebuiltVerified` | `Optimizer_proofs` | flattening and building again, for any accepted graph |
| `SortedType` | `Compiler_proofs` | `Sorted` gives the members of a finite set once each, in their order |
| `GcTypeHolds` | `Gc_proofs` | `Spec => []TypeOK` |
| `PlannedStaysWholeHolds` | `Gc_proofs` | `Spec => []PlannedStaysWhole` |
| `FinalizedOnceHolds` | `Gc_proofs` | `Spec => FinalizedOnce` |
| `FinalizedBeforeDeathHolds` | `Gc_proofs` | `Spec => FinalizedBeforeDeath` |
| `CondemnsOnlyGarbageHolds` | `Gc_proofs` | `Spec => CondemnsOnlyGarbage` |
| `CollectsGarbageHolds` | `Gc_proofs` | `Spec => CollectsGarbage` |
| `WeakEntriesGoneHolds` | `Gc_proofs` | `Spec => WeakEntriesGone` |
| `BytesAgreeHolds` | `Gc_proofs` | `Spec => []BytesAgree` |
| `RetainType`, `RetainOnly`, `RetainAll` | `Subsequences_proofs` | `retain` yields a queue, invents nothing, loses nothing |

Assumptions: the named `ASSUME`s of `Coroutines` and `Tasks` (`None` is no thread, bounds are
natural numbers, `Calls` are calls) and of `WorkerPool` (there are finitely many threads, and at
least one; `NoJob` is no job), of `HttpStreams` (`Scripts` say what jobs may be, `Chunks` is a natural
number), and of `NetConn` (sizes are natural numbers, those of the buffer and
the chunk not zero; `Nobody` is no task), and of `Gc` (there are finitely many objects, and tables
are made of the three kinds), and of `Compiler` (bounds, parameters and registers are natural
numbers, and the parameters have registers; `Statements` are statements, of any expressions there
are). The theorems about the scan by itself need none. TLC evaluates them in every run.

**The argument for `Tasks`.** None of the safety properties is inductive. That statuses match the stack
survives a yield only if the activation of the running coroutine is the innermost coroutine and
its saved `caller` is the next one further out; that the test for a yield is exact survives a
`resume` that *returns* only if the floor saved in the activation was right for the caller. The
inductive invariant `IInv` is `TypeOK /\ SInv`, where `SInv` says of the whole stack, not only
its end:

* `Disciplined`: each coroutine is on the stack once (`Once`); exactly those are running or
  normal, and the running one is `current_co` (`Statuses`); each activation's saved caller is the
  next coroutine below it (`Callers`), `current_co` is the innermost (`Innermost`), and the main
  chunk is at the bottom (`MainFirst`);
* `Counted`: `native_calls` is the number of native activations on the stack, and `yield_floor`
  and each floor saved in an activation is the number below the coroutine it belongs to.

`Coroutines_proofs` shows, for any stack, that pushing, popping, entering a coroutine, leaving
one with everything above it, and changes to scheduler loops keep both parts. `Tasks_proofs`
reduces each action to one of these, proves types of the queues, and concludes with temporal
reasoning. `YieldsFromOwnFramesHolds` then follows: where `native_calls <= yield_floor`, no
native is above the running coroutine, and without `require` nothing else can be. The hypothesis
is necessary: see `TasksModuleYield`.

The queues are then seen as sets of entries, and each pass of the scheduler by what it moves from
which set to which. Four further invariants each rest on `IInv`:

* `JobsInv` adds to `WaitedJobsRun` that a job is in one place, once (`JobsOnce`): otherwise the
  completion taken for one wait could be that of another.
* `EndInv` adds to `EndsIdle` what a pass knows while callbacks run (`Loops`): a loop in which
  nothing was due is the innermost, nothing is deferred, and nothing is ready but what the pass
  covers, so that `idle` may conclude from its own queues; and the idle loop is at the bottom of
  the stack.
* `AllWake` is `NoLostWake` for one coroutine at a time. It needs that a coroutine is suspended at
  something exactly when its status says so (`ParkMatchesStatus`). It holds also when scripts
  resume, close and kill the coroutines that wait (`ManualResume = TRUE`), but only while no
  resumption runs into the call-depth limit, of which `TasksDeepWake` is the counterexample, and
  no coroutine has a native body that yields: then `is_yielding` is never left set, and the error
  of a failed job always ends the coroutine it is raised in (`StepKeepsNoYield`).
* `AnswerInv` says that the queues and `waiting` refer to a coroutine once at most (`Apart`), only
  to coroutines that are suspended or closed (`Idle`), and for the suspension they are in
  (`Matching`). A script that resumes a waiting coroutine by hand leaves the entry of the old wait
  behind, hence `ManualResume = FALSE`; nothing else is excluded, not cancellation, and not the
  call-depth limit.

**The argument for `WorkerPool`.** `NobodySleepsOnWork` and `QueuedJobsHaveThreads` are about how
many threads are where, but the code decides by its counters: the first needs what the mutex
protects (a thread that finds the queue empty waits without letting go of it), the second that
`idle` is not too high. So `IInv` has three parts, kept together: `Counters` (the two counters
are the numbers of threads), `Served` (the two properties in terms of those numbers), and
`OnePlace` (a job is queued once, or run by one thread, or by `submit` itself). `CountMove` says
what the move of one thread does to the number of threads in any set of places; every action moves
one thread or two. `AtWorkCardinality` turns `OnePlace` into the third part of `CountersAgree`,
with a bijection each from the positions of the queue and from the threads that run. That a job
is submitted or done once follows from `OnePlace` alone.

**The argument for `HttpStreams`.** The pool's own lemmas do the work of the threads: all that is used of
a step of the pool is whether it submits a job that was not at work, or ends one that was
(`SubmitTakesJob`, `JobIsDone`), so a job sends one completion. `StreamInv` adds that at most one
read is in flight and none while the reader is in the table (`OneReader`), that the stream opens
once and nothing reads it before (`OpenedOnce`), and that what came off the connection was
returned or is what the one read in flight will return, unless its task is gone (`Accounted`); then
the table has no reader any more, and no later read can return what follows.

**The argument for `NetConn`.** `NothingLost` is inductive once the chunk's size is bounded and the
state well formed, since every step moves bytes from the end of one sequence to the beginning of
the next: `NumberedFirst`, `NumberedAfter` and `NumberedJoined` say what that does to numbered
bytes. `NilOnlyAtEnd` needs `EndsAtPeer` besides: a stream at its end that was not closed by the
script ended at the peer, and if the peer hung up the wire was empty; `TypeOK` says that the
thread that ended holds no chunk. Each action's lemma shows at once that the invariant is kept
and that to the script the step is one of `ByteStream` or none (`StreamStep`), so that the
refinement follows with temporal reasoning.

**The argument for `LinearScan`.** `NoClash` speaks of variables placed long ago, of which the
allocator only remembers those in `active`. The invariant adds what was true when the others left
(`Finished`: some variable was placed by which they were over), that the queue's starts never go
back (`InTurn`), and that registers of active variables differ from each other and from the free
ones (`Exclusive`). A register is then free only if all who had it are over by some variable that
starts no later than the one it is given to. With equality only a copy may end one and start the
other, which is where coalescing departs from textbook linear scan.

**The argument for `Compiler`.** The scan's theorem assumes a start, `ScanInit`: intervals in the
order of their starts, each variable once, hints among them. That the compiler always provides it
rests on all the stages before, so the invariant is `TypeOK /\ Staged /\ Scanned`:

* `TypeOK` says what is passed from stage to stage. While the function is built, code names only
  variables that were made, and the open scopes are nested as the builder's stack is (`Nested`):
  the code position and the first variable noted when a loop was opened still lie within the code
  and the variables when it is closed, where `insert_loop_close` cuts the code in two. While it is
  optimized, the graph is one of such instructions. Each pass has a lemma, for any graph of that
  form, reachable or not: `HoistInvariantsType`, `ShareExpressionsType`, `PropagateCopiesType`,
  `TrackValuesType`, `EliminateDeadType`, `SimplifyCfgType`, `BuildCfgType`, `FlattenType`.
* `Staged` says what each stage leaves for the next: the intervals are computed of the graph whose
  layout is the code (`code = Flatten(cfg)`).
* `Scanned` says that intervals are of variables there are and cover all the code names
  (`Spanned`), that the scan satisfies its own invariant `IInv`, and that no variable is forgotten
  (every one with an interval has a register or is still queued). `AllPlaced` is what is left of
  this when the queue is empty.

All the passes are folds, over instructions, blocks, labels or rounds. A fold is a recursive
function on 0..n; `FoldExists` shows that there is one, with the least number for which there would
not be, and `FoldKeeps` that what each step keeps holds at its end. So each lemma about a pass is
about one step of it. Liveness is such a fold too, and `PlacesType` follows the places where
variables are needed through the blocks: each within the code laid out so far, and one at least for
every variable an instruction names. `SortedType` turns the comparison of keys (start, end, number) into the order
of the queue: the rank of a variable is how many come before it, and ranks are all the numbers from
0 on (`RankOnto`, by counting). `Spanned` also gives captured variables intervals that end after
all others begin (`NoEnd`), so that no register of theirs is ever free again: `CapturedKeepRegister`
is that and `NoClash`.

Labels have an invariant of their own, `LabelInv`. A loop or a branch takes two labels when it is
opened; what it has yet to place is pending (`Pending`), until `Else`, `EndIf` or `EndWhile` places
it. `Scoped` says that scopes have different pending labels, none of them placed, and that jumps
lead to labels placed or pending: with no scope open, as `Finish` requires, to labels placed.
`BuildCfgVerified` takes it from there: `build_cfg` cuts the code so that each block is named by
its label or by a number above all labels (`CutFrom`, `NamesDiffer`), leads blocks where their last
instruction says (`ConnectGoes`), and notes each edge at the other end. `Flatten` places the label of
each block once (`FlattenLabels`), so the same lemma says that what the allocator gets is accepted if
what the last round left was (`RebuiltVerified`).

What `verify_cfg` asks of a graph is not inductive: the passes need more of a graph than that its
edges agree and lead to blocks. `Sound` adds that labels are given once, that each edge is noted at
both ends (`Joins`), and that a block jumps or returns nowhere but at its end, that all it jumps to
are among its edges, and that it has no others when it ends with a jump, and none when it returns
(`Tidy`). `SoundVerified` gives `VerifyCfg`, and each pass keeps `Sound`, of any graph, whatever
its size:

* Passes that rewrite code in place leave where it leads alone (`SameFlow`, `RewrittenAlike`).
* `WithPreheader` puts a block before a loop's header and leads there those who came from outside
  (`Linked`, `PreheaderJoins`); the label is above all there are (`NewLabel`). What is moved
  there never leads anywhere (`TakeOrLeaveFlow`). A header lies in its own loop's body, which is
  computed once, before any loop is changed (`LoopsIn`): a later loop may be of a graph that is no
  more, and still its front block is joined well.
* `RemoveUnreachable` keeps what can be reached, and all that follows it; the rounds of marking
  stop, by counting, when nothing is added (`Cardinality` in its invariant).
* `MergeBlocks` joins a block to the only one that follows it (`MergedJoins`).
* `Bypass` leads past an empty block, and needs the block its jump names to be there
  (`BypassSound`). `EliminateEmptyJumps` bypasses blocks it has noted beforehand, so it may meet a
  jump to one it has removed: exactly when, of two noted blocks, the later jumps to the
  earlier. `NoneBack` says that none does, `NeverBack` says so of each turn of `simplify_cfg`.

So `GraphVerifiedHolds` has the hypothesis `[]StraightSoFar`: in no round so far is `simplify_cfg`
given a graph for which `NeverBack` fails. It is no restriction of convenience: the counterexample of
`CompilerChain` is a function for which it fails, and the graph is then refused. On the instances
of `Compiler` and `CompilerHoist` TLC finds it true in every state; on that of `CompilerChain` it is
false. The theorem thus says that this is the only way in which the passes break a graph.

**The argument for `Gc`.** That planned tables stay whole and that finalizers run once hold for one
reason: nobody else touches what a collection has planned. The invariant `GInv` says so of all
collections under way at once: those further out
wait in a finalizer (`Nesting`); what is to be cleared is tracked, not pinned, and not to be
cleared by another collection or by the staged sweep (`PlainApart`); what is to be finalized is
tracked, pinned, and not queued elsewhere (`WaitingApart`); no queue names a table twice
(`NoneTwice`); and a pinned table was finalized only if it is being finalized (`RanUnpinned`).
`OldOrNew` is the heart: a step leaves each collection no more to do than before, or adds one that
has nothing in common with the others, which is what sparing tables held elsewhere is for
(`CondemnedFree`; the mutant `HeldByProgram` breaks it). `CountingKeeps` says that refcounting
leaves alone what is held, and `AmongElements` what `retain` leaves of pins.

What is garbage depends on `Reach`, which marks in rounds. `ReachIsClosure` says what the rounds
amount to: the least set that contains the roots and is closed under strong references. The rounds
are a recursive function on the natural numbers; that they stop growing is shown by counting, with
induction over the least number at which the claim fails. Then `CondemnedNotInUse`: a table
is spared if a holder that the plan cannot account for refers to it, or one that was spared, so
the objects that are not condemned hold all that is in use and refer to no condemned one but
weakly, although marking starts only from the visible stack. `KeptIsClosed` does the same for
refcounting: what it keeps is closed under references, so it frees only what nothing refers to.

`CollectsGarbage` and `WeakEntriesGone` compare the end of a collection with its beginning, so the
invariant `MInv` says what stays true in between: a freed table is referred to by nothing, not even
the tracker (`DeadGone`), and a table without a header has no finalizer and is not weak
(`EmptiedPlain`); a sweep is staged only in its phase, and black tables are left only then
(`Phases`); and a collection that met no finalizer spared only what the anchors lead to, and saw
the weak tables (`MarkedAll`). Without `Phases`, a table marked by an earlier collection could pass
for marked by this one.

`BytesAgree` sums over the collections under way, with the fold of the community modules.
`AddingIsSums` shows that the fold, whatever order it chooses, is the last of the running totals
(which exist by recursion over the natural numbers and are unique), so that adding a collection or
changing one changes the sum by that (`SumByLast`). The invariant `BInv` adds that no staged table
is young (`StagedOld`): a slice takes the size off only for tables that the count includes. It
rests on `DeadGone`, since a table that refcounting freed is off the count already.

**Only model-checked.**

* What compiled code does. `SameBehaviour` and `SameInRegisters` compare what two programs do: a
  proof needs induction over their runs, pass by pass. They are not true of every function either:
  with `ClosuresWrite` (`CompilerHoist`) or `AssignParams` the first fails, hence what the run
  `Compiler` leaves out.
* That `StraightSoFar` holds of small functions: `GraphVerified` is checked on them without it.
* `Settles` is a claim about functions of the run's size: nothing in the code keeps larger ones
  from needing more rounds than `MAX_FIXPOINT_ROUNDS`. The theorems about `Compiler` hold with or
  without them, also for a graph the verifier would refuse and for rounds cut off at the limit.
* Liveness: `WaitsEnd`, `ControlComesBack`, `ReadsEnd`, `ReaderEnds`, `CloseReturns`, and the
  fairness part of `KeepsPromise`; and with it all that involves `ENABLED`.

## Disagreements found

| Run | What the code does | What is said |
|---|---|---|
| `TasksModuleYield` | `execute_module` does not count as a native call, so a module body may yield inside a coroutine's `require`. The yield unwinds `execute_module` and `builtin_require`, whose Rust frames are lost: the body never ends, and the module is dropped as if it had failed | `docs/language.md:268`: "A coroutine can only yield from its own frames" |
| `TasksUntask` | `task.cancel` of the running task fails, but only after `forget` removed it from `task_ids`; its later blocking calls block everyone | `docs/reference/task.md:36`, `:40` |
| `TasksDeepWake` | Entries are taken off the queue by a pass run at the call depth limit, and the resumption fails before it starts: the coroutine stays suspended | `docs/reference/task.md:3`: "the scheduler resumes it once the wait is over" |
| `CompilerHoist` | A local that only a closure assigns is read at the head of a loop; `loop_invariant_code_motion` checks captured locals only among those an instruction assigns, so the read is moved out and the loop tests one value for ever (`examples/async_fetch.nyk:26` waits that way) | `opt/mod.rs:27`: "aliased from outside the instruction stream ... Passes leave them alone."; `CONTRIBUTING.md:51`: "must preserve observable behaviour" |
| `CompilerChain` | `eliminate_empty_jump_blocks` notes where each empty block jumps before it removes the first. When one jumps back to an earlier one, the earlier is removed first, and the edges of the later are then led to a block that is gone. It takes a loop with two ways back to its head: each way back counts as a loop, for which `loop_invariant_code_motion` makes a front block that the other way back enters. `lower` refuses the function, a valid one, with "IR verification error" | the test at `compiler/ir/mod.rs:404`, which asserts that the verifier accepts what `optimize_cfg` leaves; `CONTRIBUTING.md:51`: "must preserve observable behaviour" |

Other divergences seen while modelling, which no run is about:

* `docs/reference/task.md:20` says that `task.spawn` runs a function "until it first waits or
  yields". A native handed to it runs in place (`coroutine.rs:249`): if it asks to wait, its
  coroutine is queued, but dead when it returns, and `is_yielding` stays set for the caller. The
  next error that reaches a `resume` is then taken for a yield (`coroutine.rs:310`). If that is the
  error of a failed job, as when one task waits for a job, another calls
  `task.spawn(task.wait, 1)`, and the job fails, the first stays suspended in its call with no
  entry left to wake it, and its failure is not counted (`ErrorTakenForYield`): `NoLostWake` fails
  with `YieldingNatives # {}`.
* `gc.rs:610` and `tests/gc_finalizer.nyk:42` say that a resurrected table keeps its contents
  intact. It keeps its own; but the plain tables that only it referred to were condemned with it
  and are emptied by the sweep.
* `settle_table` counts its caller's argument and the queue as references, so a table whose
  finalizer returned normally always counts as resurrected at first, and is taken by a later
  collection or by its reference count.
* `gc.rs:1` promises that cycles are collected. A cycle through a closure is not: closures have no
  header, and what they refer to counts as held from outside.
* A black table that the barrier turned gray is never looked at again, neither marked nor swept.
* With `AssignParams = TRUE`, `SameBehaviour` is violated too: a parameter has a value without an
  instruction that assigns it, so the only assignment to it is taken for its only definition and
  moved in front of a loop that may not run.
* If the scan runs out of registers, codegen gives each variable a register of its own and refuses
  the function only if there are too many variables.

## Abstractions and omissions

* `Gc`: buffers and upvalue cells are left out, and a table counts as one byte. An automatic step
  may come at any time rather than at a threshold; marking is one step, as `gc_auto_step` marks
  and plans without giving control back. A slice takes one table instead of `SLICE_BUDGET`. Each
  holder counts once, a table's kind is fixed when it is made (`Births`), and coroutines are only
  switched outside finalizers. Nothing is claimed of entries a weak table loses too early: an
  address in `doomed` may belong to a new table by the time weak tables are pruned.
* `NetConn`: listeners, datagrams, websocket frames and processes are left out. `CloseReturns` and
  `ReaderEnds` are claimed for connections with a closer; the input of a child process has none,
  and closing it while a write waits for the child blocks. Each read has a thread of its own, as
  if the pool had one free: `ReadsEnd` assumes it, although all libraries share `MAX_WORKERS`
  (`background.rs:46`), and reads that wait for other peers may hold them all.
* `HttpStreams`: servers, the proxy and port forwards are left out, and more than one stream: ids
  are never used again, so streams meet only in the pool. A chunk is what one read returns, whatever
  its size. A read in place that panics ends the interpreter and is not modelled.
* `Compiler`: tables, globals, the function's own upvalues, numeric and generic loops, `goto`,
  multiple results, inlining, debug markers and `nil` stores nobody reads are left out; so are
  metamethods, which may call closures where the passes expect an operator. Variables are
  numbered from 1. `Dominates` and `LiveIn` are given by their definitions, which the code's
  iterations compute. Calls are to unknown functions, which may run any closure made so far.

* Values passed and returned, upvalues and registers are left out; so are debug hooks and error
  messages. A coroutine freed because nobody refers to it is not modelled: the queues hold
  handles, so it cannot be one the scheduler knows.
* Calls that change nothing are left out: resuming a coroutine that is not suspended, closing one
  that runs, background work run in place outside tasks.
* A pending error ends the coroutine at once (`DieOfError`), unless it is taken for a yield: a
  coroutine only yields outside natives, so no `try` of its own can catch the error.
* Errors pass through natives and modules one activation at a time. With a stale `is_yielding`
  (after a native body) an error raised under a native is passed on the same way; only the error
  of the coroutine's own body is distinguished from a yield.
* `finish` of a job runs with `file_completion` and has no effect on the scheduler other than to
  fail. The pump of the event loop brings no events, some, or an error.
* The call depth is one bit, chosen freely when a script resumes or blocks under `DepthLimit`.
  A loop keeps the bit, since the depth at its call does not change.
* Deadlines saturate far in the future in the code; here delays are finite.
* The REPL's `run_due` and `next_due`, `coroutine.wrap` other than as a resume, panics of the
  interpreter, and several VMs in a process are not modelled.
* `NoLostWake` is claimed only for `DepthLimit = FALSE` and `YieldingNatives = {}`, and
  `WakesAnswerWaits` only for `ManualResume = FALSE`. Without these they fail; a script that
  resumes a coroutine that is asleep makes `task.wait` return early, for instance, which no
  document forbids or defines.
* What no module covers yet is in the plan, and in `PROJECT.json` under its component.

## Running

    tlc -workers 2 -config TasksAny.cfg MCTasks        # likewise the other Tasks*.cfg
    tlc -workers 2 -config WorkerPool.cfg MCHttpStreams
    tlc -workers 2 -config Gc.cfg MCGc
    tlc -workers 2 -config NetConn.cfg NetConn
    tlc -workers 2 -config Compiler.cfg MCCompiler       # likewise CompilerHoist.cfg
    tlapm Subsequences_proofs.tla; tlapm Coroutines_proofs.tla; tlapm Tasks_proofs.tla; tlapm Gc_proofs.tla
    tlapm HttpStreams_proofs.tla; tlapm NetConn_proofs.tla; tlapm Optimizer_proofs.tla; tlapm Compiler_proofs.tla
