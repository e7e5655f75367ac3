# TLA+ models of the H language

H is a language with a compiler (`tag1/hc`), an interpreter (`tag1/hc-rt`),
tools (`tag1/hc-tools`) and a language server (`tag1/hc-lsp`), written in Rust.
This directory models what in it depends on the order of events (goroutines,
threads, channels, containers, futures, the test runner, the handlers of the
language server), and those of its algorithms that are easy to get wrong and
can be compared with a definition of what they are for (defers in two
execution modes, inferred error sets, captured references, linking, error
numbers, data structures, compression, regular expressions). Paths below are
relative to the repository (`src/` here); `hc-rt/...` stands for
`tag1/hc-rt/src/interp/...`, `ir/...`, `semantic/...` and `runtime/...` for
`tag1/hc/src/...`.

`PROJECT.json` has the same facts for machines: components, runs, mutants, the
source lines of every definition, findings, hazards and theorems.

## 1. Inventory

| Part | State it keeps | Operations | Talks to | What is hard | What makes it correct |
|---|---|---|---|---|---|
| `chan<T>` (`hc-rt/chan.rs`) | queue, `closed`, two condition variables, capacity | send, recv, try_send, try_recv, close | goroutines, blocking their OS threads | notify_one, spurious wakeups, close against waiters, capacity 0 | no lost wakeup; FIFO, each value once; closed is final and wakes all |
| Goroutine scheduler (`hc-rt/mod.rs`) | run queue, table of goroutines, `stop`, worker threads | start, submit, worker loop, Drop | spawn, Drop of the interpreter | pop and take in two critical sections, `stop` read early, panics | each goroutine run at most once, nobody runs after Drop, Drop returns |
| Threads (`hc-rt/call.rs`, `loader.rs`, `io.rs`, `layout.rs`) | `thread_handles`, `root_threads`, cancel and done flags, result slot, fields of Thread values | spawn, join, cancel, detach, is_done, poll, scope exit, drain, drop | scheduler | flag and result, cancel racing the start, who joins last, a panic in the closure | a join finds a result; early cancel is certain; the program ends only when its threads have |
| Threads of the IR runtime (`ir/builtin.rs`, `ir/method.rs`) | the same flags, handles that joins leave in place | spawn, join, cancel | its scheduler | arguments that are indices into another runtime | joins agree and return |
| Goroutines over channels | both of the above | blocking calls on workers | both | a waiting goroutine keeps its worker | no worker or value goes astray; all goroutines finish if a worker is left |
| Pipe, Tee, Funnel, Hub (`hc-rt/call.rs`; `ir/builtin.rs`, `ir/method.rs`) | `channels` by id in each interpreter, class instances holding the id | init, write, send, read, recv, try_read, close | interpreters of threads | ids that mean different things in different interpreters; reads nobody can end | a FIFO of its own per container; `unreachable!()` is |
| Futures (`hc-rt/call.rs`) | fields `cancel`, `done`, `result`; the call stack | async call, await, cancel, is_done | each other, by nested awaits | errors that unwind several awaits, re-entrant awaits | await is idempotent; a cancelled future never starts |
| Test runner (`hc-rt/layout.rs`) | summary, output, one channel per thread-mode test | run_tests, run_test_threaded | interpreters of tests | deadlines, late answers, hung and panicking tests | each verdict is the test's own and counted once; the run ends |
| Values shared by threads (`hc-rt/call.rs`, value models) | reference counts | clone, drop, spawn, Mutex.lock | all of the above | `Rc` counted by two threads | a cell lives as long as its handles |
| Statements and scopes (`hc-rt/eval.rs`, `loader.rs`; `ir/lower_impl.rs`, `ir/runtime.rs`) | stack of scopes with their defers; instructions, stack of registrations | blocks, loops, jumps, try, catch, defer, errdefer | expressions | two implementations of one semantics; exits through several scopes | both modes run the same defers in the same order and return alike |
| Semantic checker (`semantic/`) | tables of variables, error sets | one pass over the tree; a fixed point over the call graph | lowering | order of a hash map; branches, loops and returns between spawn and join | least solution; no thread outlives what it refers to |
| Linking of a package (`hc-tools/src/pkg`) | function, closure and name tables | merge, strip tests | lowering | indices of one file that mean another function in the whole | every reference names what it named |
| Error numbers (`runtime/errorcodes.rs`, `hc-rt/loader.rs`) | tables of names | register, record, merge | comparison of values | several tables, names met at run time | equal numbers for equal names only |
| Data structures (`runtime/ds_*.rs` and their copies in both runtimes) | vectors with indices as links, free lists | insert, remove, push, pop, peek, alloc, free, clear | programs | reuse of indices, wrapping, removal of inner nodes | each is the object it is named for |
| Compression, regular expressions (`runtime/`) | - | compress, decompress; parse, match, replace, split | programs | lengths in one byte; repetition of nothing | decompression inverts; the ends found are those the pattern means |
| Language server (`hc-lsp`) | open documents, symbol tables | did_open, did_change, did_save, did_close, queries | the editor | handlers that run interleaved at every await | diagnostics name the version they are of; the documents become the editor's |
| Expressions, classes, pointers, allocators | values | evaluation | all | - | sequential semantics |
| Lexer, parser, LLVM code generation | - | text to tree, tree to text | - | - | no state between calls |
| Formatter, linter, docs, lock files, script cache | files | commands | files | - | - |
| `stage1`, examples, editor extension, `hc-tools/hc-rt` | - | - | - | - | programs in H, generated code, an old copy |

## 2. Plan and where it stands

Order of work, most important first. All of it is here.

1. `Chan` with the abstract `BoundedChannel`; proofs of all its safety.
2. `GoroutineScheduler`; proofs of all its safety.
3. `ThreadRuntime` over the scheduler. Panics in the closure and interpreters
   that are dropped without a drain are part of it.
4. `GoroutineRuntime`: scheduler and channel composed.
5. `FourMode`, `Future`, `TestRunner`, `SharedValue`.
6. `IrThreads`: the threads of the IR runtime, which differ.
7. `TreeWalk`, `Lowering`, `DualMode`: the two execution modes compared.
8. `ErrorSets`, `Captures`, `Linker`, `ErrorCodes`: algorithms of the compiler.
9. `RingBuf`, `PageMem`, `IntrList`, `TreeMap`, `Lz`, `Regex`: the library.
10. `LanguageServer`.

Proofs: the safety of 1 to 5 (`SharedValue` apart, where it does not hold) and
of 10 is proved, of 8 that of `ErrorSets`,
`Linker` and `ErrorCodes`, and of 9 all but the regular expressions. What could
be proved next: `JoinsAgree` of `IrThreads`, and `Captures`.

## 3. Modules

`M` is a module, `MCM` instantiates it for TLC (symmetry sets, functions used as
constants), `M_proofs` holds its theorems. Definitions with "Mutant" in their
comment are not part of any specification: each is a plausible mistake in the
code, and is there to show that a property would notice it.

`Interpreter`, `MCLibrary` and `MCCompiler` each hold several independent
parts. Which part runs is chosen in the initial state (`which`), and only its
variables change afterwards; a property of a part is stated for all behaviours
and is about those of the part.

A module that composes others EXTENDS the one whose proofs it needs and
instantiates the rest: `ThreadRuntime` and `GoroutineRuntime` extend
`GoroutineScheduler` (their own initial states, steps and specifications are
therefore called `RuntimeInit`, `RuntimeNext`, `RuntimeSpec`), and `Interpreter`
extends `GoroutineRuntime`. The prover does not let a theorem of an instance be
cited; one of an extended module it does.

### Threads and channels

**BoundedChannel** - what a channel promises: a bounded queue with calls that
are made and answered in single steps, in which a call of send waits for room, a
call of recv for a value, and close answers everybody.

**Chan** - `call_chan_method`. One action per critical section of the mutex: a
call runs up to its return or to `Condvar::wait`, and from a wakeup to the next
wait or return. `sendCond`, `recvCond` are the threads asleep in the condition
variables, `sendWoken`, `recvWoken` those notified that have not got the lock
back. `notify_one` picks any sleeper; `SpuriousWakeup` wakes one without a
reason. `accepted` and `delivered` are history. Refines BoundedChannel.

**GoroutineScheduler** - `GoroutineScheduler` of `mod.rs`. `pc[w]` is where a
worker is in `worker_loop`: at the test of `stop`, about to pop, holding an id
(`held[w]`), running the task, ended. Pop and take are two steps because the
lock is released in between. `owner` is the thread that owns the scheduler and
drops it. A task that panics ends its worker.

**ThreadRuntime** - threads over GoroutineScheduler. Tasks go through the
closure of spawn (`tpc`): load the program and test `cancel`, run the body,
store the result, set `done`, return, or panic on the way. The interpreter is
one thread (`main`) that spawns, joins (removes the handle, then spins on the
flag), cancels, detaches, leaves scopes, polls, returns and drains. `Drains` is
FALSE for interpreters of spawned tasks and thread-mode tests, which are dropped
without a drain.

**IrThreads** - the same for the IR runtime. A join leaves handle and result
where they are; a cancelled task starts no runtime; nothing is drained; an
argument is a value, or an index that the new runtime knows (a global) or does
not know (a panic).

**GoroutineRuntime** - scheduler and channel composed: the threads of the
channel `C` are the workers of the scheduler, a goroutine is one blocking call.

**Interpreter** - FourMode, Future, TestRunner, IrThreads, GoroutineScheduler
(the part "pool", with tasks that return or panic) and GoroutineRuntime side by
side, and the properties of each by a name of its own.
It also has the assumptions on their constants that the proofs use.

**FourMode** - the containers, with `channels` of each interpreter. A handle can
be used by any interpreter (it is a value), the queue is looked up in the one
that runs the call. Tee, Funnel and Hub share their code and are one kind.

**Future** - async calls, await, cancel. Bodies that await run on a stack; an
RtError unwinds all of it. `MayAwait` says who can await whom.

**TestRunner** - `run_tests` and `run_test_threaded`. Each thread-mode test has
a thread (`child`) and a channel (`mail`); deadlines may pass at any moment, so
the timing of a serial test is a choice too, made where the code reads the
clock, after the body.

**SharedValue** - the count of one heap cell whose handles are `Rc` (classes,
arrays, Vec, Map, closures' cells). An operation on the count is a read and a
write. `spawn` gives a task a further handle, `lock` gives one to whoever asks
for the mutex, for good.

### Two execution modes

**TreeWalk** is the interpreter's way through a function: `Stmt`, `Scope`,
`Iterate` return a flow (falls through, value, return, break, continue), and a
scope runs its defers on the way out, errdefers only if the flow is an error.
What expressions yield is read from a tape. **Lowering** is the other way:
`LowerStmt` emits the instructions of `lower_impl.rs` with the bodies of defers
written in line at each exit and guarded by whether they are registered, and
`Run` executes them. **DualMode** writes functions statement by statement and
compares logs and results of the two on all tapes.

### Algorithms of the compiler

**ErrorSets** - `infer_error_sets`: every table of direct errors and calls of
three functions is an initial state, every order of visits within a round a
behaviour. **Captures** - the states of thread handles in the checker
(`VarInfo.thread`) go along with a body that is written word by word; when it
is complete it is run, with its branches as choices, and the threads that may be
running are compared with what the checker said. **Linker** - files of functions
with nested closures, appended file by file, then stripped of their tests; what a
reference meant is compared with what it means. **ErrorCodes** - the
tables of files, in the interpreter (one after another) and in the compiler
(merged), and names met at run time.

### Library

**Fifo**, **PagePool**, **NodeList**, **OrderedMap** are what the data
structures promise, with the answer of the latest call as part of the state.
**RingBuf**, **PageMem**, **IntrList**, **TreeMap** are the code, with its
indices, and refine them; where the interpreters differ from `runtime/` (a ring
that grows up to its capacity, a list that does not know which indices are
members), a constant or an initial value says which code runs. In **TreeMap** the
loops that go down the tree are one function, `Down`, from a node along a map of
nodes to the next; `remove` goes down twice. **Lz** and
**Regex** are operators: `Rounds` is the loop of compress and `Decompress` that of
decompress, with the widths of a token's fields, the window and the reach of the
search as constants. `Parse` and `Ends` are those of the source: patterns are
read character by character, so that a brace that does not follow an atom, or
is no quantifier, is a letter; ends are found by the fix-point. `IsPattern` says
which sequences of lexemes are patterns without reading them from left to right
(the brackets balance, something stands before a quantifier), and `Means` what a
pattern means without the fix-point.

### Language server

**LanguageServer** - one action from one await of a handler to the next. The
handlers run on one task that polls up to four of them; they start in the order
of the messages and go on in any order, the queues of the two locks are FIFO. A
text is identified with the version the editor gave it.

## 4. Runs

### Runs that pass

| Run | Asks | Bounds |
|---|---|---|
| `chan` | wakeups, implements BoundedChannel, close unblocks | 3 threads, 2 values, capacity 2, 4 sends, spurious wakeups |
| `threads` | results, cancellation, joins, is_done, drain and drop; joins and programs end | 1 worker, 2 threads, both may panic, with and without a drain |
| `interpreter` | containers | 2 interpreters, 2 containers, 2 writes |
| | futures | a awaits b and c, b awaits c; 2 values, 5 bodies entered |
| | tests | 3 tests, 1 and 3 in threads that may hang, 2 with a deadline, 1 and 2 leave goroutines |
| | threads of the IR | 2 workers, 2 threads |
| | scheduler: one holder, states, submissions run, Drop returns | 3 workers, 4 goroutines, 2 may panic |
| | goroutines in a channel | 3 workers, 2 receivers and 2 senders, capacity 1 |
| `library` | ring, pages | capacities -1, 0, 1, 3; -1, 0, 4 pages |
| | list, tree | 3 nodes; keys 1 to 4 |
| | compression | data up to 12, bytes of 3 values, window 7, scan 6 |
| | patterns | weight 5 (a letter, `\|`, `(`, `*`, `$` weigh one, braces whole or in halves two, `)` nothing), texts up to 3 and the characters of the pattern |
| `compiler` | execution modes | functions of 4 statements, 2 expressions that yield something |
| | error sets | 3 functions, 1 error, 3 rounds |
| | captures | bodies of 8 words, 1 local, 2 handles |
| | linking | 2 functions a file, closures 2 deep, 2 siblings |
| | error numbers | packages of 1 and 2 files, 3 names of users, 2 of the runtime, width 8 |
| | language server | 2 documents, 4 messages, 4 handlers at once |

Why the bounds are enough. The races of the channel need two sleepers of one
kind (or a notified thread and a thief) and somebody on the other side: three
threads, with room for two values, so that notifying only on the change from
empty, or from full, would show. The proofs cover the other sizes. The races of
the scheduler need two workers between pop and take, and a third that is about
to test `stop`; with two panics one worker is left. A thread meets other threads
only in the tables of the interpreter: two threads give join, poll and drain in
every order, against each step of the task that a worker runs. One worker is the
worst case for what must end: when it is lost to the panic of a thread, the
other thread is never taken. Several workers between pop and take are the
scheduler's matter, and the theorems about threads hold for any number of them.
Containers interfere through ids: two show a queue that is replaced under a
handle, a kind that does not match and a container of the other interpreter;
futures through a shared inner future. A late answer needs two thread-mode tests
with one in between.

Removal in the tree has its hard case when the successor of a node with two
children is not that node's child, which takes four keys; a list of three nodes
has a first, an inner and a last one and reuses indices; a ring of three wraps
with something left in it. A length of one byte is met at the limit when bytes
have three values and the data twelve elements. A weight of five gives nested
alternation under a repetition and braces at every place of a pattern; four
statements give a defer, a loop around it, a jump out of it and a block in
between. An error travels two calls in three functions, against or with the
order of visits, and the third round is the one that finds nothing new (the code
stops after 64). The cut of error numbers to 16 bits is one to 8 in the model
and is not reached. A word of a captured body is a statement or the end of a
block; eight are enough for spawn, join and a write inside and around a branch.
Handlers of the language server overtake each other when a save or a query
stands between two changes. Counters that would grow without end (sends,
goroutines, writes, bodies entered, nodes, messages) are capped by constants
named `Max...`, in the guards.

`DualModeAgrees` is checked without four constructs in which the modes do
differ: a call whose error is dropped at the end of a function (run
`defers_dropped`), calls that crash, `if` with a captured value that is an error,
and `defer try` (all four below). `Ops` says which are used.

Deadlock is checked where the model has no final state (the channel); elsewhere
the program may stop (a dropped scheduler, an ended program or run, a bound that
is used up), and the configurations say so.

### Runs that are violated

Each shows a disagreement between the code and what a comment or a document
says of it; `findings` in PROJECT.json has the quotations.

| Run | Said | Done |
|---|---|---|
| `sharedvalue_spawn` | spawn deep-copies, no value is used by two threads | another Rc to the same cell |
| `threads_detached` | the end does not wait for a detached thread | the drain waits for every handle that is left, and detach leaves it |
| `containers_shared` | the four-mode containers are shared between threads | an id is looked up in the interpreter that runs the call |
| `structures_stale` | remove checks that the node was not removed | it checks that the index was ever used; a second remove counts down again |
| `defers_dropped` | both modes pass the same tests | an error dropped at the end of a function runs errdefers in one mode only |
| `captures_escape` | a thread not joined when its scope is left may not capture references | a join after a return counts |
| `errors_collide` | an error's number is globally unique | two files number their names alike, and values of different names are equal |

### Other disagreements

Noticed while the models were written; the models do what the code does, and no
run is kept for them.

Threads and channels:

* `chan.rs:28` and ADR 0024 have an unbuffered send wait for a receiver; it waits
  until close: with capacity 0 (the default), `len >= capacity` always holds. The
  run `chan` has a buffer, as BoundedChannel would repeat the test.
* `CONTEXT.md:233` has a waiting goroutine suspended; it blocks its worker, and
  as many receivers as workers leave nobody to send. `ChannelRuns` is checked with
  one worker more.
* `CONTEXT.md:236` has a Mutex protect the state it holds; lock clones the Rc and
  gives the lock back at once (`call.rs:1909`), so that two threads use what they
  got at the same moment (`LockReads` of SharedValue).
* is_done of a thread that io.poll has joined stays FALSE (`io.rs:27` removes
  the handle and leaves the field). `IsDoneTells` leaves those threads out.
* A thread neither joined nor detached is said to be awaited at the end
  (`hc-rt/tests/thread.rs:119`); an interpreter of a spawned task or of a
  thread-mode test is dropped without a drain and its queued goroutines with
  it, and so are all threads of the IR runtime. `Drains`, `ChildDrops` and
  `IrThreads!Dropped` model it.
* A second join raises an error in the interpreter and repeats the result in the
  IR runtime.
* An argument of spawn in the IR runtime that is an index (an array, a class)
  names another cell in the thread, or none.
* The manual (`docs/H Language.md:900`) has read of an empty container raise
  error.Empty: it blocks, and nothing can end the wait. It has a write after
  close raise error.Closed (`:899`): close of a Tee, Funnel or Hub leaves no mark
  (`call.rs:2770`), and the write is a TypeError. It gives all four a
  `send`, which Pipe has not, a bound to containers made with a capacity, which
  nothing looks at, and null to try_read after close, which raises TypeError.
* `ir/builtin.rs:3138` has the four variants behave alike in the IR runtime; init
  gives a Tee, Funnel or Hub there a queue and no `_chan_id` (`ir/method.rs:585`),
  without which every later call on it is a TypeError (`:653`). These containers
  are not modelled: in one Ctx the others are those of FourMode in one
  interpreter.
* A body that reaches its own future through a global can be answered twice,
  `AwaitIsStable` holds for an acyclic `MayAwait` only.

The two execution modes:

* A run-time error that is no error value (a crash) runs the defers it passes in
  the interpreter only.
* `defer try f()`: the interpreter drops the error, the lowered code returns it.
* `if (e) |v|` where e is an error value takes different branches.

The checker and the tables:

* The capture check accepts a thread that is detached with a reference (there is
  a test for it, `detach_ref_capture_ok`), sees no thread in a bare `spawn`
  statement, a constant or an assignment, forgets a handle that is declared
  again, and does not look at `&mut` in the window.
* With a call graph deeper than 64 functions in an unlucky order, the inferred
  error sets are too small; the rounds simply stop.
* `ds_treemap.rs` calls itself a red-black tree; nothing is balanced.
* A bitmap index out of range is ignored by the interpreter and an IndexError
  in the IR runtime. `rle.rs` has no caller.

Allocators:

* `allocator_impl.rs` says that alloc returns zeroed memory; a pool hands out a
  block again as it came back, and a Bytes shorter than the items makes the next
  alloc fail in a slice (`call.rs:1493`). What is on its free list still counts
  as live in `leaks()`; the IR runtime's `leaks()` counts every allocation ever
  made.

Language server:

* `CONTEXT.md:533` says that saving diagnoses the whole project: it diagnoses
  the documents that are open.
* did_save publishes from one snapshot across many awaits, so with three or more
  open documents the diagnostics of an older version can be sent after those of
  a newer one; a symbol table of an older text can be put in last in the same
  way if log messages are delayed. They name their version (`VersionsMatch`),
  which is what lets an editor drop them. did_close clears neither the
  diagnostics nor the symbols of the document.

## 5. Fairness

* Channel: a thread that was notified and can get the lock does (weak fairness
  of resuming). The lock is held for a few instructions. Nothing is assumed of
  new calls, or of which sleeper is notified.
* Scheduler, threads, goroutines: a worker takes its next step (weak fairness
  per worker): it polls every millisecond and its tasks return or panic; panics
  are never forced. Submitting is the program's choice, except in
  GoroutineRuntime, where the program of the model submits all its goroutines.
* ThreadRuntime and IrThreads: the interpreter leaves a wait that is over. It is
  a loop over an atomic flag.
* TestRunner: the runner proceeds, deadlines pass (a timed wait), the runner's
  own workers run; nothing is assumed of the threads of tests.

`JoinTerminates` and `ProgramTerminates` allow for a wait that is never over:
when the closure of the awaited thread panicked, or every worker was lost to a
panic (`NeverDone`). Nothing else may keep a join. Each of the two threads of
the run may panic, so that the second case arises: the one worker is gone before
it takes the thread that is waited for.

## 6. What is proved

TLAPS checks the theorems for every value of the constants, from the
assumptions named in the modules only.

**Chan_proofs.** The inductive invariant `Inv` adds `OnePlace` to the checked
invariants: a thread is in at most one of the four wait sets. It is needed
because a notification moves a thread from one set to another, and the number
of notified threads must not be counted twice. The heart is the pair of
no-lost-wakeup invariants; they hold because every push notifies one sleeper if
there is one, and every notified thread that does not consume leaves by the
closed path, where all are notified. From `Inv`: `TypeCorrect`,
`ReceiversAreWoken`, `SendersAreWoken`, `CapacityHolds`, `BufferCorrect`,
`CloseWakesAll`, `ClosedChannelIsFinal`, and `Refinement`: each step of Chan is
a step of BoundedChannel or stutters.

**GoroutineScheduler_proofs.** `Inv` is the conjunction of the invariants of the
module with `PcTells`, which ties `pc[w]` to `held[w]`. `QueueIsLatest` (the
queue is the interval of the latest ids) makes a popped id different from every
held one; this gives `OneHolder`, which gives `StateTellsPlace`. From `Inv`:
`TypeCorrect`, `QueueOrder`, `HoldersDiffer`, `TableTellsTheTruth`,
`StateAdvances`, `DropLeavesNobody`.

**ThreadRuntime_proofs.** Every step of ThreadRuntime is a step of its scheduler
or leaves it alone, so the scheduler's `Inv` holds in it.
`RuntimeInv` adds what the two sides of a thread know of each other. `TaskTells`
ties the place in the closure (`tpc`) to the entry of the goroutine in the
scheduler's table, to `done` and to the result: only the worker that holds a
goroutine moves its task on, which is why `OneHolder` is needed. `HandlesTell`
says that a thread whose handle is gone is waited for now or is done: join,
poll and drain each remove the handle before they wait. `AnswersTell` does the
same for what join has written into the Thread value. From it follow
`RuntimeTypeCorrect`, `JoinFindsResult`, `EarlyCancelIsFinal` (a cancelled flag
that is set before the goroutine is popped is read by the closure),
`IsDoneIsTrue`, `EndAwaitsTheAttached` and `DropIsClean`, for any number of
workers and threads, whichever panic, with or without a drain.

**GoroutineRuntime_proofs.** `CallsAreAccounted` needs `StepsTell` (a goroutine
no worker has begun is before its call; a worker waits on the side its
goroutine's call is on) and again `OneHolder`: the sends past their call are
counted by sets of goroutines, and one step moves one of them. Assumed: finitely
many workers, a capacity that is a natural number, and a role for every
goroutine.

**Interpreter_proofs.** One inductive invariant per part; a step of another part
leaves its variables alone.

* Containers (`ContainersInv`). `HandlesTell` (an interpreter never gives a
  number twice) and `EntriesTell` (an entry is of a handle its own interpreter
  made) make a queue and a handle go together, and `QueuesTell` says that what
  was read and what is queued is what was written, of every container that its
  maker alone has used: `OwnContainersAreFifo`. `ValuesTell` says that a value is in
  one queue or was read once, and `WrittenOnce` that no two writes have one
  value: `ValuesAreReadOnce`. The bounds on handles and writes may be any number.
* Futures (`FuturesInv`). `Inward`: along the stack the rank of the bodies goes
  down, so a body that runs is not in reach of the code that runs now; from it
  `BodiesRunOnce`. `AnswerIsCached`: the answers given are none, or the one in
  the cache; from it `AwaitsAgree`. `FutureAssumption` asks for a graph of
  awaits without a cycle, which is what futures passed as arguments make; the
  code does not look, and a cycle through a global is outside of the theorem
  (see the disagreements).
* Tests (`TestsInv`). `StartedTells` and `MailTells` say from where the runner
  is which threads run, and that a channel has at most the one answer of its own
  test, which stays there when it is late. With it the totals are the
  cardinalities of the sets of lines: `ReportsAreTrue`.

**Library_proofs.** `SlotsAlwaysExist` ties head, length and the slots written so
far: the ring of the interpreters grows only at its end, so an index that wraps
meets a slot that exists. With it, `RingImplementsFifo` for any capacity: the
arithmetic modulo the capacity is done in lemmas of their own.

`NoPageTwice`: the stack of free pages has no page twice, and
none that is handed out, although programs free what they do not hold. From it
`PagesImplementPool`, for any number of pages.

`ListImplementsSequence`, for any number of nodes and values: each call of the
list answers what a sequence under handles would. The invariant `ListLinked`
(`NodesAlwaysLinked`) says that there is a sequence of nodes, none twice, along
which `next` and `prev` agree in both directions, from head to tail, that `len`
counts it, and that every other node ever made is free exactly once. What
following `next` meets is that sequence (`Meets`, by induction, bounded by the
number of nodes: `NoLonger`), so the items are a function of the invariant's
sequence, and each call is shown to do to it what the call of `NodeList` does to
its items. The hypothesis is the one of the run: programs remove only what is in
the list, or the code is that of `runtime/`, which refuses the rest; the run
`structures_stale` shows what the interpreters do without it.

`TreeImplementsMap`, for any integer keys and any values: each call of the tree
answers what a map would. The invariant `TreeInv` (`NodesAlwaysATree`) says that
the occupied nodes are a search tree, that `len` counts them, and that the free
indices are unoccupied and different. A tree is a set of nodes under each node
(`TreeAs`): what is under a node is on the side of its key, what is under a child
is under its parent and smaller or greater, and no other node leads into it. With
it, a way down meets no node twice and `Down` reaches its end (`DownEnds`), a
search ends at the key or where a leaf with it may hang (`SearchEnds`), and the
successor is the smallest on the right (`SuccessorEnds`). Three lemmas change the
tree: `LeafHangs`, `PlaceGiven` (a node with one child at most gives it its
place) and `KeyTaken` (a node takes a key that compares with all above and below
as its own did). Removal is the second, or, with two children, the second at the
successor and then the third. It holds whatever the heights are: nothing is
balanced and nothing needs to be.

`NothingIsLost`, for data of any length, any width of a length byte, any window
whose distances fit in two bytes and any reach of the search: what is compressed
is decompressed to itself. `RunIs`, `MatchIs` and `LiteralsAre` bound what a
token stands for: nothing that is emitted is longer than its byte can tell, and a
match begins in bytes that are out already, one byte back included, which
`CopiedIs` covers: a copy may read what it has just written. `TokenIs` puts it
together: decoding the token at i after the bytes before i gives the bytes before
its end. Every round moves on by one byte at least, so as many rounds as there
are bytes reach the end (`RoundsRead`).

**Compiler_proofs.** Four parts that put things together.

* Error sets. `SetsTypeCorrect` and `OrderDoesNotMatter`: whatever the call
  graph, the order of visits and the bound on the rounds, the sets stay below
  every solution, and a round that changed nothing leaves one. The invariant says
  that during a round a visited function agrees with its equation unless
  something has changed since, which is what `changed` remembers.
  `ExactOnceReported` is the whole of the checked property. The closure
  that `reaches_self` computes is the least set closed under the links
  (`ClosureIsLeast`), because what is reached in n steps grows or stays, and can
  only grow as often as there are functions. `DeepStays` counts the rounds the
  same way: after round k a set has what is named at most k calls away, so with a
  round for each function it has all of it (`NoLess`), and never more (`NoMore`).
* Error numbers: `CodesAlwaysHold`, for any files. A table has no name twice
  (`RegisterAllKeeps`, by induction over the names), so its positions tell names
  apart, and there are numbers for all of them (`CodesAssumption`, the pigeonhole
  principle in `NumbersSuffice`). `CodesInv` says that every value has the number
  its name has now, and, of one file, that numbers in use are below `slots`,
  which is where the next name that only the runtime raises goes.
* Linking: `ReferencesAreKept`, for any number of siblings, functions and
  closures in closures. A reference is kept together with what it is to find
  (`Refers`), which survives what is appended behind a table and moves along with
  a table that is appended (`RefersLater`). `TableIs` shows it of what lowering
  makes of a file, `StrippedIs` of a file without its tests (the numbers that stay
  are renumbered in order), `AppendedIs` of one round of the merge. A sibling's
  names stand for all functions that have them, those of what is built for the
  entry's and for the qualified ones: the invariant `LinkInv` has both.
* Language server: `DiagnosticsAlwaysMatch`, for any documents, messages and
  handlers polled together. That diagnostics are of the text of their version
  does not follow from the two locks alone: did_change takes its text from the
  document, and a change of a document that is not open would find none.
  `ServerInv` therefore follows the documents message by message. `LocksTell` says
  who is in the queue of a lock (each handler that wants it, once; all but the
  first still wait), `WaitInOrder` and `HadInOrder` that messages that edit get
  the documents in the order they were sent, although handlers of did_save join
  the queue late. With them `DocumentsTell`: a document is what the last message
  that had it made it; `EditorTells`: a change is sent only of what is open, so
  `ChangeFinds` it open in the server too. `TasksTell` carries the version from
  the read to the publication. Nothing is assumed of the bounds.

**Induction.** What the proofs about tables and rounds rest on. The induction
theorems of the library take an operator, which no installed prover can
instantiate; here a property is the set of the numbers that have it (`Inducts`,
`InductsTo`), and the step of a recursive function is itself a function
(`Recurs`, `RecursTo`). Both follow from a least number in every set of numbers.

Only model-checked: every liveness property (`CloseUnblocks`,
`SubmissionsRun`, `DropsReturn`, `JoinTerminates`, `ProgramTerminates`,
`RunEnds`, `ChannelRuns`, and `IrJoins`, half of which is one: fairness and
ENABLED are out of the prover's reach) with the fairness part of the refinement
of BoundedChannel; `Captures`; and `TreeWalk`, `Lowering` and
`Regex`, which are RECURSIVE operators over programs and patterns: the prover has
no arithmetic in a module that reaches one.

## 7. What is not modelled

* The contents of programs. Bodies of goroutines, tests and futures are choices
  of what they do to the state modelled.
* Most of the lines of the compiler: parser, type inference, the lowering of
  expressions, the text of the generated LLVM code, the evaluation of
  expressions in two interpreters and the calls to the operating system of the
  library, with `hc-tools/hc-rt`, an older copy of all of it. They are functions
  from trees to trees, values or text, without a history; a model would be a
  third implementation, and nothing to compare it with is shorter than itself.
  What of them has a history or a definition to be compared with is modelled.
  This is why the map names a small part of the lines of the repository.
* The constructs of both execution modes that leave no scope in a way of their
  own (switch, regions, arenas, pointers), and character classes of regular
  expressions.
* Allocators: see the note in PROJECT.json and the disagreements above.
* A join that raises the thread's error leaves the field `done` of its Thread
  value FALSE; errors of this kind cannot be caught by programs, so only
  deferred code can see it, and `IsDoneTells` leaves that case out.
* Poisoned mutexes: the tasks that could panic inside a critical section run
  outside of them.
* Memory order: flags are sequentially consistent in the code, except the read
  of `stop`, which is relaxed; it is a single flag whose late reading the
  models allow anyway, as a worker may be slow to test it.
* The order in which the executor of the language server polls: it is a queue,
  so some of the interleavings of the model cannot happen; `VersionsMatch`,
  `DocumentsFollow` and `NobodyIsStuck` hold in all of them.
* did_change without a change in it (the handler returns at once) and with more
  than one (it takes the first): a change of the model is the one full text that
  editors send to a server that asks for full texts, as this one does.
* Everything listed as `not_modelled` in PROJECT.json, with the reasons there.
