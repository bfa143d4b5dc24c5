# Verification of cpp-toolbox

TLA+ specifications, TLC model checking and TLAPS proofs for cpp-toolbox: the work-stealing thread pool and what is built on
it (parallel algorithms, the data loader, chunked calls of the point cloud library), the lock-free queue with its hazard
pointers, the logger, the pools of objects and blocks, the caches, the control of registration, keypoint and descriptor
extractors, the command line parser, the file formats, and the helpers that compute something in one call.

Paths below are relative to `src/src/include/cpp-toolbox/` (headers) and
`src/src/impl/cpp-toolbox/` (`.cpp` files) of the repository.

1. [The system](#1-the-system)
2. [Modules](#2-modules)
3. [Thread pool](#3-thread-pool)
4. [Lock-free queue](#4-lock-free-queue)
5. [Data loader](#5-data-loader)
6. [Parallel algorithms](#6-parallel-algorithms)
7. [Logger](#7-logger)
8. [The run `components`](#8-the-run-components)
9. [The run `clouds`](#9-the-run-clouds)
10. [What is proved](#10-what-is-proved)
11. [What the checks found](#11-what-the-checks-found)
12. [Not modelled](#12-not-modelled)
13. [Plan](#13-plan)

## 1. The system

cpp-toolbox is a C++17 library. Its protocol logic is small and sits underneath; most of its volume is point cloud
geometry (`pcl/`), whose control - what is prepared when, cached, cut into tasks, tried, kept or dropped - is modelled and whose
floating point is not. `PROJECT.json` lists every component; those with state and behaviour are:

| component | state | operations | interacts with | what is hard | what must hold |
|---|---|---|---|---|---|
| thread pool, `base/thread_pool` | a deque and a mutex per worker, `next_worker_`, `stop_` | `submit`, `worker_loop` (own pop, steal, stop test, scan, execute), destructor | called by clients *and by its own tasks*; hands out futures | stealing, a scan that is not atomic, submission during shutdown, tasks that wait for tasks | every accepted task runs once, its future is set once, the destructor ends and leaves nothing |
| lock-free queue, `container/lock_free_queue.hpp` | `head_`, `tail_`, linked nodes; per thread two hazard pointers and a list of retired nodes | `enqueue`, `try_dequeue`, retire, scan, cleanup, destructor | none | every access is atomic on its own; ABA, reclamation, store order | linearizable FIFO, no use after free, no leak |
| parallel algorithms, `concurrent/impl/parallel_raw.hpp` | futures, chunk sums, runs | `for_each`, `transform`, `reduce`, `inclusive_scan`, `merge_sort`, `tim_sort` | submit to the pool singleton, block on futures | chunk arithmetic, barriers between rounds, exceptions | no data race, the sequential result, termination |
| data loader, `io/dataloader` | sampler position, queue of futures, current batch | iterator construction, `++`, comparison, fetch | submits fetches, each calls `dataset.get_item` | fetches finish in any order, fail, or lack items | sampler order, nothing skipped, bounded prefetch |
| logger, `logger/thread_logger` | the singleton, `running_`, `shutdown_called_`, queue, stream pool, level | `instance`, stream and format logging, `set_level`, worker loop, `shutdown` | object pool, concurrent queue | creation races, shutdown against logging, recycled streams | lines whole, once and in order |
| object and memory pools, `base/` | a queue of free items under a mutex | acquire, release with a reset; allocate, growth, deallocate, release unused | streams of the logger | reset outside the lock, growth that fails half-way, limits | an item has one user, comes clean, is not lost |
| mapped file, `file/memory_mapped_file` | descriptor, mapping, size | `open`, `close`, destructor | the file system; the PCD reader | error paths, a file that changes | nothing leaks, nothing behind the mapping is read |
| command line parser, `utils/click` | commands, parameters, token position | `run`, `parse_and_execute` | ini files | tokens that could be several things, parameters kept from run to run | each token is one thing, the last setting wins |
| KITTI frame cache, `io/dataloader/*kitti_odometry*` | map of frames, recency list, size | `at`, `set_cache_size`, `clear_cache` | called by fetches on several workers at once | a `const` function that writes without a lock | map and list agree, bounded, least recently used |
| semantic and pair datasets | label cache, label set cache, skip, motion filter | `at`, labels, statistics, searches, pairs | frame cache, pose files | eviction order, stale caches | answers as without caches |
| file formats: PCD, KITTI, ini | none, or a file | read, write | mapped files, streams | files that are cut, foreign, rewritten meanwhile; short rows | what is written is read back, what is read is in the file |
| registration, `pcl/registration` | clouds, prepared structures, iteration state, result | setters, `align` of ICP, GICP, NDT, AA-ICP, RANSAC, PROSAC, 4PCS | neighbour index, pool, callbacks | what is rebuilt when; limits; early stops | the best motion tried, results of this call |
| neighbours, normals, keypoints, descriptors | an index that is lent, caches shared by tasks | setters, `extract`, `compute` | pool, index objects shared between extractors | order of setters, suppression, lazy caches without locks | the own cloud is asked, no region is lost, everything is counted once |
| correspondences, `pcl/correspondence` | views, cached rankings, sub-sorters | `compute`, `sort`, setters | pool, index | mutual verification, ties, stale caches | mutual nearest pairs, a ranking of now |
| points and clouds, `types/` | coordinates, normals, colours | operators, bounds, put together, move, transform | pool | wrapping, NaN, attributes left behind | a normal stays with its point |
| tables, container printers, plots, `utils/print`, `utils/plot` | what a table is made of, column widths; series and axes | setters, printing | streams | spans, widths below the ellipsis, unsigned differences, one cell beyond the canvas | nothing is lost, tables are rectangles, lines have no gaps |
| strings, functional helpers, metrics, statistics, random, timers | a cache of results; registered metrics; accumulated time | one call each | callers' functions, several threads | boundary values, wrapping, calls out of order | agreement with the definition |

Interactions that matter for correctness:

    data loader ──submit──▶ thread pool ◀──submit── parallel algorithms, chunked calls of pcl/
        │                    ▲      │
        └─ get_item on ──────┼──▶ frame cache ◀── label cache ◀── pairs     (several workers at once)
           the workers       └── tasks that submit and wait (pca_norm over bfknn)

    callers ── object pool (streams) ──▶ logger ──▶ concurrent queue ──▶ its worker
    PCD reader ──▶ mapped file            command line ──▶ ini files
    keypoints ──▶ neighbour index ◀── descriptors ──▶ correspondences ──▶ sorters ──▶ registration

`PROJECT.json` lists the hazards at their source lines, each with the properties that would
catch it and, where a property had to be worded around the code, a note.

## 2. Modules

| module | models | uses |
|---|---|---|
| `TaskPool` | what the thread pool promises: accepted once, started once, finished once; closes only when nothing is owed | |
| `ThreadPool` | the pool's implementation; implements `TaskPool` | `TaskPool` |
| `ThreadPoolProofs`, `LockFreeQueueProofs`, `DataLoaderProofs`, `ThreadLoggerProofs`, `ParallelRawProofs` | theorems about the module of that name | TLAPS, `SequenceFacts` |
| `Keepers` | the memory and object pools, memoizers, frame cache, shared indices, sorters and the command line's parameters side by side: what keeps something for its callers | `BlockPool`, `ObjectPool`, `Memoize`, `FrameCache`, `NeighbourIndex`, `Sorters`, `CommandLine` |
| `KeeperProofs` | theorems about `Keepers` | `SequenceFacts`, TLAPS |
| `CloudCalls` | registration, chunked calls, FPFH's signatures, keypoints, correspondences, sums of clouds and labelled frames side by side | `FineRegistration`, `CoarseRegistration`, `FourPoints`, `ChunkedCalls`, `SpfhCache`, `Keypoints`, `Correspondences`, `PointClouds`, `Datasets` |
| `CloudProofs` | theorems about `CloudCalls` | `SequenceFacts`, TLAPS |
| `SequenceFacts` | a subsequence of a sequence, as the models use it; lemmas about sequences | |
| `FifoQueue` | what the queue promises: a linearizable FIFO with calls that may see it empty | |
| `LockFreeQueue` | the queue's implementation; implements `FifoQueue` | `FifoQueue` |
| `DataLoader` | iterator, sampler and prefetching over a `TaskPool` | `TaskPool` |
| `ParallelRaw` | the six algorithms over a `TaskPool` | `TaskPool` |
| `ThreadLogger` | singleton, front ends, worker and shutdown of the logger | |
| `Lending` | what a pool of items promises: at most one user, clean, given back by its user only | |
| `BlockPool`, `ObjectPool` | the two pools; both implement `Lending` | `Lending` |
| `MappedFile` | `open`, `close`, destructor call by call | |
| `PcdFile` | PCD writing and reading, the latter through a mapped file | `MappedFile` |
| `CommandLine` | the command line parser with ini files | `SequenceFacts` |
| `FrameCache` | the KITTI dataset's LRU cache under several readers | |
| `Datasets` | semantic and pair datasets over the frames | |
| `Strings` | text helpers, encodings, ini files, the files of a KITTI sequence (scans, labels, poses, calibrations, directories): each computed in one call | |
| `Helpers` | functional helpers, timers, points and their bounds | |
| `Measures` | metrics of vectors, histograms and clouds; statistics and random draws; the bins, votes and clusters of descriptors and their matching helpers | |
| `Terminal` | tables and plots | |
| `Memoize` | the memoizers under several threads | |
| `PointClouds` | clouds with normals and colours | |
| `ChunkedCalls` | 19 calls that cut their work for the pool | |
| `NeighbourIndex` | index objects shared by extractors | |
| `SpfhCache` | FPFH's shared signatures | |
| `Keypoints` | suppression and LOAM labels | |
| `FineRegistration`, `CoarseRegistration`, `FourPoints` | `align` of the five fine, of RANSAC and PROSAC, and of 4PCS | |
| `Correspondences`, `Sorters` | generators and sorters | `SequenceFacts` (the former) |
| `MCThreadPool`, `MCLockFreeQueue`, `MCDataLoader`, `MCThreadLogger` | instances for TLC: the orders, parents and authors that cfg files name, and symmetry sets | the module |
| `MCComponents` | `Keepers` with its constants, and files, texts and tables, one behaviour being about one of them | the modules |
| `MCClouds` | `CloudCalls` with its constants, and measures and helpers in the same way | the modules |

The pool is the hinge of the composition. `ThreadPool` is shown to implement `TaskPool` - by TLC
on an instance and by TLAPS for every number of workers, clients and tasks - and its users are
checked against `TaskPool` only. What they need beyond safety (a task that was accepted is
eventually run) is `WorkAndPoolEnd` of `ThreadPool`, and appears as the fairness of the
pool in `DataLoader!FairSpec` and `ParallelRaw!FairSpec`.

Conventions. A thread's program counter is `pc`; one action stands for the code between two points
where other threads can interfere (a critical section, an atomic access, a call of another
component). A component without state of its own is a module with two variables, `call` and `answer`: a behaviour is one call with
its arguments, and `Init` and one action per function choose it. Operators named `Mutant_...` are faulty variants of the
definition that follows them, kept to show that a property can fail; no specification uses them. `TypeOK` is proved for the pool;
elsewhere it is the first conjunct of a structural invariant, and proved with it.

`Keepers`, `CloudCalls`, `MCComponents` and `MCClouds` put components that do not meet side by side: `part` names the one a behaviour is about and the variables of
the others are 0. Properties are conjunctions of `part = ... => M!Property`. Nothing is interleaved across parts, so that the states of a run are the sum of the
states of its parts. `Keepers` and `CloudCalls` are modules of their own, with every constant of their components, because theorems are about them: `KeepersSpec` and
`CloudsSpec` are the specifications that the theorems of `KeeperProofs` and `CloudProofs` are about, for all constants. `MCComponents` and `MCClouds` extend them with a choice of
constants and more parts; those of `MCComponents` have variables `s1`, `s2`, ..., those of `MCClouds` only `call` and `answer`.

## 3. Thread pool

`ThreadPool.tla`; `base/thread_pool.hpp`, `base/thread_pool.cpp`.

**State.** `worker_queues[w]` is the deque of worker w, `next_worker` the round-robin counter modulo
`CounterRange`, `stop` the flag. `pc[w]` is the position in `worker_loop` (`own`, `steal`, `stop?`, `scan`,
`run`, `exited`) with the loop variable `n[w]`; `held[w]` is the local `task`. A call of `submit` is `call[th]`, `arg[th]`,
`idx[th]`, for clients and for workers whose task submits. `future[t]` is the shared state of the promise. `dtor` is the position in the destructor.

**Actions.** `SubmitBegin`/`SubmitRejected...` are the test of `stop_` (hpp:171), `SubmitPick` the
`fetch_add`, `SubmitPush` the locked push. `PopOwn`, `OwnEmpty`, `Steal`, `VictimEmpty` are the locked sections
of the two searches; `TestStop`, `ScanFull`, `ScanEmpty` the test of the flag and the scan of the deques, one lock at a
time; `BodyReturns` and `BodyThrows` the end of `execute()`. Critical sections are atomic because each
touches only what its mutex guards. `stop_` is read with a relaxed load in `submit`: with
`StaleStopReads` it may be read late.

Tasks form a forest: `Parent[t]` is the client or the task whose body submits t, and tasks in `Waits`
`get()` the futures of their children before they return, as `bfknn_parallel` does inside
`pca_norm`. `ClientsQuiesce` says whether clients stop calling before the destructor runs, which C++
asks of any object; the run `pool_nested` drops it, because `submit` has a test of `stop_` for that case
("the intended safeguard", `thread_pool_test.cpp:170`).

| run | instance | shows |
|---|---|---|
| `pool_shutdown` | 2 workers, 1 client, 4 tasks of which one submits two, late reads of `stop_` | no task lost or run twice, the exit scan leaves no deque unwatched, `TaskPool` is implemented (`TaskPool` closes only when nothing is owed); every accepted task gets its result and the destructor returns (`WorkAndPoolEnd`) |
| `pool_nested` | 2 clients that submit during destruction, 5 tasks: two bodies that each wait for a child | only late tasks of clients lose their promise; the pool stops for good only with every worker that has not exited inside a `get()` |
| `pool_shutdown_wait` (violated) | a body waits for a child submitted during shutdown | the destructor hangs |

Deadlock is checked in `pool_shutdown` (the finished system stutters) and not in the other two, whose
waiting bodies can stop the pool: that is what `AcceptedReadyOrAllStuck` speaks about.

**Bounds.** Two workers give stealing in both directions and an exit scan that overlaps a push;
four tasks with a fan-out of two give a queue with work in both deques at once. The counter wraps
at 3, which is not a multiple of 2, so that every wrap also shifts the choice of a deque, as the wrap of a
`size_t` does for a number of workers that does not divide 2^64.

**Fairness.** `FairSpec` gives weak fairness to each thread's own steps: the operating system
schedules runnable threads, and the mutexes are held for a few instructions by running threads only. A body
that waits is not enabled until its children are ready, so nothing is assumed about it.

**QueuedWorkIsWatched** is the heart: for every deque that holds a task there is a worker that
has not passed it - one that runs a task, is before the stop test, or scans and has not yet looked at that deque.
A worker leaves after a scan that is not atomic; what makes this safe is that after `stop_` only running
tasks can push, and a worker that runs a task comes back to search all deques.

## 4. Lock-free queue

`LockFreeQueue.tla`; `container/lock_free_queue.hpp`.

One action per access to shared memory: 6 producer steps (`enqueue`, 459-492) and 17 consumer steps
(`try_dequeue`, 522-600, with retire, scan and clear). `Node` is a set of addresses: `new` may hand out any that
is not allocated, so that ABA happens. `hp` holds the hazard pointers as their owners have stored
them, `seen` as other threads see them; they differ only with `DelayedStores`, which models a release store
that a later acquire load overtakes (what x86 does and the C++ memory model allows). `SpuriousCas` is the licence of
`compare_exchange_weak` to fail. Values carry a producer (`Source`), and each is enqueued once.

| run | instance | shows |
|---|---|---|
| `queue_fifo` | 2 producers, a polling consumer, 2 values, before the first scan, hazard pointers that become visible late, fair | linearizable FIFO in every interleaving; `tail_` stays in the chain; what is enqueued comes out |
| `queue_reclaim` | 1 producer, 2 consumers, 3 values, 3 reusable addresses, scan at every retirement, cleanup, spurious failures | no consumer touches a deleted node; each node has one owner, across address reuse; no node is leaked |
| `queue_tail_race` (violated) | 2 producers, 1 consumer | `enqueue` reads a deleted node |

**Why the instances split.** Reclamation with a second producer is unsafe (`queue_tail_race`), so the FIFO with
several producers is checked as long as nothing is reclaimed, and reclamation with one
producer, where it is sound for sequentially consistent hazard pointers. `ScanThreshold` is 100 in the code; 1 makes every retirement scan, 9 keeps the scan away.
Symmetry over `Node` and over consumers is used in `queue_reclaim` only, which checks invariants: no action and no property
distinguishes them.

**ImplementsFifo.** An enqueue takes effect when its node is linked, a dequeue when `head_` moves, and "empty"
must have been true at some moment of the call (`FifoQueue` remembers that for each open call; the refinement maps
a consumer that has read `next = nullptr` to "has seen it empty").

**Simplifications.** The records of hazard pointers are assigned to threads once (no thread ends);
the two clears at the end of a call and the frees of one scan are single steps (later visibility of a
free only makes fewer addresses available); a scan that meets its own `rec` reads its own stores.
**Fairness** in `queue_fifo` is weak per thread, without spurious failures: each failure of a strong exchange
means that another thread got on, and there are finitely many values.

The safety properties of both passing runs are proved for any number of threads, values and addresses, each in the case its run is about (section 10).

## 5. Data loader

`DataLoader.tla`; `io/dataloader/dataloader.hpp`, `sampler.hpp`. The constants are *sets* of arguments: one
run covers every batch size, prefetch count, sampler order, set of missing items and of failing items, with `drop_last`
on and off and with or without a pool.

The iterator is `Construct`, `Prefetch` (the constructor's loop), then alternating `operator++` (wait for the oldest future,
ask for one more fetch, decide whether to detach) and the loop's body. Fetches are the tasks
of a `TaskPool`; without a pool they run at once in the caller. `LeavesEarly` lets the body break; `PoolStops` lets the owner of
the pool destroy it, so that `submit` throws.

| run | instance | shows |
|---|---|---|
| `loader_order` | 4 items in two orders, batch sizes and prefetches 0-3, any items missing, at most one failing, `drop_last` on and off, fair | batches come in the sampler's order whatever order fetches end in, and none is skipped (`InOrder`); `drop_last` yields only full ones and, when no item is missing, all of them (`OnlyRestDropped`); prefetch is bounded, and a loop that ran to its end leaves no fetch behind (`PrefetchBounded`); the loop ends |

Four items with batches of up to three give full, short and single batches in every
position; more items repeat the same steady state of the queue. The loader is checked with two sampler orders since no step depends on which permutation it is.

Worth knowing: batch size 0 yields an empty loop without an error; prefetch 0 behaves as 1; a
loop that is left by `break` or an exception does not wait for its fetches, which keep a raw pointer to the dataset.
A batch that is short because items are missing is taken for the last one when `drop_last` is set (179): the epoch ends in the middle and the
fetches behind it stay in flight, so `OnlyRestDropped` and `PrefetchBounded` leave that case out.

**Fairness.** Weak fairness of the loop, and of starting and ending each fetch: the latter is
what `pool_shutdown` shows of the pool (fetches do not wait for each other).

## 6. Parallel algorithms

`ParallelRaw.tla`; `concurrent/impl/parallel_raw.hpp`. A call is split into pieces (`Split`), submitted one
by one (`Submit`, while earlier ones may run already), collected in order (`Get`), continued with a second round for the scan (`SecondRound`) or with merge rounds
(`MergeRound`) and returns or rethrows.

*Data.* An element has a position (`id`) and a key. Values of `reduce` and `inclusive_scan` are sequences of ids with concatenation: the free
monoid, so a result that is right here is right for every associative operation, commutative or not. An
element access by a task is one step at its end; that is sound because `NoRace` is checked: no two tasks that run at the same time touch a position that one of them writes.

| run | instance | shows |
|---|---|---|
| `parallel_calls` (`ParallelRaw` itself) | all six algorithms; sizes 0, 1, 4, 5; 2 keys; 1, 3 and 5 threads (or a `hardware_concurrency()` of 0); tasks may throw; fair | no two tasks touch one element at the same time, rounds do not overlap, the result is the sequential one (for the sorts: a sorted permutation), nothing is left running after a return, every call ends |

A call ends for good, so deadlock is not checked; `CallEnds` says what must not hang.
`tim_sort` sorts its runs with `std::sort` (398) and is not stable, unlike `std::stable_sort` with which its test compares it; `Correct` asks only for a sorted permutation.

**Bounds.** The constants 256 (`MinChunk`) and 32 (`Run`) of the code become 2, so that the arithmetic around
them happens with 5 elements: clipped last chunks, fewer elements than threads, an odd number
of runs. `MaxTasks` bounds the tasks of one call and is above what the sizes can produce. `std::sort` is any
sorted arrangement; `std::inplace_merge` is stable, as its specification says.

**Assumptions.** The pool is the process-wide singleton, so that it outlives the call and `submit` does not throw.
The caller is not itself a task of the pool; that case is `pool_nested`.

**A call that throws.** `get()` rethrows at the first failed chunk, and the futures of the others are dropped: their
tasks still run, over the range the caller passed, after the call has thrown. The model has this behaviour (state
`thrown` with tasks owed); `Correct` says that a call which *returns* has no task left and the right result. Callers must not free the
range in their handler.

**Fairness.** Weak fairness of the caller and of each task's start and end, as for the loader.

## 7. Logger

`ThreadLogger.tla`; `logger/thread_logger.hpp`, `thread_logger.cpp`, with `base/object_pool.hpp` and
`container/concurrent_queue` as far as the logger uses them.

`instance()` is five steps of double-checked locking; `Logger` is a set of addresses so that a second instance would
show. A statement `LOG_INFO_S << a << b` is `AcquireStream`, one `Insert` for each part (the level is tested at
each), `EndOfStatement` (tested once more) and `ReleaseStream`; `Format` is the other front end. The worker is `TestRunning`, `Dequeue` or
`Timeout`, `Write`. `Shutdown`, `Exchange`, `LoadInstance`, `Stop`, `Join` are `shutdown()`.

A stream taken from the pool holds whatever `Reset` left in it. The queue is external: one FIFO per
producer, drained in any order between producers, which is all that moodycamel's queue promises. Consecutive tests of `running_` in the worker are one
step: the flag only falls, so that the last test decides. The 100 ms sleep in `shutdown()` orders nothing and is left out.

| run | instance | shows |
|---|---|---|
| `logger_lines` | 2 callers race for the instance, 3 messages of 2 parts, changing level, both shut down, fair | one logger, nothing lost, doubled or reordered (`Kept`); lines not mixed; nothing printed after the join; `shutdown()` returns, and queued messages are written unless the logger is stopped (`QueuedIsWritten`) |

The threads of this instance stop for good when their scripts end, so deadlock is not checked; `QueuedIsWritten` says what must
not hang.

**Fairness.** Weak fairness for each caller and for the worker; the worker's timed wait always comes back.

**Abstractions.** Text is a sequence of parts; the order of severities is numeric; coloured insertions, which ignore the
level, and format flags, which the reset keeps, are not modelled. `level_` is a plain member written and read without
synchronisation: the model gives it atomic accesses, the best case.

## 8. The run `components`

Components that keep their state to themselves. No fairness is assumed and none is needed: the run checks what may not happen. Deadlock
is not checked because a command line ends, a pool is destroyed and a file is not written for ever.

| property | part: module | instance | shows |
|---|---|---|---|
| `TokensAccounted` | parser: `CommandLine` | two runs of up to 4 and 1 tokens out of 13, a command with a flag, a required option and an argument, a subcommand with two options and a number | when a callback runs every token has been taken for exactly one thing and none was refused; one callback at most, only when everything required is set |
| `LastSettingWins` | parser | the same, with two ini files | a parameter holds the last value given, else the ini file's, else what the previous run left |
| `PoolsLend` | blocks: `BlockPool`; objects: `ObjectPool` | two users; 4 blocks, growth of 3 with a limit of 1, `operator new` failing anywhere; 4 objects, a reset that may throw | both implement `Lending`: no item has two users, none is lost or deleted in use, none comes dirty; the free list exceeds its limit by no more than one growth leaves |
| `ReadIsTrue` | mapping: `MappedFile`; pcd: `PcdFile` | a file of 0-3 bytes that changes between the calls of `open`; 4 written and 8 foreign headers, cut and rewritten while they are read, each call of `open` failing or not | no descriptor or mapping leaks on any path; a reader stays inside its mapping; what an undisturbed reader gets is what the file holds, what was written completely is read back |
| `ListMatchesCache` | frames: `FrameCache` | two readers, 4 frames of which one corrupt, sizes 0-2 | until two readers race in the containers: map and recency list agree, the size is respected, eviction is least recently used; a frame that was found stays until it is copied, and a loaded one is missing from the answer only if others pushed it out |
| `OneAnswerPerKey` | memo: `Memoize` | two threads, a key that needs another twice, a function that may return anything or throw | whoever asks for a key gets one answer |
| `AsksAboutItsCloud` | index: `NeighbourIndex` | three extractors that share one kd-tree, a cloud with points and one without, any order of setters | an extractor that has its index alone asks about its own cloud |
| `RankingIsFresh` | sort: `Sorters` | a sub-sorter of three kinds and a combined one of up to two weights, any order of setters | a ranking from the cache is what would be computed now |
| `AnswersAreRight` | text: `Strings` | texts of up to 4 bytes of a, b, A, hyphen, blank, digits, signs, dot, e, x | cut texts join again, what is replaced is replaced once and where it should, what parses is what is tested; encodings undo each other, where the estimate does not wrap and the number is one of its type (section 11) |
| | | ini files of up to three of eight lines, eight values, integers of four bits | the last line of a key wins in its section; fields get the file's value or keep theirs; numbers are read back |
| | KITTI files: `Strings` | scans of two points, poses of two lines, calibrations of two rows, names of three characters, every directory over six entries | written and read again; short and garbled rows; frame names as indices and their order; pairs that are not there |
| | terminal: `Terminal` | texts of five letters and blanks, columns of 0-4, ellipses of 0-2; three sets of headers, three styles, up to two of thirteen further steps; containers of 0-5 elements | wrapping keeps the words; every line of a table is as wide as its border; a cell that fits is shown whole, in its row and column; only the middle of a container is left out |
| | | nine lines alone or with a scatter series, four pairs of scales, three grids, canvases of 0 to 8 by 6 cells | lines have no gaps and stay within half a cell of the straight line; the least and greatest value are at the ends; grids never hide data |
| | sort: `Sorters` | as above | its variables have their types |

**CommandLine.** One action per decision of `parse_and_execute` (`utils/click.cpp`), in its order: subcommand before option before value, `--ini` before
everything. `role` is a history variable: what each token was taken for. Help texts and wording are left out. `Parameters` lists a command's parameters before those of its subcommands, as
the code visits them; of two with one name the later wins.

**Pools.** `memory_pool_t` holds its mutex over each whole operation, which is therefore a step. `object_pool_t` resets an object *outside* its
mutex and makes one outside it, so that both are two steps. `Lending` knows a holder for each item (a user, the shelf, the system);
`HolderOf` maps a state that is none of these to something `Lending` has no step to, so that a double use or a loss breaks the refinement. That an object outlives
its pool is undefined behaviour; the model destroys a pool only when its objects are back.

**MappedFile, PcdFile.** The file may change size between any two system calls. `PcdFile` drives an instance of `MappedFile` for the binary branch and reads a
stream for text. A value is named by the field and point it belongs to, so that a misplaced column or row shows. `quiet` says that nobody wrote while
the file was read; the truth of what was read is claimed only then, that the reader stays inside the mapping always.

**FrameCache.** `at_impl` (impl 100-151) is `Read`, then `OutOfRange` or a first lookup, and after a miss `LoadFails` or `Load`, `update_cache` and the second lookup that answers. Nothing in
this code is locked and `dataloader_t` calls it from several workers. So a helper is a step in (`Enter`) and a step out, and other readers go on in between: `get_from_cache` finds (`Found`, `Miss`, `Gone`), then moves the frame in the
list and copies it (`Hit`); `update_cache` is in both containers until `UpdateCache`. `Racing` names the states in which two readers are in one container and one of them writes. That is a data race;
what the program does then is undefined, and the behaviour ends there. The invariant is claimed of every state on the way, which has two readers anywhere else: searching at a time, or one loading while the other evicts, which is how a loaded frame is lost before it is answered.
`set_cache_size` and `clear_cache` run when no reader is inside, as configuration.

**One-call modules.** `Strings` and `Terminal`, and `Measures` and `Helpers` of section 9, have no interleavings. Their actions choose a function and arguments out of the whole of a
small set and store the answer of the operator that models the function; the properties compare that answer with a definition that does not follow the code (all pairings,
all subsequences, what a round trip gives). Bounds are small because each function looks at neighbouring elements only, and lie on both sides
of each special case: empty, one element, ties, an integer type's end (three to sixteen bits instead of 32 and 64, so that wrapping happens).

**Bounds of the others.** Four tokens make the longest dependency of the parser (option, value, subcommand, its argument) and one more run shows what is kept from the first.
Growth 3 over limit 1 makes an expansion exceed the limit. Two readers and cache sizes below, at and above one
frame give every order of eviction and answer.

## 9. The run `clouds`

The point cloud library, but for indices and sorters, which are in the run `components`, and the measures and helpers it computes with. Geometry enters as data that the instance supplies in every combination that matters to the control: which points are
near each other, which response or feature each has, which correspondences agree with a motion. A motion is named by what it was estimated from.
No fairness is assumed. Deadlock is not checked: calls end, and the last allowed `align` is the last.

| property | part: module | instance | shows |
|---|---|---|---|
| `IndexIsCurrent` | registration: `FineRegistration` | five algorithms, clouds with all, some, no normals and none, limits 0, 1, 3, two calls, callbacks that refuse, settings that change | the structures used are those of the clouds that are set, and of the setting unless it was changed after they were built; the history and the counts of a result are of this call, and all iterations are used unless a criterion was met or the callback refused |
| `ResultIsBestTried` | coarse: `CoarseRegistration`; four points: `FourPoints` | RANSAC and PROSAC with 2, 4, 5 correspondences, degenerate samples, refinement that loses inliers; 4PCS with clouds below, at and above the sample size | the motion returned is the best tried, or its refinement, with what was measured of it; PROSAC's pool follows its schedule |
| `CacheIsTransparent` | kitti: `Datasets` | three frames, one corrupt; label caches of 0, 1, 2; pairs 0 and 1 apart, with a motion filter | answers from the caches are what the files say |
| `EveryElementOnce` | chunked: `ChunkedCalls`; clouds: `PointClouds` | 19 calls over 0-6 elements and 1, 2, 4 workers, tasks that throw; two clouds of two points | every element is computed exactly once and nothing else is touched, and what is missing is what a swallowed exception lost; a normal stays with its point |
| `MeetOnlyWhereCountedTwice` | spfh: `SpfhCache` | four points in three neighbourhood graphs, two or three keypoints | save at points counted twice, or whose bit was lost: a signature that is read is complete, and no task writes what another has in hand |
| `RegionsKept` | keypoints: `Keypoints` | eight extractors, every response of three points, four neighbourhood graphs | no part of the cloud that has a candidate is left without a keypoint |
| `MatchesAreMutual` | match: `Correspondences` | views of up to three descriptors with ties and duplicates, serial, parallel and indexed | the pairs are the mutual, unambiguous, near ones |
| `FiguresAreRight` | measures: `Measures`, descriptors | clouds of two or six points, features below, inside, at and above their range | every neighbour, pair or point counts once, in its bin; clusters are the smooth regions; the ratio test accepts only what is unambiguous |
| | measures: `Measures` | vectors of two coordinates in -1..1, seven histograms of three bins, scripts of two registrations | metrics are metrics or are named as not; the bounds between them; the registry makes what was registered last |
| | | clouds of up to three points on a line | Hausdorff, Chamfer, earth mover's, box distances against each other and against all pairings; the score of a registration |
| | | up to four numbers of three bits that wrap | mean, median, percentiles, modes, k least and greatest; what random draws may give |
| | helpers: `Helpers` | 3 functions, 3 reductions (one not commutative), sequences of up to 3 of 3 values | the laws of composition, optionals, variants, maps, filters, reductions and zips |
| | | scripts of five steps of a watch, three of a pointer to an array | a watch shows the ticks between its starts and stops; arrays left behind |
| | | three-bit coordinates that wrap, or floating ones with a tolerance; up to four points with NaN | operators undo one another, the order, the bounds in whatever chunks |
| `ThreadSafe` (run `spfh_race`, violated) | spfh | as above | two tasks write and read one signature at the same time |

**FineRegistration.** The base class drives: `Align` validates, preprocesses when a cloud was set since the last call, iterates with callback and convergence tests, and fills a
*reused* result record. The five algorithms differ in what they prepare, require (normals) and clear, which is in tables by algorithm. An
error is named by the transformation it was measured at, so that "one iteration behind" is visible. `changed` remembers that a setting was changed since the structures were built and `refused` that the callback refused an iteration of this call: the header says that both matter
(`base_fine_registration.hpp:149-150`), the code ignores both (section 11), and the properties make no claim about them in either direction.

**ChunkedCalls.** The calls differ in how they cut (by rounding up, down, with a minimum), from which size on, in how many rounds and whether they collect with
`get()` or `wait()`; the module is one protocol over `TaskPool`'s promise with a table of these. ICP's cut is wrong for clouds smaller than the number of workers less one
(`point_to_point_icp_impl.hpp:120`): such calls are left out by a named condition (`CutsWell`), and are in section 11.

**SpfhCache.** A `std::vector<bool>` packs bits in words, so that two writes of different bits can lose one: a task's store writes back the word
that it has read. `compute_spfh()` begins with zeros, also over a complete signature, and ends with the counts of the neighbours: `Cleared` takes a signature away from whoever reads it, and `Filled` completes it,
unless two tasks counted into it at a time. Lists are written in two steps too, so that a reader can meet a writer.

**Bounds.** Three points give every relation that suppression is about: alone, tied, in a row, all together. Six elements over one, two and four workers with the
threshold at 3 give chunks that are empty, short, and clipped. Five correspondences over samples of three are the least with both a better
sample found later and a refinement that loses inliers. Two calls show what the first leaves behind.

## 10. What is proved

Eight modules hold the proofs. A theorem holds for every value of the constants that satisfies the named assumption of its module, which TLC
evaluates in the runs; hypotheses beyond that are in the statement and in this table.

| module | theorem | states | hypotheses |
|---|---|---|---|
| `ThreadPoolProofs` | `TypeCorrect` | `[]TypeOK` | |
| | `TasksNeverLost`, `TasksNeverTwice` | a pending task is in exactly one place: a `submit` call, a slot of a deque, a worker's hand | |
| | `PoolOutlivesTasks` | no task runs when the destructor has returned, whatever the clients do | |
| | `ReadyIsFinal` | a future that is set stays as it is | |
| | `TasksKeepTheirPromises` | a promise that dies unfulfilled is a client's: what a running task submits is run | |
| | `QueuedWorkStaysWatched` | every deque with work has a worker that will look into it | clients quiesce |
| | `ShutdownDrains`, `PromisesKept` | nothing accepted is left when the destructor returns; no broken promise | clients quiesce |
| | `PoolImplementsTaskPool` | `ThreadPool` implements `TaskPool` | clients quiesce |
| `LockFreeQueueProofs` | `TailStaysInChain` | `tail_` is a node of the chain | `Alone` or `NeverScans` |
| | `NothingUsedAfterFree` | no thread reads or writes a deleted node | the same |
| | `EveryNodeHasOneOwner` | every allocated node has one owner, a free one none | the same |
| | `QueueImplementsFifo` | `LockFreeQueue` implements `FifoQueue` | the same |
| `DataLoaderProofs` | `BatchesInOrder`, `DropsOnlyTheRest`, `PrefetchStaysBounded` | `InOrder`, `OnlyRestDropped`, `PrefetchBounded` for any dataset, order, batch size, prefetch and pool | |
| `ThreadLoggerProofs` | `MessagesKept` | one logger; what is enqueued is written, in the hand or in the queue, once and in order | |
| | `LinesNeverMixed`, `StoppedIsSilent` | a line is of one message; nothing is written after the join | |
| `ParallelRawProofs` | `TasksShareNothing` | `NoRace`: tasks that may overlap in time do not overlap in the range | |
| | `CallsAreCorrect` | `Correct`: a call that returns has the sequential result and no task left, all six algorithms, any length, threads and chunk constants | |
| `KeeperProofs` | `PoolsLendAlways` | `BlockPool` and `ObjectPool` implement `Lending`, with or without a reset function; the free list passes its limit only by what was made at once | `PoolsAssumption` |
| | `MemoAnswersOnce` | one answer for each key of a memoized function | `CachesAssumption` |
| | `FramesListMatches` | until readers race: map and recency list agree, least recently used goes first, what was found stays | `CachesAssumption` |
| | `ExtractorsAskAboutTheirCloud` | who has an index for itself is answered about its own cloud | `PointersAssumption` |
| | `RankingsAreFresh` | a kept ranking is what would be computed now | |
| | `TokensAlwaysAccounted` | `TokensAccounted` for any tree of commands, parameters, tokens and number of runs | `ParserAssumption` |
| | `LastSettingAlwaysWins` | `LastSettingWins`: command line before ini file before what was there | `ParserAssumption` |
| `CloudProofs` | `FineStaysCurrent` | `IndexIsCurrent`: `align` searches what was built from the clouds that are set, and from the setting unless that was changed since; a result is of this call | `IterationsAreNumbers` |
| | `BestTriedIsReturned` | `ResultIsBestTried` of RANSAC, PROSAC and 4PCS, and PROSAC's pool keeps to its schedule | `PutativesAreMeasured`, `CandidatesAreMeasured` |
| | `PairsAlwaysMutual` | `MatchesAreMutual` for the three ways to compute, any views, ratio, threshold and order of calls | `ViewsAreSequences` |
| | `TasksMeetWhereCountedTwice` | `MeetOnlyWhereCountedTwice`: but for points counted twice or whose bit was lost, whoever reads a signature reads a complete one and no two tasks meet | `NeighboursAreInCloud` |
| | `RegionsAlwaysKept` | `RegionsKept` for eight extractors, any points, neighbourhoods and responses | `PointsAreNear` |
| | `ElementsOnceAlways` | `EveryElementOnce` for 19 calls, any length, workers and grain; a normal and a colour stay with their point however clouds are put together | `ChunksAreOfWorkers` |
| | `LabelsAreTransparent` | `CacheIsTransparent`: the cache of labels never shows in an answer | `LabelsAreKnown` |

Those of `KeeperProofs` are theorems of `KeepersSpec`, those of `CloudProofs` of `CloudsSpec`; the lemmas `PartSteps` and `CloudFacts` reduce a step to one of the component the behaviour is about, and the rest is lemmas about
that component. `CloudProofs` states every theorem without further hypotheses: the last column names the part of `CloudsAssumption` it uses.

`SequenceFacts` has the lemmas about sequences that several of these share: `Without` (a subsequence), the entries
of a list without repetitions, beginnings of lists. Its `InductionUpTo` replaces induction by a fact about sets of numbers: a set that
has 0, and with each n below N also n + 1, has everything up to N.

**Hypotheses.** *Clients quiesce* is `ClientsQuiesce`: without it TLC finds the broken promise of a late `submit` (section 11).
`Alone` says there is one producer at most and no store of a hazard pointer is delayed; `NeverScans` that no list of retired nodes reaches the threshold and
`cleanup` is not called, so that nothing is deleted. They are the two cases in which the queue is right: `queue_tail_race` violates
`NoUseAfterFree` with two producers and a scan, and so do delayed stores (section 11). They are also what the passing queue
runs instantiate. `QueueAssumption` asks that values are not the model's own markers, as `FifoQueue` puts both into one variable; `PoolsAssumption` and
`PointersAssumption` ask the same of users, objects and pointers (`UsersAreNoPlaces`, `CallsAreNoItems`, `NoneIsNothing` in the lemmas), and hold of any model
values. `PoolsAssumption` also gives constructor arguments their types (`SizesAreNumbers`, `ResetIsKnown`; a growth of 0 has become 1 in the constructor). `ParserAssumption` asks that no command has an
empty name, that an empty text is no number (the stream extraction in the default parsers fails on it, `click_impl.hpp:249-254`), and that the model's mark for "no value" is no text. TLC evaluates
all of them in the run `components`.

`CloudsAssumption` says of its constants what the code knows of its data, and TLC evaluates it in the run `clouds`. Most are types: limits and counts are numbers, views are sequences, a cloud has finitely many points.
Four say more. *A motion's inliers are among the correspondences* (`PutativesAreMeasured`): they are collected by a loop over them. *The schedule of PROSAC grows by one at
least* (`Added[n] > 0`): `prosac_registration_impl.hpp:210` rounds each increment up, and it is positive as long as the powers in it do not underflow (the inlier ratio is clamped to 0.01 .. 0.9 and
the sample has three points or more, `prosac_registration.hpp:99-101` and `149-153`; in single precision a sample of about forty points would be needed). With an increment of 0 the pool, which grows by one for an iteration, does lag behind, so the assumption
is needed. *A point is among its own neighbours* (`NeighboursAreInCloud`): FPFH asks for the neighbours of points of the cloud it searches. *Near is symmetric* (`PointsAreNear`): the extractors search within a radius.

**Thread pool.** The inductive invariant is

    Kept == Typed /\ Placed /\ Drain /\ ClientsOut /\ (ClientsQuiesce => QueuedWorkIsWatched)

- `Typed` is `TypeOK` with the ranges that the arithmetic needs and the roles of threads (who can be in which call).
- `Placed` replaces `NeverLost` and `NeverTwice`, which count places with `Cardinality`; it
  says "somewhere, and not in two places" with quantifiers, which the provers can use. The lemma `PlacedIs` shows that the two are equivalent.
- `Drain` says that a worker scans or has exited only after `stop_`, and that the destructor has joined what it says it has.
- `ClientsOut` says that after `stop_` no quiescent client is inside `submit`.
- `QueuedWorkIsWatched` is inductive only with these: a push needs a running pusher (`ClientsOut`) which is itself the worker
  that will look again; a worker that moves on in its scan has seen that deque empty under its lock.

Each conjunct has a lemma with one step for each action that can disturb it; moves of a task share the lemmas `Pushed`, `Taken` and
`Settled`. For the refinement the same lemmas show that a push is `Accept`, a pop or a steal is `Start`, the end of a body `Finish`, the return of the
destructor `Close`, and that everything else leaves the statuses as they were. `TasksKeepTheirPromises` needs no quiescence: `SpawnedIsWatched`
says of the tasks that *tasks* have submitted what `QueuedWorkIsWatched` says of all, and a client's late push cannot break it.

**Queue.** `QueueInv` says where nodes are (`Listed`: head, tail and links form a list without repetition; `Apart`: no node is being made, in the list
and past it at once), and what each thread may still believe: a producer's snapshot of `tail_` is a node that is linked or
past the list, a consumer that has validated `head_` has its hazard pointer on it. `Protected` is the reclamation argument: a
node that a validated pointer shows and that a consumer d has retired is either still to be read by d's scan or already among what the scan
found. It is inductive only with `EnqueuingAlone`: the one producer finds `tail_` at the last or last but one node, which nobody can retire. The
list itself is a recursive function of the links; the proofs use it through "some sequence of nodes begins at head and follows the links", which
determines it. `FifoInv` adds where each value is: with its producer, in the list behind the dummy, or with the one consumer that took it;
with it each linking is an enqueue of `FifoQueue`, each move of `head_` a dequeue, and "empty" is answered only by a call that was open when it was true.

**Data loader.** `LoaderInv` says that there are n batches the sampler has given and g that the loop has taken, that the queue holds batches g + 1 to n in order and
that each fetch that has ended has the items of its own batch. All three properties are read off it.

**Logger.** `Locked` is double-checked locking (who is in the critical section holds the mutex; a logger that was made is published or about to be),
`Lines` that a stream, an entry or a text is of one message in insertion order, `Flow` that nothing gets lost between enqueue and write, and `Silent` that
after the join no worker is at work.

**Parallel algorithms.** `Tiles` says that the pieces of a round lie side by side and cover the range; it is a fact about
the chunk arithmetic (rounding up, the clipped last chunk, an odd piece carried to the next merge round). `RoundApart` and `Waited`
say that all work that is left is of the present round and that its tasks are among the futures the caller has not read. `Progress` says for each algorithm
what holds of the work done so far: an element outside of what is left to do (`Left`, `Due`) has been visited once (`Applied`); the sums are
those of the pieces whose futures were read (`Summed`) and the second round adds the right offset (`Written`); a piece is in order or a task is
left that will sort or merge it, and a merge has two halves in order (`Ordered`, with `MergedTo` shown to be a permutation).

**Caches.** `FramesInv` has `ListIsLatest` (the list is the beginning of the history without repetitions), `LostWhenFull`, and `MovesItsFrame` (nobody takes a frame away from the reader that has found it, as that would be a race);
`IndexInv` has `TreeIsCurrent` and `OwnCloudInside`; `SorterInv` has `KeptIsFresh`; `MemoInv` says that a call stores only what the original
function returned for its key, and that the answer given is the one stored.

**Pools.** `Owned` says that every item of the heap is in the queue or with one user, once, and no other item is. The object pool has
also items on their way to the queue; `Taken` counts them as their users' and `Apart` keeps the two kinds distinct, so that the lemmas about
`Owned` serve both pools. `Holds` relates this to the abstract holder, and each action is shown to be `Lend`, `GiveBack`, `Use`, `Rearrange` or a stutter.

**Command line.** `ParserInv` reads the history of the line while it is read. `Queued` says that the queue has the positions that are still to be read, in order and behind all that were
read, so that the token read last is the last of the line so far: that is what makes "the last setting" a statement about positions. `ReadAfter` relates two tokens between which only those of `--ini` stand, which
nothing read later can change; `ValuesFollow` and `OptionsHaveValues` pair options and values with it. `ArgumentsInOrder` ties `positional_arg_index` to the roles given, `CommandsInOrder` says that the commands left behind have their
arguments, and `SettingsHold` what each parameter holds now, by the texts given for it so far. Each action reads one token or two; the lemmas `...Stays` say that what `Reads` them leaves alone keeps its truth.

**Registration.** `FineInv` has `BuiltOrFlagged`: a structure is of the cloud that is set or a flag says that it is not, and no flag is up while a call iterates, so that a
setter of a cloud between two calls cannot leave an old structure unnoticed, and a structure has the setting that is set or `changed` says that it has not; and `Iterating`: the reused record holds what *this* call recorded, one entry for each iteration. `FourInv` and `CoarseInv` say that the best motion was tried and that none of those tried is better, and tie the
fields of the result together (`KeptOfBest`, `ResultBelongsTogether`). `PoolInSchedule` puts PROSAC's iteration between two entries of its schedule; the step that enlarges the pool
needs the schedule to grow.

**Chunks.** `EvenPartition`, `SinglePartition` and `FloorPartition` prove for each way to cut that the chunks lie side by side and cover 0 .. n - 1, the last by division with remainder and only when
`CutsWell` (section 11). `ChunkedInv` says that a chunk whose task has not ended is unwritten, that no other has its elements, and that everything else was written once or is `lost`, which a collected failure excludes; a second round begins only when the first has been collected.

**Signatures.** `SpfhInv` calls a point's signature `Complete` when it is, or when the point is contested (counted exactly twice in a parallel call, or its bit lost). `Signed` says that whose bit is set, or about to be set, has one; `BitsKept`,
that a point whose list or signature is being written is not marked, unless contested, and that a word read from the bits has no bit that is not set or lost; `SetAtTheEnd` and `Precomputed`, that a point of the first stage is marked when its task is over, or its bit
was lost. They need each other: a signature is not taken away by the zeros of a second task because its bit keeps that task out, and a bit is kept out of the way only of those that `WritersMeet` shows to be at a contested point.

**Keypoints.** `RegionsKept` has no history, so the work is in the suppression: `OneKindKeeps` shows that a set of candidates in which only a greater measure suppresses keeps, in every region closed under near,
a candidate of greatest measure. Each extractor is an instance with its own measure (`Suppresses`).

**Correspondences.** `MatchInv` carries `Searched` (each descriptor of the source waits or has two nearest ones) into the step that ends the call. `PairsMatch` says of the list that it has one pair for each descriptor that
passes, in order; `ReverseMatches` and the threshold are then subsequences of it. Keypoints that are listed once make the descriptor of a keypoint unique, which is what the reverse search rests on.

**Clouds and labels.** `SumsInv` says that the lists of normals and colours are empty or as long as that of the points, entry by entry of the same origin. `CacheIsTransparent` is inductive as it stands, because it bounds the cache and says that it holds good frames; the
work is in the calls that load many frames, whose cache is a recursive function of the number of frames (`Loaded`), for which `InductionUpTo` gives that it stays `Fits` at every frame.

**What proving changed.** `Datasets` had a fold for the calls that load every frame, `Correspondences` and `CommandLine` a `SelectSeq`; they are now a recursive function of numbers and `Without`. `CommandLine` is a part of `Keepers` since it is proved about. Sets of pairs in `Keypoints` are comprehensions over one variable. `ParallelRaw` and `DataLoader`, `FrameCache` and `ThreadLogger` had recursive operators, which the provers cannot
use together with arithmetic; they are now functions, or quantifiers over arrangements (`Shuffles`). `ParallelRaw` keeps the running sums of the pieces in `sums`.
`Sorters` says once what a combined score is (`Weighted`).

**Only model-checked.** Everything about liveness (fairness and `ENABLED` are beyond the prover): `WorkAndPoolEnd`, `AcceptedReadyOrAllStuck`,
`EverythingLeaves`, `LoopEnds`, `CallEnds`, `QueuedIsWritten`. `AnswersAreRight`, `FiguresAreRight` and `ReadIsTrue`, whose modules are
recursive functions of texts, bins and bytes, and that the weights of a sorter are numbers, which sums of weights need: what a recursive definition computes for every input needs induction
over data, which the provers cannot do here. Every other invariant and action property of a passing run is stated by a theorem.

## 11. What the checks found

Three runs are expected to fail; each contradicts a sentence of the repository, quoted in `PROJECT.json` (`findings`):

1. **Waiting task during shutdown** (`pool_shutdown_wait`). Workers leave while a task still runs; if that task submits and waits, the
   destructor hangs.
2. **Unprotected tail** (`queue_tail_race`). `enqueue()` dereferences `tail_snapshot` without a hazard pointer; two producers and a consumer suffice for a read of freed memory.
3. **FPFH's lazy signatures** (`spfh_race`). Tasks test and fill shared signatures without a lock, under a comment that calls it thread-safe.

The models show more places where the code does less than a reader may expect. They have no run of their own; a property of the
passing runs is worded around each of them, or the model behaves that way.

*Concurrency and lifetime*

- **Late submit.** `submit()` tests `stop_` once, then pushes; a push after the last worker's scan is never run and its future is broken.
  A comment in `thread_pool_test.cpp:170` calls the test "the intended safeguard". (`OnlyClientsLosePromises`; `NoBrokenPromise` fails on the instance of `pool_nested`.)
- **Store order of hazard pointers.** Release store and acquire load do not order the publication before the validation; a `seq_cst` pair or fence is
  needed. (`NoUseAfterFree` fails on the instance of `queue_reclaim` with `DelayedStores = TRUE`.)
- **Short batch ends the loop.** With `drop_last`, one item that cannot be loaded ends the epoch. (`OnlyRestDropped` without its condition on missing items.)
- **Logger.** A `shutdown()` before the first message marks itself done, so that the logger created later is never stopped; what is queued at a `shutdown()` is
  dropped (`QueuedIsWritten` excludes a stopped logger).
- **A call of the parallel algorithms that throws** leaves its other tasks running over the caller's range. `tim_sort` is not stable (section 6).
- **Frame cache.** Two readers that the loader runs at a time race in the map and the list (`Racing` is reached). Also without a race one can evict the other's frame before it is answered; with size 0 nothing is ever answered.
- **Registry of metrics**, factory and random engine are shared without a lock. The metric registry lists names that `clear()` has removed and that cannot be made.

*Point clouds*

- **ICP's chunks.** With fewer points than workers less one, a middle chunk begins behind the last point and is read (`point_to_point_icp_impl.hpp:120`).
- **Fine registration.** `termination_reason` stays "running" at the limit; `final_error` is one iteration behind; AA-ICP never finds correspondences; a callback that refuses is ignored;
  settings changed between calls do not rebuild what GICP and NDT prepared.
- **Coarse registration.** `converged` may stay TRUE in a call that returns false; refinement may lose inliers and still succeed; with fewer inliers than the sample, PROSAC's non-randomness
  test holds at once; with a minimum of 0 inliers 4PCS may return a motion that was never set; `Super4PCS`'s own `align_impl()` is never reached.
- **Shared and late indices.** `set_input()` after `set_knn()` leaves a keypoint extractor's index on the old cloud; ROPS never fills its index; VFH without an index reads empty normals.
- **Suppression.** MLS and SIFT compare with points that are no candidates, so that a region can lose all its keypoints (`RegionsKept` leaves them out). A task that throws leaves responses as they were.
- **Histograms.** Negative angles of VFH and CVFH are cast to an unsigned bin; ROPS writes past its histogram for more rotations or partitions than the default.
- **Matching.** A ratio test with a single target accepts it; a duplicate in the expected matches counts twice; a keypoint listed twice makes the reverse search ask about the wrong descriptor.
- **Sorters.** A combined sorter is not told of changes in its sub-sorters, and answers from its cache.
- **Clouds.** `cloud += cloud` does nothing while `cloud + cloud` doubles; a transformation in place keeps the normals unrotated, one into a new cloud drops normals and colours.
- **Bounds with NaN.** A first NaN sticks, a later one is passed over, and a chunk that begins with one loses its values: parallel and sequential results differ.

*Files and text*

- **KITTI.** `read_kitti_bin<double>` and so the double datasets always fail; an empty scan is written but not read; the last point of a cut scan is dropped silently;
  intensity is written as 0. The calibration reader does not know the key `Tr:` that `test/io/kitti_dataset_test.cpp:102` uses and leaves the matrix as it was; short or garbled rows keep stale values. A pair
  dataset over fewer files than its skip has an enormous size. Frame names are sorted as text.
- **PCD.** The text reader ignores `COUNT` and takes a cut last value for a whole one; an empty cloud is written but not read; the size check wraps.
- **`write_point_cloud()`** compares the extension without its dot, which `get_file_extension()` includes, and so never writes (`io/formats`, read while surveying).
- **Ini.** Fields of one byte never parse; unsigned fields take negative numbers; a file in two parts loses the section of the first; `[a]=b]` is a section. On the command line, `flag = false` in an ini file sets the flag.
- **Strings.** Replacing everything in a short text by something much longer throws `length_error` (the estimate for `reserve` wraps); `hex_to_integral<int16_t>("8080", false)` throws where
  the header's example says 32896 (`AnswersAreRight` claims nothing of either); `is_integer("+5")` holds while `try_parse_int` refuses it.
- **Metrics.** Cosine, angular and correlation distance of a zero vector from itself are not 0; `metric_traits.hpp:30` declares every metric symmetric, KL divergence included (`histogram_metrics.hpp:199` says otherwise); the greedy earth
  mover's distance is not symmetric; boxes without volume have an overlap distance of 1 even when they are equal. Median and sum wrap in the element's type.
- **Timers.** `start()` while running loses the time so far; creating an array over a live one leaks it; the example at `timer.hpp:117` calls a `create_timer(3)` that does not exist.
- **Tables.** A span of 0 columns never ends (the column index goes back and forth); a span over columns swallows the borders between them, one over rows leaves its columns out below, so that these
  lines are narrower than the table; an ellipsis wider than its column makes `width - ellipsis.size()` wrap and nothing is cut; head and tail counts whose sum wraps read beyond the container
  (the model asks for no such sum). `min_width` and `set_file_output_color()` have no effect.
- **Plots.** The `+` ticks of the axes are never drawn: the axes have filled their cells before. Grids give their colour to the data they cross. On a logarithmic axis a value without a logarithm is
  drawn at its own value, so that 0 is where 1 is.

## 12. Not modelled

- **Floating point geometry**: eigenvalues, distances, angles, rotations, searches in trees. The control around them is modelled with their results as inputs. What these
  inputs must satisfy (a tree's search returns the nearest) is not claimed.
- **Colours, titles and labels** of tables and plots, and how values become texts: wording. Rounding of plotted coordinates: cells are computed exactly.
- **File helpers, environment and macros, the dispatch of file formats**: one call each of the operating system or of a reader, its error turned into a result; nothing is kept between them.
- **TBB backend, old thread pool, vendored code**: forwarded to a library, not built, third party. Only moodycamel's queue is reached, as the external definition in `ThreadLogger`.
- **Threads that end**: the retired nodes of a consumer thread that exits, and its hazard pointer record, are forgotten by the code; the model's threads stay.
- **Cursor of `get_next()`**: a plain index two threads must not share.
- **An object that outlives its pool**, and data races on `level_` and in the metric registry: undefined behaviour, noted and not modelled further. A race inside the frame cache's containers is where `FrameCache` ends: what follows is not modelled.
- **Weak memory** other than the delayed hazard pointer store and late reads of `stop_`.
- **Crashes and lost messages**: the library persists nothing but files, and a writer that stops short is in `PcdFile`; there is no network.

## 13. Plan

Modelled, in this order: the pool and its proofs; the queue; loader, logger, algorithms, frame cache; pools, mapped files, PCD and the parser; datasets and
registration; chunked calls, index, keypoints, descriptors, correspondences and sorters; the one-call helpers, files, points and clouds, tables and plots. Proved,
in this order: the pool, the queue, the loader, the logger, the algorithms, both pools, and four of the caches; then the point cloud library's calls and the labelled datasets (`CloudProofs`), and the command line.

What is left, in order of value:

1. `PcdFile`: that a reader stays inside its mapping (part of `ReadIsTrue`) needs no induction over bytes, only the validation of the header; what is read is true does.
2. `DataLoader` and `ParallelRaw` over `ThreadPool` instead of `TaskPool`, by composing the refinements.

Next, models: the readers of the KITTI directories as one composition with `FrameCache`; threads that end in `LockFreeQueue`; plots and the format dispatch only if they grow state.
