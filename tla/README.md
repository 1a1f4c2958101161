# cxxet: specifications, model checking and proofs

cxxet records tracing events of a C++ program. Every marker appends an event to
a thread-local *collector*; collectors hand their events on to *sinks*, and the
sink at the end of the chain, a *file sink*, writes them out in the Trace Event
Format. This directory holds TLA+ modules of the parts of the library in which
several objects or threads have to agree, the configurations under which TLC
checks them, and proofs which TLAPS checks. Paths below are relative to the
repository.

## 1. The system

| Part | State | Operations | Works with |
|---|---|---|---|
| `impl::event::list` (`src/impl/event/list.cxx`) | `first`, `last`, nodes with thread id, `next`, size, capacity | `reserve`, `append`, `safe_append`, `drain_other`, `destroy`, `const_iterator` | owned by every sink |
| sinks (`include/private/impl/sink/*.hxx`, `src/impl/sink/*.cxx`): `sink_base`, `thread_safe`, `thread_unsafe`, `cascade`, `event_collector` | the list, a mutex, the parent, the collector's node capacity | `append_event`, `reserve`, `flush`, `drain`, `set_parent`, destructors | a collector or cascade drains into its parent |
| handles and control (`src/cxxet/sink_diversion.cxx`, `sink_control.cxx`) | owned sinks | make, divert, flush, set the target, register categories | the calling thread's collector, the global sink |
| `file_sink` (`src/impl/sink/file_sink.cxx`) | target filename, custom writer, category names | `set_flush_target`, `register_category_name`, `write_out_events` (destructor) | writer, `tmp_filename_handle`, output format |
| `category_name_map` | registered names, cache of joined names | register, join | file sink, output format |
| output format, `default_writer` | stream | prepare, write, finalize | file sink |
| `tmp_filename_handle` | buffer | lazy creation of a temporary file | file sink |
| `properties` (`src/impl/sink/properties.cxx`) | time point zero, block size, target, verbosity from the environment | initialised statically, or when first asked for | collectors, global sink |
| markers (`include/public/cxxet/mark`, `src/cxxet/mark`) | begin and name of a scope | read the clock, build an event, submit it | collector |
| events (`include/private/impl/event`) | kind, category, pointer to the name, times | constructors, `get_name` | list, output format |
| benchmark programs (`examples/for_benchmarks`) | what each thread measured | reserve, submit, flush, leave two files | markers, a file sink, post-processing |
| post-processing (`tools/large_benchmark/postprocessing`) | results of benchmark runs | a pool of workers, requirements on traces, percentiles | the files of benchmark programs |
| comparison (`tools/large_benchmark/comparison`) | two files of results | Mann-Whitney test, lists of differences | files |

What is hard here: collectors and cascades are flushed by threads that run at
the same time, a flush holds a mutex while it takes the next one, destructors
flush without a lock, collectors keep raw pointers to sinks with a life of
their own, events travel through several lists and must keep order and
attribution, and statics are destroyed after thread-locals. What makes the parts
correct:

* list: nodes are owned by exactly one list; the last pointer is where the next
  pointers end; events stay with the thread id that recorded them; iteration
  visits every event once and stops.
* sinks: no data race, no use of a dead sink, no deadlock, every event is in
  exactly one place, nothing stays behind in an object that is destroyed,
  order and destination follow the routes the threads chose, and everything is
  written in the end.
* file sink and categories: a custom writer replaces the file, a failure does
  not keep the process from ending, names are unique and joined names current.
* markers and the text of a trace: whoever reads the file finds the names,
  categories and times of the markers, whatever order statics were initialised in.
* tools: every thread is measured and every interval counted once, percentiles and
  rank sums agree with their definitions, every file is processed once.

`PROJECT.json` lists the components, the hazards with their lines, and for
every definition the lines it models.

## 2. Modules

| Module | Models |
|---|---|
| `EventSeqs` | What the lists promise: sequences of events, with append, drain and destroy. |
| `EventList` | `impl::event::list`: the heap of nodes and the operations on them. One action per public operation. |
| `EventListIterator` | `const_iterator`, the contents of a list, and the refinement of `EventSeqs`. |
| `EventListProofs` | Theorems about `EventList` and `EventListIterator`. |
| `EventDelivery` | What the tree of sinks promises: events are pending until some file sink writes them; each is written once, in order, and none is pending when the process is over. |
| `SinkTree` | Collectors, cascades, file sinks, their mutexes and the threads that use them, in steps between accesses to shared memory; the refinement of `EventDelivery`. |
| `SinkTreeProofs` | Theorems about `SinkTree`. |
| `SinkExamples` | The example programs and unit tests with several threads or sinks, as scripts that run on `SinkTree`. |
| `TraceFormat` | The kinds of events, the text they get in a file, and a reader of that text. |
| `Markers` | Markers, `properties` and the collector of a thread, from the clock to the file that `TraceFormat` writes. |
| `MarkersProofs` | Theorems about `Markers`. |
| `FileSink` | Where a file sink's events go: targets, custom writers, temporary files, and the destructors of several sinks writing at once, with failures at every step. |
| `FileSinkProofs` | Theorems about `FileSink`. |
| `CategoryNames` | `category_name_map`: registration, renaming, the free flags and the cache of joined names. |
| `CategoryNamesProofs` | Theorems about `CategoryNames`. |
| `PostprocessingPool` | The threads that read the results of benchmark runs. |
| `BenchmarkResults` | Percentiles, and what post-processing requires of a trace and takes from it, for every benchmark. |
| `BenchmarkRun` | A benchmark program, its threads and their measurements, and the post-processing of its files. |
| `BenchmarkRunProofs` | Theorems about `BenchmarkRun`. |
| `BenchmarkComparison` | The comparison of benchmark results: the rank test of two samples and the lists measurements are put on. |
| `BenchmarkToolsProofs` | Theorems about `PostprocessingPool` and `BenchmarkComparison`. |
| `IterationTheorems` | Lemmas for the proofs: induction over the natural numbers, and functions defined recursively on the first of them. |
| `MC*` | Instances for TLC. |

**EventList.** `heap` maps addresses to nodes; `new_elems` picks a free
address, `delete_elems` makes it free again. A node's thread id is that of the
thread that created it (`get_thread_id()` in `new_elems`), which the model
derives from the collector that reserves. `Nodes(l)`, the nodes reachable from a
list's first one, is the least set closed under `next`, which keeps the module
free of recursion. `MayDrain` is what the callers guarantee: only collectors are
appended to, and nothing drains into a collector but, at most, another one of
its own thread. The state `default_node_capacity` is the collector's: `reserve`
changes it and `safe_append` uses it.

**SinkTree.** Here a list is a sequence (which `EventListIterator` justifies)
and one operation on it is one step (which `NoRace` justifies). A call in flight
is recorded in `call[t]`: `op` (flush or destroy), the object `self` it was
called on, and `at`, the next step of `do_flush`:

    lock -> check -> lock parent -> splice -> unlock parent -> unlock
                 \---------------- nothing to hand on --------/

A destructor starts at `check` because `do_flush<false>` takes no lock, a file
sink's destructor at `write`. For sinks that are not thread safe, locking does
nothing. `Usable`, `MayFlush`, `MayDestroy` and `MayExit` are the obligations of
callers: the C++ rules (an object outlives the calls on it, and is not used by
two of them at a time unless it is thread safe), and what the raw pointers imply
(a sink outlives its cascades, and the collectors whose pending events are to go
to it). A collector that is empty may keep a pointer to a dead sink: the code
does not look at it, and the model allows it. `Careful` are the
threads that follow the advice of `examples/usage/sink_diversion/README.md` and flush
before they switch; the others may switch with events pending.
`root` and `depth` are history variables: where the chain of a sink's parents
ends, and how long it is.

**SinkExamples.** A program is a script of calls for each of its threads, and what
its integration test looks for in every file. The scripts keep every call that makes,
diverts to, flushes or destroys something, and the starts and joins of threads, in the
order of the source; events recorded in a row are one event with a count. The calls are the
actions of `SinkTree`, which take their steps between two calls of the script. A
`complete` marker counts where its scope ends. The leaves of unit tests, which are
collectors in a test function, are those of the thread that runs it.

**TraceFormat.** Definitions only, named as in the code: an event is the record of
what its constructor keeps, an object of the file the sequence of its fields in order. A
text is a sequence of characters, of which there are those that need escaping (a quote, a
backslash, one with a short escape, one that needs a number) and any others. A
number of microseconds keeps its parts: before the point, zeros, and after it, with C++'s
division. The reader knows JSON and the format, not the writer: a string
ends at the first bare quote, fractions count as many digits as are there.

**Markers.** Every public marker is an action that reads the clock and submits; `complete`
and `duration` objects live on a stack per thread (`guards`) and act when their scope
ends. `zero` is the static in `properties.cxx`, whose initialisation nothing orders before
markers in other initialisers; `properties` and the collectors are made by whoever
needs them first. Events keep pointers: `text` is what is behind them, and the program may change it
(`Rewrite`), whatever it was at the start; `said` remembers what it was, for the property only. `room` is the
free capacity of the last block, and a thread may ask for more at any time (`Reserve`; that it is best done before
the first marker is advice): `append_event` without the asserts of a debug
build writes behind a block that has none (`overrun`, after which nothing more is said of the
program). `parse_int` saturates like `strtol` and narrows to `int`, with `INT_MAX` and
`LONG_MAX` parameters.

**FileSink.** `SinkTree` ends where a sink's destructor calls
`write_out_events`; `FileSink` is that call. It is a sequence of steps between
which destructors of other sinks may run: `name` and `target` are the two
conversions of the `tmp_filename_handle` (once for the log, once to open it),
then `prepare`, one `write` per piece of the output, `finalize`. Every one of
them may throw: a `std::exception` is caught and reported (`Fail`), something
else that a custom writer throws ends the process (`Terminate`). A file stream
that goes bad throws nothing (`good`). `Put` is what a write does to a file that
another stream may have truncated or be writing to: each stream has a position of its
own, only standard output is opened for appending. A piece of output is a model
value; its text is that of `TraceFormat`. `made` is a history variable.

**CategoryNames.** A flag is the set of its bits' indices, a name a sequence of
characters, of which the code only asks whether they are letters or alphanumeric.
`names` has the length of the vector, since the resize that precedes the last check
and the search for a free bit depend on it. `last` records the latest call
and its result, which the action properties refer to. `stage` goes from `open` to `writing`
when the file sink's destructor runs, the only place where names are joined;
`terminated` is what an exception out of the handle's `noexcept` function leads
to.

**PostprocessingPool.** Worker 1 is the main thread. `at[w]` is the position of
a worker in its loop: `fetch` (the atomic `fetch_add`), `look` (is it a file of
results), `process` (inside `process_benchmark`, filling its slot), `exited`.
`stage` is the position of the main function. The result of a file stands for all
the values read from it. Exceptions end the main function (`failed`) or the
process (`terminated`: out of a thread's function, or when unjoined threads are
destroyed). `std::size_t` has `SizeT` values, `max_size()` is `MaxVector`.

**BenchmarkComparison.** `doing` follows `compare_files`: `extract` the results, then
for every measurement (`next`) either skip it or test it. The two loops over ties
of `mann_whitney_u_test` are `rank` and `correct`, one step for each value that
differs from the ones before it. Ranks and U are doubled, the variance is multiplied out,
so that everything stays an integer; the C++ doubles are taken to be exact.
`std::sort` leaves equal values in any order, and so does `Sorted`: the sorted values are the ascending sequence
with the same occurrences, of which any places that fit are the baseline's. The p-value is a
decreasing function of z, so the comparison of it with 0.05 is one of z²
with its critical value (`CriticalSquare`); NaN, which compares as false, is
a case of its own.

**BenchmarkResults** holds the branches of `process_benchmark_raw_results`, each as what
it requires of the events and the samples it hands to `compute_from`. Its
assumption `PercentilesAsAsserted` is the list of `static_assert`s of `statistics.cxx`,
which TLC evaluates. What `std::sort` leaves at an index is written as an order statistic
(`sorted_at`: the least value that more than so many values do not exceed), of which the prover can reason; `SortedAgrees`
in `MCBenchmarkRun` compares it with a sorted sequence, for up to four values.

**BenchmarkRun.** `at` says where in its program a thread is. The five programs differ in the
events of one iteration, for which the clock may stand still or go on. A measured call
takes one unit of time, so that a sum of measurements tells how often a call was
made. A sink without a lock is read and written in two steps (`link`). The entry of a
thread is handed on when its thread-local `meta` is destroyed, workers' when they end
and main's after `main`; `~metas` then writes them out. `traced` distinguishes
the program built with the library from the bare one.

## 3. Runs

| Run | Shows | Bounds |
|---|---|---|
| `list` | Type, ownership, attribution and iteration, in every order of operations; `EventList` implements `EventSeqs` | 3 nodes, 3 collectors (two of one thread, one of them never appended to), 1 sink, 3 events |
| `sinks` | Types, races, lifetimes, deadlock, order, `EventDelivery` (each event written once, none left); calls return, events are written | 2 threads, one of which switches with events pending, global sink, 1 thread-safe cascade, 2 events and 1 switch each |
| `sinks_chain` | The chosen file, over chains and siblings of cascades that end in a thread-safe or an unsafe file sink | 2 threads, 2 file sinks (the local one unsafe), 2 thread-safe cascades, 1 event and 2 switches each |
| `examples` | Examples and unit tests keep the obligations of `SinkTree`, and leave what their tests look for | the programs as they are, 19 of them, up to 7 threads and 5 sinks |
| `markers` | The file reads back as what was marked, scopes nest, which block sizes are bad | 2 threads, 1 name of 2 texts, 1 category, 2 times, 2 markers (or 2 scopes), 2 requests at any time, 6 block sizes, 8-bit `int`, 16-bit `long`; both texts and their changes with one block size, all block sizes with one text |
| `file_sinks` | Whole traces, own temporary files, the writers' protocol, nothing skipped, standard output only grows | 2 sinks, 1 file, standard output, 1 template with 3 names, 2 writers, 2 events each |
| `categories` | Unique names, current cache, renames on request only, refusals, free flags | 3 user and 2 reserved bits, 4 valid and 3 invalid names, flags of none, one and two bits |
| `categories_reserved` | expected violation: reserved names can be registered again (see findings) | as `categories` |
| `pool` | No race on the slots, the same result as one job, no worker outlives main, the program ends | up to 3 files of 3 kinds, 1, 2, 3 (one per file) or 4 workers |
| `benchmark` | Accepted with two iterations, refused with less; all intervals counted, percentiles in order; one complete entry per thread | 5 programs, traced and bare, 0, 1 or 2 iterations, 1, 2 or 3 threads, `cnt_for_all_percentiles` = 3 |
| `benchmark_global_flush` | expected violation: the global flush is reported as 0 (see findings) | as `benchmark` |
| `comparison` | Rank sums count pairs, the corrected variance is exact, every measurement is put on one list, samples of one value never differ | one measurement with up to 3 values of 3 on each side, one that may be missing, one file with both libraries or two files |

Why the bounds are enough. Three nodes and four lists make a list of one node, of
several, with reserved empty nodes at the start, in the middle and at the end,
and splices of any of them into any other. Two threads are all a race, and an
exchange of mutexes along one chain, needs; a chain of two cascades is the
shortest in which a cascade is both drained and drained into. Two
events are needed for order, two switches to leave a sink and come back. The
examples are run whole; what is smaller is only that events in a row are one.

Two markers are the least that nest, stand next to each other, or fill a block. The times
107 and 2150 ns and what lies between them give fractions of one, two and three digits with zeros in front and within
(times are absolute when properties are made before time point zero is), and a difference over a microsecond's boundary;
the first one lies before time point zero if a scope begins before its initialisation. One text holds one character of each
kind, the other none, and either may be there from the start, so that names with escapes are read back. A
thread may reserve at any time: one event's block, or the default one, larger than the room there
is. The default may come from no variable or from one that is no number, or be the smallest or the largest `int` a block can have. With 8 and 16
bits, 256 narrows to 0 and 40000 saturates and narrows to -1: the two ways in which a large number becomes
a bad block size; more bits add no other. What is written does not depend on how events were spread over blocks, so `TextsOrBlocks`
leaves out the product of texts and block sizes.
One category and none (which `duration` gives at its end) tell a category from its absence.

Two iterations are the least that give an interval; three threads with one interval each reach the
number of values from which on all percentiles are reported, which is 50 in the code and a
parameter here (the index function itself is checked for the code's numbers). Two workers
besides main can flush at the same time and end in any order.

For file sinks, two that may name the same file, or the same template, are what
any interference needs, and two events give output with something in the middle
that a failure can cut off; the third name `mkstemp` may choose leaves one that nobody uses.
Three user categories allow one to be left out between two that have names. For
the pool, three files and four workers give workers without a file, files
without a worker, and a counter that goes past the end for each of them;
`SizeT = 16` is larger than any sum the code forms, but not than a difference
below zero. For the comparison, three values against three are the smallest samples
that the test can tell apart; three different values give ties within one
sample, across both, and of all values.

Fairness of the sinks (`FairSpec`, in `sinks`): a thread inside a call goes on
(`WF` of `Continue`; a `std::mutex` need not be fair, but at most one call of
every thread competes for it and calls are finitely many here), threads flush and end,
handles of local sinks are destroyed, and the global sink is destroyed with the
statics. These are what the scopes and the end of `main` bring about; nothing is
assumed about who wins a mutex.

Fairness of the pool: `WF` of the main thread and of every worker, which a
preemptive scheduler provides. No step of them waits but the join.

Every property has a mutant of the code in `PROJECT.json` which violates it.

## 4. Proofs

Eight modules hold theorems, each about every value of the constants that satisfies the named
assumptions. Every safety theorem follows from an inductive invariant, and most of those need
more than the property.

### SinkTreeProofs

For any sets of threads and sinks, any mix of thread-safe and unsafe ones and any bound on
events and switches, from `SinkAssumption` (the kinds of objects are disjoint, the global sink is
a thread-safe file sink):

* `TypeCorrect`: `Spec => []TypeOK`
* `Lifetimes`: `Spec => []NoUseAfterDestroy`
* `RaceFreedom`: `Spec => []NoRace`
* `DeadlockFreedom`: `Spec => []NoWaitCycle`
* `OrderKept`: `Spec => []RouteOrder` (of `Careful` threads)
* `FileChosen`: `Spec => []ChosenFile` (of `Careful` threads)
* `DeliveryImplemented`: `Spec => ImplementsDelivery`, the refinement of `EventDelivery`

The runs of `NoRace` and `ImplementsDelivery` have thread-safe sinks only. What threads that take turns
on an unsafe sink need is that callers keep their obligations, which `examples` checks of the programs there are;
that it is enough is `RaceFreedom` and `DeliveryImplemented`, where sinks are of any kind.

The first four rest on the inductive invariant `IInv` (`Invariance`), of six parts:

* `TypeOK`;
* `CallOK`: which steps a call on which kind of object can be at, and that the
  object is alive during a flush and dying during its destructor;
* `TreeOK`: a parent was made before its child and is nearer to the file;
* `LiveOK`: whoever may still hand something on has a living parent (a living or
  dying cascade, a thread with pending events, a call that has a parent locked);
* `ExclOK`: two calls in flight only share thread-safe objects, and none that is
  being destroyed;
* `MutexOK`: a mutex is held by exactly the call whose position says so.

`NoUseAfterDestroy` needs `LiveOK`, which needs `ExclOK` to know that nobody else
destroys what a call refers to. `NoRace` follows from `ExclOK` and `MutexOK`: what
two calls share is thread safe, and then accessing it means holding its
mutex. `NoWaitCycle` follows from `MutexOK` and `TreeOK`: a thread that waits and
is waited for holds a cascade's mutex and waits for one of less depth, so a
thread of a circle with the least depth cannot exist. The lemmas
about `Undisturbed` (`OneThreadMoves`, `TouchesFrame`) carry what the steps of
one thread leave alone of another.

The other three say where the events are, and rest on `DInv` (`DeliveryInvariance`), which adds to `IInv`:

* `RootOK`: the root kept for a cascade is its parent's;
* `EmptyOK`: what is not alive holds no events, and the global sink dies when all threads are dead;
* `WriteOnce`: a file sink about to write has not written before;
* `PlaceOK`: an event of a thread that flushes before it switches is still with the thread, or on the
  route from the sink it was recorded for to the file;
* `UniqueOK`: no event is in two places, or twice in one;
* `OrderOK`: of two events with one route, the earlier one is nearer to the end of the file.

`RouteOrder` speaks of what was written only; it becomes inductive when the order is stated along the whole
route, by the depth of the sinks (`Before`). A splice keeps `OrderOK` because it hands on all events of the nearer sink
at once: what stays behind in the route is behind what was moved. The refinement maps the pending
events of `EventDelivery` to the union over all holders; recording and writing are its steps, handing on
is a stutter (`HandingOnIsUnseen`), because a splice moves events between two holders and no holder dies with events.

### EventListProofs

For any finite heap, and any threads, collectors and sinks, from `ListAssumption` (`Null` is no node and no thread, collectors and sinks
are disjoint) and, for the last two, `HeapIsFinite`:

* `TypeCorrect`: `Spec => []TypeOK`
* `Ownership`: `Spec => []OwnedOnce`
* `Attributed`: `Spec => []Attribution`
* `ListImplementsSeqs`: `Spec => ImplementsSeqs`, the refinement of `EventSeqs`
* `IterationIsComplete`: `Spec => []IterationComplete`

`LInv` (`ListInvariance`) strengthens the first three: `ChainOK` (the only node of a chain
without a next one is `last`), `HeapOK` (a node is in exactly one chain or unallocated) and `CreatorOK` (all
nodes of a collector were created by its thread, which is why an append to any node there keeps `Attribution`).
`Nodes(l)` is a least closed set, so every step exhibits such a set: of a linked
node, of two spliced chains, of the remainder.

Nothing in `LInv` says that a chain has no cycle, and the contents of a list are only defined without
one. `CInv` adds `RankOK`: the nodes of every chain can be numbered down to 1 along the next pointers. The ranks of a spliced
list are those of the second, and those of the first raised by the second's length. With them
`Contents` has an unfolding that does not depend on the size of the heap (`Unfolds`), appends and drains act on it as
on sequences, and a walk of the iterator can be compared with it node by node, empty nodes included.

### FileSinkProofs

For any number of sinks, files and writers, from `FileSinkAssumption` (special names are no files, standard
output is no temporary file):

* `TraceIsWhole`: `Spec => []WholeTrace`
* `TempIsOwn`: `Spec => []OwnTemp`
* `WriterCalls`: `Spec => []WriterProtocol`
* `NoneSkipped`: `Spec => []NothingSkipped`
* `StdoutKept`: `Spec => StdoutOnlyGrows`

The properties are about sinks that are gone; the invariant `FInv` (`FileSinkInvariance`) is about those that are writing. `StageOK` says what a
sink has at every step of its destructor: its name and stream, how much is written, how many calls its writer was given.
`TempOK` and `WriterOK` keep temporary files and writers to one sink each. `CallsOK` and `FileOK`
say that the calls of a writer, and the content of a file with one good stream, are at every moment the beginning of
what they are to be (`Begins`), so that they are whole when the length is.

### CategoryNamesProofs

For any number of bits, any alphabet and any names,
from `CategoryAssumption` (fewer user bits than bits, reserved bits have names):

* `TypeCorrect`: `Spec => []TypeOK`
* `NamesStayUnique`: `Spec => []UniqueNames`
* `CacheCurrent`: `Spec => []NamesCurrent`
* `RenamedOnRequest`: `Spec => OnlyRenamedOnRequest`
* `RefusalIsHarmless`: `Spec => RefusalChangesNothing`
* `FlagsAreFound`: `Spec => FreeFlagFound`

`NamesCurrent` is not inductive: a rename would make a cached name stale. The
invariant `IInv` adds `CacheOK`, that nothing is cached before the destructor runs,
and `TableOK`, that the table is no longer than the user categories. `StoreEffect`
is the lemma the first five rest on: storing one name changes no other one, whether
or not the table grows; from `TableOK` alone it follows that the resize before
the last check never has an effect on a refused call (`RefusedSame`).

### BenchmarkToolsProofs

Of the pool, for any number of files, workers and cores, from
`PoolAssumption` (files and cores are fewer than a vector can hold):

* `TypeCorrect`: `Spec => []TypeOK`, with the bound of the counter
* `RaceFreedom`: `Spec => []NoRace`
* `WorkersJoined`: `Spec => []NoWorkerOutlivesMain`
* `PoolIsSequential`: `Spec => []SameAsSequential`

`NoRace` needs to know that what a worker holds was taken from the counter
(`TakenOK`: it is not ahead of the counter, so that the next one is different), and
the counter's bound counts the workers that have left (`CounterOK`: each goes past the
files once). `StageOK` says who works while main is where, and gives
`NoWorkerOutlivesMain`. For `PoolIsSequential`, `SInv` adds `FilesOK` (the slot of a file is filled when the
file was taken and let go of) and `MainOK` (what main has collected when): at the join every file is done,
and joining the slots (`Flattened`) is what one job does file by file.

Of the comparison, for any measurements and samples of integers of any size, from `ComparisonAssumption` (the results are
sequences of integers, and a file given twice is the same one):

* `UCountsPairs`: `CompareSpec => []PairsCounted`
* `ListsComplete`: `CompareSpec => []EachOnce`

The inductive invariant is `CompareInv`. `PutOK` says of the loop over results that what is done is on exactly one list
and counted, `TestOK` says of the test that the combined values are `Arranged` (ascending, and the places of each kind
match those of its sample one to one), that no value is on both sides of `i` (`Boundary`, without which a
block of ties could be cut in two) and that every rank given so far belongs to the whole block of its value (`Ranked`).
Such a rank is one plus twice the number of smaller values plus the number of equal ones (`RankCounts`), so that a rank sum counts pairs
(`RanksAddUp`); the pairs within a sample cancel, as many having the higher value first as second, and what is left is U
(`RankSum`). `PairsCarried` takes the pairs of places back to pairs of the samples, whatever the sort did to equal values.
For `ListsComplete` the invariant says what the correction is when all values are the same: one block, whose term makes the variance
zero (`SameIsNaN`), so that the test's verdict is never "different" (`DifferentFound`). Sums over finite sets are
determined by how they grow by one element (`SumIs`).

### MarkersProofs

For any threads, times, texts, environment, reservations at any time and limits of `int` and `long`, from
`MarkersAssumption` (an `int` is no wider than a `long`, there is a time; texts and category names are sequences of
characters, categories have names, null is none of the things it is told from):

* `BlocksHaveRoom`: `Spec => []EventsLandInBlocks`
* `ScopesAreNested`: `Spec => []ScopesNest`
* `MarkersAreReadBack`: `Spec => []RoundTrip`

`BInv` (`BlocksInvariance`) says that, unless the environment names a bad size, every collector is `Sound`: the size of its next
block is positive and nothing was written outside of one. It needs that a positive `int` comes through
`strtol` and the cast unchanged (`PositiveInt`), that what cannot be parsed leaves the default, and that reservations which are
not positive fall back to it, also after markers and flushes.

`SInv` (`ScopesInvariance`) says of every thread where its scopes are before anything is written: the events it submitted,
in its collector or in the sink, have ended by now (`ItemsOK`); its open scopes began in the order of the stack, and
everything submitted lies within or before each of them (`GuardsOK`); of two submitted ones the later lies around
or after the earlier (`NestOK`), which a flush keeps because it moves all events of the collector behind those of the sink. `ScopesNest` speaks of the
file's text, so the proof also reads it back: `FractionRead` says that microseconds, point,
zeros and nanoseconds are the stamp they were made of, for every stamp, and `ObjectFields` that an object of any kind has each of its keys once, and with which value.
Time point zero is the same for all of them, so it cancels out; the property is about the scopes that did not begin before it.

`RoundTrip` has two parts. One is about the text alone: `StringRead` says that the reader finds every string it is given the
escapes of, null included, whatever characters it has. The reader goes through the text from its start and the writer through the
string, so the proof goes backwards over the characters: when the reader is behind what the first of them
became (`Written`, `WrittenStays`), it reads the rest of the string. What stands for one character is
read as that one (`OneRead`) because an escape begins with a backslash, which no other character is written as, and two escapes
differ in their second character (`Escapes`). The other part is about the program: `KInv` (`ReadingInvariance`) says of every item
on its way, in a collector or in the sink, that its event is of a kind there is with a category that has a name and
stamps that are numbers, and that its name is what is behind its pointer as long as nobody changed that (`SaysText`); and of the scopes that
are open, what their events will need. `Rewrite` keeps `SaysText` because it changes no other text and tells of the one it changes.

### BenchmarkRunProofs

For any number of threads and iterations, from `RunAssumption` (there is a thread, the programs are the five there are, and
`NoFile` is not a sequence of events):

* `EntriesComplete`: `Spec => []OneEntryPerThread`
* `ReportsComplete`: `Spec => []ResultsComplete`

`RInv` (`RunInvariance`) relates where a thread is to what it was measured for (`MetaOK`), what main is doing to the places of its workers
(`MainOK`), and the entries to the threads that have ended (`EntriesOK`: as many as threads, one of each, still
equal to its meta, main's last). A meta that is handed on does not change any more because its thread has ended.

`TraceInv` (`TraceInvariance`) follows the events. What a thread marks is `Recorded`: there are moments, one for each
iteration, each not before the end of the one before it, and the events are those of these moments, two an iteration or one.
That holds of a thread's list until the thread has flushed it, and from then on of the events in the sink that are
the thread's (`RecordedOK`), whatever other threads have put between them (`OfThreadConcat`). A sink without a lock does not
lose events because only a program of one thread has one (`LinkOK`). `WrittenOK` says that the file is the whole sink, which no
thread can change when main writes it.

From there on the proof is about what post-processing makes of such a trace, without the program. There is
a verdict for each of the five (`CounterVerdict`, `GuardedVerdict`, ...): its requirements are met, one of
its samples has as many values as there are intervals, and no sample is empty unless there was one iteration only. For `mt_counter` the samples of the
threads are joined in an order that is not known, and their number is that of the threads
times that of a thread (`FlattenedLen`). Of the samples, `ReportInOrder` says for any integers that the percentiles are in
order, that of 0 is not above and that of 100 not below any value: a greater percentile has no lesser index (`PercentileIndexes`), and
a value at a greater index is not a lesser one because it has to be above more values (`SortedAt`).

### IterationTheorems

Induction is used in one form, `AllNaturals`: a set of numbers that holds 0 and, with each
number, the next one is all of them. From it follow the lemmas on functions that are defined recursively on an
initial segment of the numbers: they exist (`FollowsExist`), and stay in the set their steps stay in (`FollowsStay`).
The contents and the iterator of `EventListIterator`, the folds of `PostprocessingPool` and the escapes of a string
in `TraceFormat` are such functions; `Flattened` says what joining a sequence of sequences is.

### What is only model-checked

* Liveness: `CallsReturn`, `EventuallyWritten` (run `sinks`) and `Finishes` (run `pool`). Neither fairness nor `ENABLED` is in
  reach of the prover.
* `ExactVariance`: it sums the squares of U over all subsets of a size. Its proof needs the number of these subsets and of those
  that hold a given place or two, an induction over data for each.
* `ExamplesKeepObligations` and `FilesAsTested`: they are about the particular scripts of `SinkExamples`; the theorems about
  `SinkTree` cover the calls that the scripts make.

## 5. Findings

`include/public/cxxet/output/categories.hxx:39` says that a category's name "must be unique".
`is_name_used` knows the user categories only, so that `cxxet_1` and `cxxet_2`,
the names of the reserved ones, can be given to another category
(`categories_reserved`).

`tools/large_benchmark/postprocessing/src/result_processor.cxx:84` says of the values of
`global_flush` "there should be exactly one nonzero value:", and line 109 reports the first
value there is. The nonzero one is main's, and main's entry is the last: thread-local
objects of the workers are destroyed before `join` returns. With more than one thread
`global_flush` and `global_flush_target` are therefore reported as 0 (`benchmark_global_flush`).

Three more places where a comment and the code differ were met while modelling; the models follow the
code, and no run is about them:

* `examples/for_tests/split_files.cxx:52-55` says that thread-local sinks flush to
  the global one when they overflow; `list::safe_append` allocates another node.
* `include/public/cxxet/sink_control.hxx:39` says of the target "" "discard everything"; a custom
  writer that was set before keeps precedence over any filename.
* `tools/large_benchmark/postprocessing/main.cxx:73` says of the number of jobs
  "anything negative means unbounded"; with an empty directory `num_ths - 1` wraps around
  in line 221 and `reserve` throws.

A block size of `CXXET_DEFAULT_BLOCK_SIZE` that is a number but not a positive `int`
is used as it is: `EventsLandInBlocks` shows that nothing else brings an event outside of
its block, and only asserts, which a release build has not, catch it.

## 6. Plan

Done, in this order: the list and what it promises; the tree of sinks, its
refinement and its proofs; file sinks; categories and their proofs; the pool and its
proofs; the comparison; the examples; markers, properties and the text of a trace;
the benchmark programs and what post-processing makes of them; then the proofs about the list, the
deliveries of `SinkTree`, file sinks, markers, benchmark runs and the comparison. Left:

1. Proofs: `ExactVariance` for `BenchmarkComparison`; what the scripts of `SinkExamples` leave.
2. Which targets `tmp_filename_handle` takes for templates, and its buffer.

Not modelled and not planned: the digits of doubles (counters, means, deviations) and
their rounding; options and the layout of the tools' output; the choice of a clock; thread and process
ids beyond being different; examples with one thread and no sink of their own; `#ifdef`s for other
platforms, build files and scripts.
