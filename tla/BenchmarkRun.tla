----------------------------- MODULE BenchmarkRun -----------------------------
(***************************************************************************)
(* One large benchmark: a program of examples/for_benchmarks, its threads  *)
(* and what cxxet_bench_driver measures of them, up to the two files it    *)
(* leaves, and then cxxet_large_bench_postprocess reading them.  Every     *)
(* measured call takes one unit of time in a thread's meta, so that what   *)
(* was never called measures 0.                                            *)
(***************************************************************************)
EXTENDS BenchmarkResults

CONSTANTS
  Benchmark,    (* Programs, as their names without "cxxet_bench_".        *)
  NumIters,     (* The argument num_iters (a bound).                       *)
  NumThreads,   (* The argument num_threads (a bound).                     *)
  NoFile        (* A file that does not exist.                             *)

(* What is read of a trace: the fields of an event, as the programs fill   *)
(* them in.                                                                *)
Event ==
  [tid : Nat, ph : {"C", "i", "X", "B", "E"},
   name : {"Counter", "some instant ...", "complete over instant event",
           "complete ...", "begin marker ...", ""},
   ts : Nat, dur : Nat]

ASSUME RunAssumption ==
  /\ Benchmark \subseteq {"mt_counter", "st_instant", "st_guarded_instant",
                          "st_complete", "st_duration"}
  /\ NumIters \subseteq Nat /\ NumThreads \subseteq Nat \ {0}
  /\ NoFile \notin Seq(Event)

VARIABLES
  benchmark, num_iters, num_threads,
  traced,        (* Built with CXXET_ENABLE, or "bare"?                    *)
  at,            (* Where each thread is; 0 is the main thread.            *)
  iter,          (* Iterations each thread has done.                       *)
  clock,         (* The time of the last marker.                           *)
  list,          (* Events in each thread's collector.                     *)
  sink,          (* Events in global_file_sink.                            *)
  seen,          (* The sink as a thread without a lock found it.          *)
  meta,          (* get_meta() of each thread.                             *)
  ms,            (* metas::ms: what the threads' metas submitted.          *)
  results_file, meta_file,
  report         (* What the post-processing made of them.                 *)

vars == <<benchmark, num_iters, num_threads, traced, at, iter, clock, list,
          sink, seen, meta, ms, results_file, meta_file, report>>
args == <<benchmark, num_iters, num_threads, traced>>
files == <<results_file, meta_file, report>>

Tid == IF benchmark = "mt_counter" THEN 0 .. num_threads - 1 ELSE {0}
Workers == Tid \ {0}

MutantThreadSafe == num_threads > 2

(* global_file_sink = file_sink_handle::make(num_threads > 1) *)
SinkIsThreadSafe == num_threads > 1

Init ==
  /\ benchmark \in Benchmark /\ num_iters \in NumIters
  /\ num_threads \in NumThreads /\ traced \in BOOLEAN
  /\ at = [t \in Tid |-> IF t = 0 THEN "spawn" ELSE "unborn"]
  /\ iter = [t \in Tid |-> 0]
  /\ clock = 0
  /\ list = [t \in Tid |-> <<>>]
  /\ sink = <<>>
  /\ seen = [t \in Tid |-> <<>>]
  /\ meta = [t \in Tid |-> [name \in Measurement |-> 0]]
  /\ ms = <<>>
  /\ results_file = NoFile /\ meta_file = NoFile /\ report = NoFile

Goto(t, place) == at' = [at EXCEPT ![t] = place]
Measure(t, name) == meta' = [meta EXCEPT ![t][name] = @ + 1]

-----------------------------------------------------------------------------
(* main of bench_mt_counter starts the others, and works itself. *)
SpawnWorkers ==
  /\ at[0] = "spawn"
  /\ at' = [t \in Tid |-> "reserve"]
  /\ UNCHANGED <<args, iter, clock, list, sink, seen, meta, ms, files>>

(* driver::thread_reserve, which also diverts the thread to the sink. *)
thread_reserve(t) ==
  /\ at[t] = "reserve"
  /\ Goto(t, "iterate")
  /\ Measure(t, "thread_reserve")
  /\ UNCHANGED <<args, iter, clock, list, sink, seen, ms, files>>

(* The events of one iteration, the reading of the clock being the same or *)
(* a later one each time (a, then b, then c).                              *)
Evt(t, ph, name, ts, dur) == [tid |-> t, ph |-> ph, name |-> name, ts |-> ts, dur |-> dur]

mt_counter(t, a) == <<Evt(t, "C", "Counter", a, 0)>>
st_instant(t, a) == <<Evt(t, "i", "some instant ...", a, 0)>>
st_guarded_instant(t, a, b, c) ==
  <<Evt(t, "i", "some instant ...", b, 0),
    Evt(t, "X", "complete over instant event", a, c - a)>>
st_complete(t, a, b) == <<Evt(t, "X", "complete ...", a, b - a)>>
st_duration(t, a, b) ==
  <<Evt(t, "B", "begin marker ...", a, 0), Evt(t, "E", "", b, 0)>>

Iteration(program, t, a, b, c) ==
  CASE program = "mt_counter" -> mt_counter(t, a)
    [] program = "st_instant" -> st_instant(t, a)
    [] program = "st_guarded_instant" -> st_guarded_instant(t, a, b, c)
    [] program = "st_complete" -> st_complete(t, a, b)
    [] program = "st_duration" -> st_duration(t, a, b)

Iterate(t) ==
  /\ at[t] = "iterate" /\ iter[t] < num_iters
  /\ iter' = [iter EXCEPT ![t] = @ + 1]
  /\ \E a \in clock .. clock + 1 : \E b \in a .. a + 1 : \E c \in b .. b + 1 :
       LET marked == Iteration(benchmark, t, a, b, c)
       IN  IF traced
           THEN /\ list' = [list EXCEPT ![t] = @ \o marked]
                /\ clock' = Last(marked).ts + Last(marked).dur
           ELSE UNCHANGED <<list, clock>>
  /\ UNCHANGED <<args, at, sink, seen, meta, ms, files>>

(* stop_marker_submission_measurement *)
StopIterating(t) ==
  /\ at[t] = "iterate" /\ iter[t] = num_iters
  /\ Goto(t, "flush")
  /\ Measure(t, "markers_submission")
  /\ UNCHANGED <<args, iter, clock, list, sink, seen, ms, files>>

(* driver::thread_flush.  A sink without a lock is read and written in two *)
(* steps; what another thread does in between is lost.                     *)
Drain(t, found) ==
  /\ sink' = found \o list[t]
  /\ list' = [list EXCEPT ![t] = <<>>]
  /\ Measure(t, "thread_flush")
  /\ Goto(t, IF t = 0 THEN "join" ELSE "exit")

thread_flush(t) ==
  /\ \/ /\ at[t] = "flush" /\ SinkIsThreadSafe
        /\ Drain(t, sink)
        /\ UNCHANGED seen
     \/ /\ at[t] = "flush" /\ ~SinkIsThreadSafe
        /\ seen' = [seen EXCEPT ![t] = sink]
        /\ Goto(t, "link")
        /\ UNCHANGED <<sink, list, meta>>
     \/ /\ at[t] = "link"
        /\ Drain(t, seen[t])
        /\ UNCHANGED seen
  /\ UNCHANGED <<args, iter, clock, ms, files>>

MutantEntry(t) == <<meta[t] @@ [tid |-> t], meta[t] @@ [tid |-> t]>>

(* ~meta of a thread that ends: metas::submit copies it under a mutex; the *)
(* copies are not to submit themselves again.                              *)
Entry(t) ==
  <<[x \in Measurement \cup {"tid"} |-> IF x = "tid" THEN t ELSE meta[t][x]]>>

SubmitMeta(t) == ms' = ms \o Entry(t)

ExitThread(t) ==
  /\ at[t] = "exit"
  /\ SubmitMeta(t)
  /\ Goto(t, "gone")
  /\ UNCHANGED <<args, iter, clock, list, sink, seen, meta, files>>

(* The main thread, when it has joined the workers: global_flush_target.   *)
global_flush_target ==
  /\ at[0] = "join" /\ \A t \in Workers : at[t] = "gone"
  /\ Measure(0, "global_flush_target")
  /\ Goto(0, "global_flush")
  /\ UNCHANGED <<args, iter, clock, list, sink, seen, ms, files>>

(* global_flush: the sink is destroyed and writes its file, unless it has  *)
(* no events.                                                              *)
global_flush ==
  /\ at[0] = "global_flush"
  /\ results_file' = IF sink # <<>> THEN sink ELSE NoFile
  /\ Measure(0, "global_flush")
  /\ Goto(0, "return")
  /\ UNCHANGED <<args, iter, clock, list, sink, seen, ms, meta_file, report>>

(* ~driver flushes again, but not a sink that is gone already. *)
ReturnFromMain ==
  /\ at[0] = "return"
  /\ IF traced THEN UNCHANGED meta ELSE Measure(0, "global_flush")
  /\ Goto(0, "exit")
  /\ UNCHANGED <<args, iter, clock, list, sink, seen, ms, files>>

(* ~metas, a static object's, after ~meta of the main thread. *)
WriteMetaFile ==
  /\ at[0] = "gone" /\ meta_file = NoFile
  /\ meta_file' = [traced |-> traced, num_iters |-> num_iters,
                   num_threads |-> num_threads, thread_perfs |-> ms]
  /\ UNCHANGED <<args, at, iter, clock, list, sink, seen, meta, ms,
                 results_file, report>>

(* process_benchmark: it throws (a report that is not accepted), or        *)
(* reports the measurements and the values of the trace.                   *)
Accepted(perfs, values) == [accepted |-> TRUE, perfs |-> perfs, values |-> values]
Thrown == [accepted |-> FALSE]

process_benchmark ==
  LET perfs == process_benchmark_thread_perfs(meta_file.thread_perfs)
  IN  /\ meta_file # NoFile /\ report = NoFile
      /\ report' =
           IF meta_file.traced # (results_file # NoFile) THEN Thrown
           ELSE IF ~meta_file.traced THEN Accepted(perfs, <<>>)
           ELSE IF ~Required(benchmark, results_file)
                   \/ \E k \in DOMAIN Values(benchmark, results_file) :
                        Values(benchmark, results_file)[k] = <<>>
                THEN Thrown
           ELSE Accepted(perfs, Values(benchmark, results_file))
      /\ UNCHANGED <<args, at, iter, clock, list, sink, seen, meta, ms,
                     results_file, meta_file>>

Next ==
  \/ SpawnWorkers
  \/ \E t \in Tid : \/ thread_reserve(t) \/ Iterate(t) \/ StopIterating(t)
                    \/ thread_flush(t) \/ ExitThread(t)
  \/ global_flush_target \/ global_flush \/ ReturnFromMain
  \/ WriteMetaFile \/ process_benchmark

Spec == Init /\ [][Next]_vars

-----------------------------------------------------------------------------
InOrder(values) ==
  LET reported == write_val_unit_stats(values)
  IN  /\ \A p, q \in DOMAIN reported : p <= q => reported[p] <= reported[q]
      /\ \A j \in DOMAIN values :
           reported[0] <= values[j] /\ values[j] <= reported[10000]

(* A program that made at least two iterations is accepted, whatever its   *)
(* threads did when and however the clock stood still, and every interval  *)
(* of every thread is counted; one that made fewer is refused.  What is    *)
(* reported of the values is in order, from the least to the greatest.     *)
ResultsComplete ==
  report # NoFile =>
    /\ report.accepted <=> ~traced \/ num_iters >= 2
    /\ report.accepted /\ traced =>
         \E k \in DOMAIN report.values :
           Len(report.values[k]) = Cardinality(Tid) * (num_iters - 1)
    /\ report.accepted => \A k \in DOMAIN report.values : InOrder(report.values[k])

(* The meta file has one entry of every thread, the main one's last, and   *)
(* each of them with all that this thread was measured for: a worker's is  *)
(* complete although only its destructor hands it on.                      *)
OneEntryPerThread ==
  meta_file # NoFile =>
    LET perfs == meta_file.thread_perfs
    IN  /\ Len(perfs) = Cardinality(Tid)
        /\ {perfs[k].tid : k \in DOMAIN perfs} = Tid
        /\ Last(perfs).tid = 0 /\ Last(perfs).global_flush > 0
        /\ \A k \in DOMAIN perfs :
             /\ perfs[k].thread_reserve = 1 /\ perfs[k].thread_flush = 1
             /\ perfs[k].markers_submission = 1

(* "there should be exactly one nonzero value" of global_flush: what is    *)
(* reported is that value.                                                 *)
GlobalFlushReported ==
  report # NoFile /\ report.accepted => report.perfs.global_flush > 0
=============================================================================
