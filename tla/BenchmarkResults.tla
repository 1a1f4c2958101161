--------------------------- MODULE BenchmarkResults ---------------------------
(***************************************************************************)
(* tools/large_benchmark: what result_processor.cxx makes of the two files *)
(* a benchmark program leaves behind, and the percentiles of statistics.   *)
(* An event is a record of the fields the processor looks at; times are    *)
(* whole nanoseconds (the doubles' rounding, mean and stddev are left out).*)
(***************************************************************************)
EXTENDS Integers, Sequences, FiniteSets, SequencesExt

CONSTANT
  cnt_for_all_percentiles   (* With fewer values, 50 in the code, the outer *)
                            (* percentiles are not reported.                *)

-----------------------------------------------------------------------------
(* percentile_index, p in hundredths of a percent: rounded to the nearest. *)
percentile_index(n, p) == (2 * p * (n - 1) + 10000) \div 20000

(* The static_asserts of statistics.cxx: index by percentile and n. *)
StaticAsserts ==
  [n \in {50, 51, 100, 1000, 10000} |->
     CASE n = 50 -> {<<0, 0>>, <<100, 0>>, <<200, 1>>, <<2400, 12>>, <<2500, 12>>,
            <<2600, 13>>, <<4900, 24>>, <<5000, 25>>, <<5100, 25>>, <<7400, 36>>,
            <<7500, 37>>, <<7600, 37>>, <<9800, 48>>, <<9900, 49>>, <<10000, 49>>}
       [] n = 51 -> {<<0, 0>>, <<100, 1>>, <<200, 1>>, <<2400, 12>>, <<2500, 13>>,
            <<2600, 13>>, <<4900, 25>>, <<5000, 25>>, <<5100, 26>>, <<7400, 37>>,
            <<7500, 38>>, <<7600, 38>>, <<9800, 49>>, <<9900, 50>>, <<10000, 50>>}
       [] n = 100 -> {<<0, 0>>, <<100, 1>>, <<200, 2>>, <<2400, 24>>, <<2500, 25>>,
            <<2600, 26>>, <<4900, 49>>, <<5000, 50>>, <<5100, 50>>, <<7400, 73>>,
            <<7500, 74>>, <<7600, 75>>, <<9800, 97>>, <<9900, 98>>, <<10000, 99>>}
       [] n = 1000 -> {<<0, 0>>, <<100, 10>>, <<200, 20>>, <<2490, 249>>,
            <<2500, 250>>, <<2510, 251>>, <<4990, 499>>, <<5000, 500>>,
            <<5010, 500>>, <<7490, 748>>, <<7500, 749>>, <<7510, 750>>,
            <<9800, 979>>, <<9900, 989>>, <<10000, 999>>}
       [] OTHER -> {<<0, 0>>, <<100, 100>>, <<200, 200>>, <<2499, 2499>>,
            <<2500, 2500>>, <<2501, 2501>>, <<4999, 4999>>, <<5000, 5000>>,
            <<5001, 5000>>, <<7499, 7498>>, <<7500, 7499>>, <<7501, 7500>>,
            <<9800, 9799>>, <<9900, 9899>>, <<10000, 9999>>}]

ASSUME PercentilesAsAsserted ==
  \A n \in DOMAIN StaticAsserts : \A a \in StaticAsserts[n] :
    percentile_index(n, a[1]) = a[2]

(* What is at an index, from 0, of the sorted values: the least of them    *)
(* that more than this number of them do not exceed.                       *)
sorted_at(values, index) ==
  Min({v \in Range(values) :
         Cardinality({j \in DOMAIN values : values[j] <= v}) > index})

(* stats::compute_from, not called with no values: it throws then. *)
compute_from(values, percentiles) ==
  [p \in percentiles |-> sorted_at(values, percentile_index(Len(values), p))]

(* write_val_unit_stats: which percentiles come after mean and stddev. *)
Percentiles(values) ==
  {0, 2500, 5000, 7500, 10000}
    \cup (IF Len(values) >= cnt_for_all_percentiles THEN {200, 9800} ELSE {})

write_val_unit_stats(values) == compute_from(values, Percentiles(values))

-----------------------------------------------------------------------------
(* process_benchmark_thread_perfs: what is reported of each of the six     *)
(* measurements, in an order that is that of the entries.                  *)
Measurement == {"thread_reserve", "set_thread_name", "markers_submission",
                "thread_flush", "global_flush_target", "global_flush"}
GlobalMeasurement == {"global_flush_target", "global_flush"}

process_benchmark_thread_perfs(thread_perfs) ==
  [name \in Measurement |->
     LET vals == [k \in DOMAIN thread_perfs |-> thread_perfs[k][name]]
     IN  IF name \notin GlobalMeasurement /\ Len(vals) > 1
         THEN write_val_unit_stats(vals) ELSE vals[1]]

-----------------------------------------------------------------------------
(* value_diffs_collector: of a sequence of <<begin, end>> it wants each    *)
(* begin not before the previous end, and keeps the differences.           *)
monotonic(spans) == \A k \in 1 .. Len(spans) - 1 : spans[k][2] <= spans[k + 1][1]
get_diffs(spans) ==
  [k \in 1 .. Len(spans) - 1 |-> spans[k + 1][1] - spans[k][2]]

Instants(events) == [k \in DOMAIN events |-> <<events[k].ts, events[k].ts>>]
Completes(events) ==
  [k \in DOMAIN events |-> <<events[k].ts, events[k].ts + events[k].dur>>]
Lengths(spans) == [k \in DOMAIN spans |-> spans[k][2] - spans[k][1]]

AllAre(events, ph, name) ==
  \A k \in DOMAIN events : events[k].ph = ph /\ events[k].name = name

Odd(events) == [k \in 1 .. (Len(events) + 1) \div 2 |-> events[2 * k - 1]]
Even(events) == [k \in 1 .. Len(events) \div 2 |-> events[2 * k]]

Tids(events) == {events[k].tid : k \in DOMAIN events}

(* thread_timestamps[tid], to which the loop over the events adds. *)
OfThread(events, tid) ==
  LET added[k \in 0 .. Len(events)] ==
        IF k = 0 THEN <<>>
        ELSE IF events[k].tid = tid THEN Append(added[k - 1], events[k])
        ELSE added[k - 1]
  IN  added[Len(events)]

(* process_benchmark_raw_results: what it requires of the events, and the  *)
(* values it then hands to compute_from.                                   *)
CounterRequired(events) ==
  /\ AllAre(events, "C", "Counter")
  /\ \A t \in Tids(events) : /\ monotonic(Instants(OfThread(events, t)))
                             /\ Len(OfThread(events, t)) > 1
CounterValues(events) ==
  <<FlattenSeq(LET tids == SetToSeq(Tids(events))
               IN  [k \in DOMAIN tids |->
                      get_diffs(Instants(OfThread(events, tids[k])))])>>

InstantRequired(events) ==
  /\ Len(events) >= 2
  /\ AllAre(events, "i", "some instant ...")
  /\ monotonic(Instants(events))
InstantValues(events) == <<get_diffs(Instants(events))>>

GuardedRequired(events) ==
  LET instants == Odd(events)
      guards == Completes(Even(events))
  IN  /\ Len(events) > 0 /\ Len(events) % 2 = 0
      /\ AllAre(instants, "i", "some instant ...")
      /\ AllAre(Even(events), "X", "complete over instant event")
      /\ \A k \in DOMAIN guards :
           guards[k][1] <= instants[k].ts /\ instants[k].ts <= guards[k][2]
      /\ monotonic(guards)
GuardedValues(events) ==
  LET guards == Completes(Even(events))
      fromCenter(k) == 2 * Odd(events)[k].ts - (guards[k][1] + guards[k][2])
  IN  <<Lengths(guards), get_diffs(guards), [k \in DOMAIN guards |-> fromCenter(k)]>>

CompleteRequired(events) ==
  /\ Len(events) > 1
  /\ AllAre(events, "X", "complete ...")
  /\ monotonic(Completes(events))
CompleteValues(events) ==
  <<Lengths(Completes(events)), get_diffs(Completes(events))>>

Durations(events) ==
  [k \in DOMAIN Even(events) |-> <<Odd(events)[k].ts, Even(events)[k].ts>>]
DurationRequired(events) ==
  LET begins == Odd(events)
  IN  /\ Len(events) > 0 /\ Len(events) % 2 = 0
      /\ AllAre(begins, "B", "begin marker ...")
      /\ \A k \in DOMAIN Even(events) :
           Even(events)[k].ph = "E" /\ begins[k].ts <= Even(events)[k].ts
      /\ monotonic(Durations(events))
DurationValues(events) ==
  <<Lengths(Durations(events)), get_diffs(Durations(events))>>

(* The branch for each benchmark_name. *)
Required(benchmark_name, events) ==
  CASE benchmark_name = "mt_counter" -> CounterRequired(events)
    [] benchmark_name = "st_instant" -> InstantRequired(events)
    [] benchmark_name = "st_guarded_instant" -> GuardedRequired(events)
    [] benchmark_name = "st_complete" -> CompleteRequired(events)
    [] benchmark_name = "st_duration" -> DurationRequired(events)

Values(benchmark_name, events) ==
  CASE benchmark_name = "mt_counter" -> CounterValues(events)
    [] benchmark_name = "st_instant" -> InstantValues(events)
    [] benchmark_name = "st_guarded_instant" -> GuardedValues(events)
    [] benchmark_name = "st_complete" -> CompleteValues(events)
    [] benchmark_name = "st_duration" -> DurationValues(events)
=============================================================================
