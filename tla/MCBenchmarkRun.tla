---------------------------- MODULE MCBenchmarkRun ----------------------------
EXTENDS BenchmarkRun

MCBenchmark == {"mt_counter", "st_instant", "st_guarded_instant",
                "st_complete", "st_duration"}

(* std::sort and an index into what it leaves, for up to four values: the  *)
(* order statistics of sorted_at are these.                                *)
ASSUME SortedAgrees ==
  \A n \in 1 .. 4 : \A values \in [1 .. n -> 0 .. 3] : \A index \in 0 .. n - 1 :
    sorted_at(values, index) = SortSeq(values, LAMBDA a, b : a < b)[index + 1]
=============================================================================
