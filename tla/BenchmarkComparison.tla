-------------------------- MODULE BenchmarkComparison --------------------------
(***************************************************************************)
(* tools/large_benchmark/comparison: whether one version is faster than    *)
(* another one.  Results of benchmark runs are grouped by measurement, two *)
(* samples for each; a Mann-Whitney U test and the means decide which list *)
(* the measurement is put on.  Ranks, U and variances are doubled or       *)
(* multiplied out, as fractions are not integers; doubles are taken to be  *)
(* exact.                                                                  *)
(***************************************************************************)
EXTENDS Integers, Sequences, FiniteSets, FiniteSetsExt, Functions

CONSTANTS
  Measurement,    (* Keys of the results: all parameters but the library.  *)
  Input,          (* What the two input files may hold (a bound): the      *)
                  (* results of each measurement with each library, in the *)
                  (* order of the file, and if both are the same file.     *)
  CriticalSquare  (* Where p is 0.05: z * z in thousandths, 3841.          *)

Library == {"bare", "cxxet"}
Baseline == 1     (* kind_e, and group in mann_whitney_u_test. *)
Challenger == 2
Group == {Baseline, Challenger}

Results == [Library -> [Measurement -> Seq(Int)]]

ASSUME ComparisonAssumption ==
  /\ \A g \in Input :
       /\ g.same \in BOOLEAN /\ g.baseline \in Results /\ g.challenger \in Results
       /\ g.same => g.baseline = g.challenger
  /\ CriticalSquare \in Nat

Lists == {"probably_equivalent", "probably_challenger_better",
          "probably_challenger_worse", "challenger_missing", "baseline_missing"}

VARIABLES
  given,           (* The input files.                                     *)
  doing,           (* What compare_files or mann_whitney_u_test does.      *)
  results,         (* The two samples of every measurement found.          *)
  todo,            (* Those the loop over results has not reached.         *)
  key,             (* The one that is tested.                              *)
  combined,        (* Both samples sorted: <<value, kind>>.                *)
  ranks,           (* Twice the rank of each value.                        *)
  i,               (* How far a loop over combined is.                     *)
  tie_correction,
  lists,           (* What is written: the measurements of each list.      *)
  counts,          (* The counter that goes with each list.                *)
  cnt              (* The counter of all measurements.                     *)

test == <<key, combined, ranks, i, tie_correction>>
output == <<lists, counts, cnt>>
compare_vars == <<given, doing, results, todo, test, output>>

CompareInit ==
  /\ given \in Input
  /\ doing = "extract"
  /\ results = <<>> /\ todo = {}
  /\ key = "none" /\ combined = <<>> /\ ranks = <<>>
  /\ i = 0 /\ tie_correction = 0
  /\ lists = [l \in Lists |-> {}]
  /\ counts = [l \in Lists |-> 0]
  /\ cnt = 0

-----------------------------------------------------------------------------
(* The results.  One file given twice means "cxxet vs. bare (overhead)".   *)
BaselineLibrary == IF given.same THEN "bare" ELSE "cxxet"

Sample(m) == <<given.baseline[BaselineLibrary][m], given.challenger["cxxet"][m]>>

Extract ==
  /\ doing = "extract"
  /\ results' = [m \in {n \in Measurement : Sample(n) # <<(<<>>), (<<>>)>>} |-> Sample(m)]
  /\ todo' = DOMAIN results'
  /\ doing' = "next"
  /\ UNCHANGED <<given, test, output>>

MutantCounted(list) ==
  /\ counts' = [counts EXCEPT ![list] = @ + 1]
  /\ cnt' = IF list \in {"challenger_missing", "baseline_missing"}
              THEN cnt ELSE cnt + 1

Counted(list) ==
  /\ counts' = [counts EXCEPT ![list] = @ + 1]
  /\ cnt' = cnt + 1

(* A measurement is put on a list; the loop goes on with the next one. *)
Put(m, list) ==
  /\ todo' = todo \ {m}
  /\ lists' = [lists EXCEPT ![list] = @ \cup {m}]
  /\ Counted(list)
  /\ doing' = "next"
  /\ UNCHANGED <<given, results>>

SkipMissing(m) ==
  /\ doing = "next" /\ m \in todo
  /\ \/ results[m][Baseline] = <<>> /\ Put(m, "baseline_missing")
     \/ /\ results[m][Baseline] # <<>> /\ results[m][Challenger] = <<>>
        /\ Put(m, "challenger_missing")
  /\ UNCHANGED test

-----------------------------------------------------------------------------
(* The test.                                                               *)

Size(kind) == Len(results[key][kind])
Total == Len(combined)

(* How many of these places hold this value. *)
Occurs(v, values, places) == Cardinality({k \in places : values[k] = v})

(* What std::sort may make of values, without regard to where they were. *)
Ascending(values) ==
  {s \in [DOMAIN values -> Range(values)] :
     /\ \A j, k \in DOMAIN s : j <= k => s[j] <= s[k]
     /\ \A v \in Range(values) :
          Occurs(v, s, DOMAIN s) = Occurs(v, values, DOMAIN values)}

(* Both samples sorted by value; std::sort leaves equal values in any      *)
(* order, so the places P of the baseline's values are any that fit.       *)
Sorted(m) ==
  LET baseline == results[m][Baseline]
      challenger == results[m][Challenger]
      both == baseline \o challenger
      Fits(P, s) == \A v \in Range(both) :
        Occurs(v, s, P) = Occurs(v, baseline, DOMAIN baseline)
  IN UNION {{[k \in DOMAIN s |->
                <<s[k], IF k \in P THEN Baseline ELSE Challenger>>] :
              P \in {Q \in SUBSET DOMAIN s : Fits(Q, s)}} :
            s \in Ascending(both)}

Test(m) ==
  /\ doing = "next" /\ m \in todo
  /\ \A kind \in Group : results[m][kind] # <<>>
  /\ key' = m
  /\ combined' \in Sorted(m)
  /\ ranks' = <<>> /\ i' = 0 /\ tie_correction' = 0
  /\ doing' = "rank"
  /\ UNCHANGED <<given, results, todo, output>>

(* The inner loops: the end j of the values equal to the one after i. *)
EndOfTies ==
  CHOOSE j \in i + 1 .. Total :
    /\ \A k \in i + 1 .. j : combined[k][1] = combined[i + 1][1]
    /\ j < Total => combined[j + 1][1] # combined[i + 1][1]

MutantTwiceRankOfFirst(j) == 2 * (i + 1)

TwiceRank(j) == i + 1 + j

RankTies ==
  /\ doing = "rank" /\ i < Total
  /\ LET j == EndOfTies IN
       /\ ranks' = ranks \o [k \in 1 .. j - i |-> TwiceRank(j)]
       /\ i' = j
  /\ UNCHANGED <<given, doing, results, todo, key, combined, tie_correction,
                 output>>

EndRanks ==
  /\ doing = "rank" /\ i = Total
  /\ doing' = "correct" /\ i' = 0
  /\ UNCHANGED <<given, results, todo, key, combined, ranks, tie_correction,
                 output>>

MutantTieTerm(t) == t * t - t

TieTerm(t) == IF t > 1 THEN t * t * t - t ELSE 0

CorrectTies ==
  /\ doing = "correct" /\ i < Total
  /\ LET j == EndOfTies IN
       /\ tie_correction' = tie_correction + TieTerm(j - i)
       /\ i' = j
  /\ UNCHANGED <<given, doing, results, todo, key, combined, ranks, output>>

TwiceR(kind) ==
  MapThenSumSet(LAMBDA k : ranks[k], {k \in 1 .. Total : combined[k][2] = kind})

(* U1 and U2 *)
TwiceU(kind) ==
  2 * Size(Baseline) * Size(Challenger) + Size(kind) * (Size(kind) + 1)
  - TwiceR(kind)

MinTwiceU ==
  IF TwiceU(Baseline) < TwiceU(Challenger) THEN TwiceU(Baseline)
  ELSE TwiceU(Challenger)

(* std_U ^ 2 is this over Scale, and so is a quarter of this the variance  *)
(* of the doubled U.                                                       *)
ScaledVariance ==
  Size(Baseline) * Size(Challenger)
  * ((Total + 1) * Total * (Total - 1) - tie_correction)
Scale == 12 * Total * (Total - 1)

(* z ^ 2 = (U - mean_U) ^ 2 / std_U ^ 2, or NaN: std_U is 0 if all values  *)
(* are the same, U then being mean_U.                                      *)
IsNaN == ScaledVariance = 0

(* p_value <= p_threshold, which NaN does not satisfy. *)
ProbablyDifferent ==
  LET distance == MinTwiceU - Size(Baseline) * Size(Challenger)
  IN /\ ~IsNaN
     /\ 1000 * distance * distance * Scale >= 4 * CriticalSquare * ScaledVariance

SumOf(values) == MapThenSumSet(LAMBDA k : values[k], DOMAIN values)

(* stats_challenger.mean < stats_baseline.mean *)
ChallengerBetter ==
  SumOf(results[key][Challenger]) * Size(Baseline)
    < SumOf(results[key][Baseline]) * Size(Challenger)

Decide ==
  /\ doing = "correct" /\ i = Total
  /\ \/ ~ProbablyDifferent /\ Put(key, "probably_equivalent")
     \/ ProbablyDifferent /\ ChallengerBetter /\ Put(key, "probably_challenger_better")
     \/ ProbablyDifferent /\ ~ChallengerBetter /\ Put(key, "probably_challenger_worse")
  /\ UNCHANGED test

Summarise ==
  /\ doing = "next" /\ todo = {}
  /\ doing' = "done"
  /\ UNCHANGED <<given, results, todo, test, output>>

CompareNext ==
  \/ Extract
  \/ \E m \in Measurement : SkipMissing(m) \/ Test(m)
  \/ RankTies \/ EndRanks \/ CorrectTies \/ Decide
  \/ Summarise

CompareSpec == CompareInit /\ [][CompareNext]_compare_vars
-----------------------------------------------------------------------------
(* What the rank sums are for: U1 and U2 count the pairs of a value of     *)
(* this sample and a larger one of the other, equal ones as halves,        *)
(* whatever order the sort left equal values in.                           *)
PairsCounted ==
  doing = "correct" =>
    \A kind \in Group :
      LET own == results[key][kind]
          other == results[key][3 - kind]
          Pairs == (DOMAIN own) \X (DOMAIN other)
      IN TwiceU(kind) = 2 * Cardinality({p \in Pairs : own[p[1]] < other[p[2]]})
                        + Cardinality({p \in Pairs : own[p[1]] = other[p[2]]})

(* std_U with its correction is the exact deviation of U over all ways to  *)
(* deal the values found to two samples of these sizes.                    *)
ExactVariance ==
  doing = "correct" /\ i = Total =>
    LET n1 == Size(Baseline)
        n2 == Size(Challenger)
        Deals == kSubset(n1, 1 .. Total)
        Twice(P) == MapThenSumSet(LAMBDA k : ranks[k], P) - n1 * (n1 + 1)
        distance(P) == Twice(P) - n1 * n2
    IN MapThenSumSet(LAMBDA P : distance(P) * distance(P), Deals) * Scale
         = 4 * Cardinality(Deals) * ScaledVariance

(* Every measurement found in either file is put on exactly one list, the  *)
(* counters the percentages are computed from agree with the lists, and    *)
(* add up to the total.  Samples that are all the same value, where        *)
(* z_score divides zero by zero, are not on a list of different ones.      *)
EachOnce ==
  doing = "done" =>
    /\ UNION {lists[l] : l \in Lists} = DOMAIN results
    /\ \A l, o \in Lists : l # o => lists[l] \cap lists[o] = {}
    /\ \A l \in Lists : counts[l] = Cardinality(lists[l])
    /\ cnt = MapThenSumSet(LAMBDA l : counts[l], Lists)
    /\ \A m \in lists["probably_challenger_better"]
                 \cup lists["probably_challenger_worse"] :
         Cardinality(UNION {{results[m][kind][k] : k \in DOMAIN results[m][kind]} :
                              kind \in Group}) > 1
=============================================================================
