----------------------------- MODULE MCComparison -----------------------------
(* One measurement with up to three results of three values on each side,  *)
(* and one that may be missing; two files, or one file with both libraries. *)
EXTENDS BenchmarkComparison, TLC

CONSTANTS m1, m2

MCMeasurement == {m1, m2}

Falling(n) ==
  {s \in [1 .. n -> 0 .. 2] : \A k \in 1 .. n - 1 : s[k] >= s[k + 1]}

FirstSample == UNION {Falling(n) : n \in 0 .. 3}
SecondSample == {<<>>, <<1>>}
PerLibrary == {m1 :> f @@ m2 :> s : f \in FirstSample, s \in SecondSample}
Ignored == m1 :> <<7>> @@ m2 :> <<>>

File(bare, cxxet) == "bare" :> bare @@ "cxxet" :> cxxet

MCInput ==
  {[same |-> TRUE, baseline |-> File(b, c), challenger |-> File(b, c)] :
     b, c \in PerLibrary}
  \cup
  {[same |-> FALSE, baseline |-> File(Ignored, b), challenger |-> File(Ignored, c)] :
     b, c \in PerLibrary}
=============================================================================
