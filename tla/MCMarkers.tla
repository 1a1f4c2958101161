------------------------------ MODULE MCMarkers ------------------------------
EXTENDS Markers

MCPointer == {"p"}
MCText == {<<"a", "quote", "backslash", "bell", "newline">>, <<"n">>}
MCCategoryName == [flag \in 0 .. 1 |-> IF flag = 0 THEN <<>> ELSE <<"c">>]

(* A block for every event, the default because nothing or no number is    *)
(* given, the largest int, and two sizes that no block can have.           *)
Env(number, trailing) == [number |-> number, trailing |-> trailing]
OneEach == Env(1, FALSE)
MCBlockSizeEnv ==
  {OneEach, Null, Env(0, TRUE), Env(127, FALSE), Env(256, FALSE),
   Env(40000, FALSE)}
MCRequest == {0, 1}

(* All texts and their changes with one block size, all block sizes with   *)
(* one text that stays.                                                    *)
TextsOrBlocks == env = OneEach \/ text = [p \in Pointer |-> <<"n">>]

Symmetry == Permutations(Thread)
=============================================================================
