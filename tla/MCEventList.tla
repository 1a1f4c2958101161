----------------------------- MODULE MCEventList -----------------------------
(* Two threads; thread t1 has two collectors, one of which only holds what *)
(* it was drained or reserves, thread t2 has one; one sink takes from all. *)
EXTENDS EventListIterator, TLC

CONSTANTS t1, t2, c1, d1, c2, s, n1, n2, n3

MCThread == {t1, t2}
MCCollector == {c1, d1, c2}
MCSink == {s}
MCThreadOf == c1 :> t1 @@ d1 :> t1 @@ c2 :> t2
MCMaxEvents == c1 :> 2 @@ d1 :> 0 @@ c2 :> 1
MCNode == {n1, n2, n3}
MCRequest == {0, 2}

NodeSymmetry == Permutations(MCNode)
=============================================================================
