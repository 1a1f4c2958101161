----------------------------- MODULE MCFileSink -----------------------------
(* The global sink and a local one, which threads may destroy at the same  *)
(* time; one plain file, standard output, a template and two writers.      *)
EXTENDS FileSink, TLC

CONSTANTS gs, ls, f1, tmp1, tmp2, tmp3, w1, w2

MCSink == {gs, ls}
MCFile == {f1}
MCTempFile == {tmp1, tmp2, tmp3}
MCWriter == {w1, w2}

Symmetry == Permutations(MCTempFile) \cup Permutations(MCWriter)
=============================================================================
