------------------------------ MODULE MCSinkChain ------------------------------
(* Two threads and, besides the global sink, two thread-safe cascades and  *)
(* a local thread-unsafe file sink, each cascade made with any parent      *)
(* there is: chains of length three, siblings, and sinks shared by both    *)
(* threads, at once or, the unsafe one, in turn.                           *)
EXTENDS SinkTree, TLC

CONSTANTS t1, t2, g, f, c, d

Symmetry == Permutations({t1, t2}) \cup Permutations({c, d})
=============================================================================
