------------------------------ MODULE MCSinkTree ------------------------------
(* Two threads, the global sink, and a thread-safe cascade that either     *)
(* thread makes, diverts to, flushes and destroys; t1 flushes before it    *)
(* switches, t2 may switch with events still pending.  No symmetry: some   *)
(* of the properties are about what happens in the end.                    *)
EXTENDS SinkTree

CONSTANTS t1, t2, g, c
=============================================================================
