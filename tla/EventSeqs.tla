------------------------------ MODULE EventSeqs ------------------------------
(***************************************************************************)
(* What a set of event::list objects promises to the sinks that hold them: *)
(* each list is a sequence of events.  A collector's list grows at its end *)
(* by the events its thread records, draining a list into another moves    *)
(* the whole sequence behind what the other already holds, and destroying  *)
(* a list forgets it.  EventList implements this specification with linked *)
(* nodes; SinkTree uses lists only in this way.                            *)
(***************************************************************************)
EXTENDS Naturals, Sequences

CONSTANTS
  Collector,   (* Lists that events are appended to (event_collector).     *)
  Sink         (* Lists that are only drained into (cascade, file_sink).   *)

List == Collector \cup Sink

VARIABLE contents   (* The events each list holds, oldest first.           *)

(***************************************************************************)
(* The k-th event recorded through collector c is the pair <<c, k>>.       *)
(***************************************************************************)
Event == Collector \X (Nat \ {0})

VARIABLE recorded   (* How many events each collector has recorded.        *)

seqVars == <<contents, recorded>>

Init ==
  /\ contents = [l \in List |-> <<>>]
  /\ recorded = [c \in Collector |-> 0]

Append1(c) ==
  /\ recorded' = [recorded EXCEPT ![c] = @ + 1]
  /\ contents' = [contents EXCEPT ![c] = Append(@, <<c, recorded[c] + 1>>)]

Drain(to, from) ==
  /\ to # from
  /\ UNCHANGED recorded
  /\ contents' = [contents EXCEPT ![to] = @ \o contents[from], ![from] = <<>>]

Destroy(l) ==
  /\ UNCHANGED recorded
  /\ contents' = [contents EXCEPT ![l] = <<>>]

Next ==
  \/ \E c \in Collector : Append1(c)
  \/ \E to, from \in List : Drain(to, from)
  \/ \E l \in List : Destroy(l)

Spec == Init /\ [][Next]_seqVars
=============================================================================
