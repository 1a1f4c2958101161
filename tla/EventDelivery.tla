---------------------------- MODULE EventDelivery ----------------------------
(***************************************************************************)
(* What the tree of sinks promises to its users, without any sink between  *)
(* a thread and a file: an event is pending from the moment it is recorded *)
(* until it is written out.  Every file sink writes at most once, what it  *)
(* writes was pending, no event is written twice, the events of one thread *)
(* on one route keep their order, and when the global sink closes the      *)
(* process nothing is pending any more.                                    *)
(***************************************************************************)
EXTENDS Naturals, Sequences, SequencesExt

CONSTANTS Thread, Sink, FileSink, Global, MaxEvents,
          Ordered   (* Threads that flush before they switch.         *)

VARIABLES recorded, pending, written, closed

deliveryVars == <<recorded, pending, written, closed>>

Init ==
  /\ recorded = [t \in Thread |-> 0]
  /\ pending = {}
  /\ written = [f \in FileSink |-> <<>>]
  /\ closed = FALSE

Record(t) ==
  /\ ~closed
  /\ recorded[t] < MaxEvents
  /\ recorded' = [recorded EXCEPT ![t] = @ + 1]
  /\ \E s \in Sink :
       pending' = pending \cup {[by |-> t, nr |-> recorded[t] + 1, to |-> s]}
  /\ UNCHANGED <<written, closed>>

InOrder(batch) ==
  \A i, j \in DOMAIN batch :
    /\ i < j
    /\ batch[i].by = batch[j].by /\ batch[i].by \in Ordered
    /\ batch[i].to = batch[j].to
    => batch[i].nr < batch[j].nr

(* File sink f writes the events it was handed, in one go. *)
WriteOut(f) ==
  LET batch == written'[f]
  IN  /\ ~closed
      /\ written[f] = <<>>
      /\ written' = [written EXCEPT ![f] = batch]
      /\ IsInjective(batch)
      /\ ToSet(batch) \subseteq pending
      /\ InOrder(batch)
      /\ pending' = pending \ ToSet(batch)
      /\ closed' = (f = Global)
      /\ f = Global => pending' = {}
      /\ UNCHANGED recorded

Next ==
  \/ \E t \in Thread : Record(t)
  \/ \E f \in FileSink : WriteOut(f)

Spec == Init /\ [][Next]_deliveryVars
=============================================================================
