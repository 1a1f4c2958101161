-------------------------- MODULE EventListIterator --------------------------
(***************************************************************************)
(* list::const_iterator over the lists of EventList, and what a list holds *)
(* seen from outside: the sequence of its events.  With that view the      *)
(* linked nodes implement EventSeqs.                                       *)
(***************************************************************************)
EXTENDS EventList, FiniteSets

(* Addresses are finitely many: size_t counts them. *)
ASSUME HeapIsFinite == IsFiniteSet(Node)

(* For a heap: the events found by following k next pointers from a node. *)
EventsBehind(nodes) ==
  LET behind[k \in 0..Cardinality(Node)] ==
        [n \in Node \cup {Null} |->
           IF k = 0 \/ n = Null THEN <<>>
           ELSE nodes[n].events \o behind[k - 1][nodes[n].next]]
  IN  behind

(* The events of a list, node by node in the order of the next pointers: no *)
(* chain has more nodes than there are addresses.                           *)
Contents(l) == EventsBehind(heap)[Cardinality(Node)][first[l]]

-----------------------------------------------------------------------------
(* get_first_valid_and_nonempty_or_nullptr, as the number of next pointers *)
(* to follow from a node: the fewest that end at a node holding events or  *)
(* at nullptr.                                                             *)
FirstNonEmpty(node) ==
  LET after[k \in 0..Cardinality(Node)] ==
        IF k = 0 THEN node
        ELSE IF after[k - 1] = Null THEN Null ELSE heap[after[k - 1]].next
      stops == {k \in 0..Cardinality(Node) :
                  after[k] = Null \/ heap[after[k]].events # <<>>}
  IN  after[CHOOSE k \in stops : \A j \in stops : k <= j]

(* A const_iterator: a node holding events, and an index into them. *)
Begin(l) == [node |-> FirstNonEmpty(first[l]), index |-> 0]

End == [node |-> Null, index |-> 0]

MutantAdvance(it) ==
  IF it.index + 1 < Len(heap[it.node].events)
  THEN [it EXCEPT !.index = @ + 1]
  ELSE [it EXCEPT !.node = FirstNonEmpty(heap[it.node].next)]

Advance(it) ==
  IF it.index + 1 < Len(heap[it.node].events)
  THEN [it EXCEPT !.index = @ + 1]
  ELSE [node |-> FirstNonEmpty(heap[it.node].next), index |-> 0]

(* operator*: the event and the thread id of the node that holds it. *)
Deref(it) == [thread_id |-> heap[it.node].thread_id,
              event |-> heap[it.node].events[it.index + 1]]

(* What a loop from cbegin() to cend() visits. *)
Visited(l) ==
  LET total == Len(Contents(l))
      it[k \in 0..total] == IF k = 0 THEN Begin(l)
                            ELSE IF it[k - 1].node = Null THEN it[k - 1]
                            ELSE Advance(it[k - 1])
  IN  it

-----------------------------------------------------------------------------
(* A loop from cbegin() to cend() visits every event of a list once, in    *)
(* the order of the list, and then equals cend(), however many reserved    *)
(* but empty nodes lie at the start, in the middle or at the end.          *)
IterationComplete ==
  \A l \in List :
    LET contents == Contents(l)
        it == Visited(l)
    IN  /\ \A k \in 1..Len(contents) :
             it[k - 1].node # Null /\ Deref(it[k - 1]).event = contents[k]
        /\ it[Len(contents)] = End

(* The linked nodes implement sequences: recording appends one event,      *)
(* drain_other moves the whole contents of one list behind those of the    *)
(* other, destroy forgets one list, and reserve changes nothing to see.    *)
Seqs == INSTANCE EventSeqs WITH contents <- [l \in List |-> Contents(l)]

ImplementsSeqs == Seqs!Spec
=============================================================================
