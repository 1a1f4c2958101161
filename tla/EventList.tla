------------------------------ MODULE EventList ------------------------------
(***************************************************************************)
(* impl::event::list: a singly linked list of nodes, each an array of one  *)
(* header (thread id of the creator, next, size, capacity) and capacity    *)
(* events.  The lists of all sinks of a process share one heap.  An        *)
(* operation on a list is atomic here: SinkTree shows that no two threads  *)
(* are ever inside operations on the same list.                            *)
(***************************************************************************)
EXTENDS Integers, Sequences

CONSTANTS
  Node,             (* Addresses new raw_element[] can return (a bound).   *)
  Null,             (* nullptr.                                            *)
  Thread,           (* Values of get_thread_id().                          *)
  Collector,        (* Lists of event_collectors.                          *)
  Sink,             (* Lists of cascades and file sinks.                   *)
  ThreadOf,         (* The thread that owns each collector.                *)
  Request,          (* Arguments event_collector::reserve is called with.  *)
  DefaultCapacity,  (* properties::default_list_node_capacity.             *)
  MaxEvents         (* Events each collector may record (a bound).         *)

List == Collector \cup Sink

ASSUME ListAssumption ==
  /\ Null \notin Node
  /\ Null \notin Thread
  /\ Collector \cap Sink = {}
  /\ ThreadOf \in [Collector -> Thread]
  /\ Request \subseteq Int
  /\ DefaultCapacity \in Nat \ {0}
  /\ MaxEvents \in [Collector -> Nat]

VARIABLES
  heap,                   (* Contents of each address.                     *)
  first, last,            (* The two members of each list.                 *)
  default_node_capacity,  (* Member of each event_collector.               *)
  recorded                (* Events recorded so far, numbers the events.   *)

vars == <<heap, first, last, default_node_capacity, recorded>>

(* The k-th event recorded through collector c is the pair <<c, k>>. *)
Event == Collector \X (Nat \ {0})

(* An address is allocated exactly while its capacity is positive: the     *)
(* constructor asserts capacity > 0.                                       *)
Unallocated ==
  [thread_id |-> Null, next |-> Null, capacity |-> 0, events |-> <<>>]

Allocated == {n \in Node : heap[n].capacity > 0}

Init ==
  /\ heap = [n \in Node |-> Unallocated]
  /\ first = [l \in List |-> Null]
  /\ last = [l \in List |-> Null]
  /\ default_node_capacity = [c \in Collector |-> DefaultCapacity]
  /\ recorded = [c \in Collector |-> 0]

-----------------------------------------------------------------------------
MutantFreeCapacity(l) ==
  IF last[l] = Null THEN 0
  ELSE heap[last[l]].capacity - Len(heap[last[l]].events) + 1

(* get_current_free_capacity *)
FreeCapacity(l) ==
  IF last[l] = Null THEN 0
  ELSE heap[last[l]].capacity - Len(heap[last[l]].events)

(* The nodes next pointers lead to from first: the least set that contains *)
(* first and is closed under next.                                         *)
ClosedUnderNext(S) ==
  \A n \in S : heap[n].next # Null => heap[n].next \in S

Nodes(l) ==
  {n \in Node : \A S \in SUBSET Node :
     (first[l] # Null => first[l] \in S) /\ ClosedUnderNext(S) => n \in S}

(* new_elems and the linking in reserve: node n, created by the calling    *)
(* thread, becomes the last one of collector c and already holds evts.     *)
LinkNode(c, n, capacity, evts) ==
  LET node == [thread_id |-> ThreadOf[c], next |-> Null,
               capacity |-> capacity, events |-> evts]
  IN  /\ heap[n] = Unallocated
      /\ heap' = IF last[c] = Null THEN [heap EXCEPT ![n] = node]
                 ELSE [heap EXCEPT ![n] = node, ![last[c]].next = n]
      /\ first' = [first EXCEPT ![c] = IF last[c] = Null THEN n ELSE @]
      /\ last' = [last EXCEPT ![c] = n]

(* event_collector::reserve, which also sets the size of later nodes. *)
Reserve(c, minimum_free_capacity) ==
  LET capacity == IF minimum_free_capacity <= 0
                  THEN DefaultCapacity ELSE minimum_free_capacity
  IN  /\ default_node_capacity' = [default_node_capacity EXCEPT ![c] = capacity]
      /\ \/ /\ FreeCapacity(c) >= capacity
            /\ UNCHANGED <<heap, first, last>>
         \/ /\ FreeCapacity(c) < capacity
            /\ \E n \in Node : LinkNode(c, n, capacity, <<>>)
      /\ UNCHANGED recorded

(* event_collector::append_event = list::safe_append: the event goes into  *)
(* the last node, or into a new one when that one is full.  Nothing is     *)
(* flushed then.                                                           *)
AppendEvent(c) ==
  LET event == <<c, recorded[c] + 1>>
  IN  /\ recorded[c] < MaxEvents[c]
      /\ recorded' = [recorded EXCEPT ![c] = @ + 1]
      /\ \/ /\ FreeCapacity(c) >= 1
            /\ heap' = [heap EXCEPT ![last[c]].events = Append(@, event)]
            /\ UNCHANGED <<first, last>>
         \/ /\ FreeCapacity(c) < 1
            /\ \E n \in Node : LinkNode(c, n, default_node_capacity[c], <<event>>)
      /\ UNCHANGED default_node_capacity

-----------------------------------------------------------------------------
MutantMayDrain(to, from) == TRUE

(* Who may be drained into a list.  A collector appends to whatever node   *)
(* it ends with, so only another collector of the same thread is drained   *)
(* into it; a sink takes from any list.                                    *)
MayDrain(to, from) ==
  to \in Collector => from \in Collector /\ ThreadOf[from] = ThreadOf[to]

(* Forgets to take over other's last node. *)
MutantDrainOther(to, from) ==
  \/ /\ last[to] # Null
     /\ last[from] # Null
     /\ heap' = [heap EXCEPT ![last[to]].next = first[from]]
     /\ first' = [first EXCEPT ![from] = Null]
     /\ last' = [last EXCEPT ![from] = Null]
  \/ /\ last[to] = Null
     /\ first' = [first EXCEPT ![to] = first[from], ![from] = first[to]]
     /\ last' = [last EXCEPT ![to] = last[from], ![from] = last[to]]
     /\ UNCHANGED heap

(* Splices in front instead of behind. *)
MutantDrainOtherInFront(to, from) ==
  \/ /\ last[to] # Null
     /\ last[from] # Null
     /\ heap' = [heap EXCEPT ![last[from]].next = first[to]]
     /\ first' = [first EXCEPT ![to] = first[from], ![from] = Null]
     /\ last' = [last EXCEPT ![from] = Null]
  \/ /\ last[to] = Null
     /\ first' = [first EXCEPT ![to] = first[from], ![from] = first[to]]
     /\ last' = [last EXCEPT ![to] = last[from], ![from] = last[to]]
     /\ UNCHANGED heap

(* list::drain_other: splice behind the last node, or swap when this list  *)
(* has no node at all.  A list without nodes has nothing to give, its      *)
(* nodes otherwise all move, the empty ones too.                           *)
DrainOther(to, from) ==
  \/ /\ last[to] # Null
     /\ last[from] # Null
     /\ heap' = [heap EXCEPT ![last[to]].next = first[from]]
     /\ first' = [first EXCEPT ![from] = Null]
     /\ last' = [last EXCEPT ![to] = last[from], ![from] = Null]
  \/ /\ last[to] # Null
     /\ last[from] = Null
     /\ UNCHANGED <<heap, first, last>>
  \/ /\ last[to] = Null
     /\ first' = [first EXCEPT ![to] = first[from], ![from] = first[to]]
     /\ last' = [last EXCEPT ![to] = last[from], ![from] = last[to]]
     /\ UNCHANGED heap

Drain(to, from) ==
  /\ to # from
  /\ MayDrain(to, from)
  /\ DrainOther(to, from)
  /\ UNCHANGED <<default_node_capacity, recorded>>

(* list::destroy, run by ~list and by file_sink::write_out_events. *)
Destroy(l) ==
  /\ first' = [first EXCEPT ![l] = Null]
  /\ last' = [last EXCEPT ![l] = Null]
  /\ heap' = [n \in Node |-> IF n \in Nodes(l) THEN Unallocated ELSE heap[n]]
  /\ UNCHANGED <<default_node_capacity, recorded>>

Next ==
  \/ \E c \in Collector, r \in Request : Reserve(c, r)
  \/ \E c \in Collector : AppendEvent(c)
  \/ \E to, from \in List : Drain(to, from)
  \/ \E l \in List : Destroy(l)

Spec == Init /\ [][Next]_vars
-----------------------------------------------------------------------------
(* Every field has its type; a node never holds more events than fit, which *)
(* is push_any's assert; a list has a first node exactly when it has a last *)
(* one, which is what reserve and drain_other assert.                       *)
TypeOK ==
  /\ heap \in [Node -> [thread_id : Thread \cup {Null},
                        next : Node \cup {Null},
                        capacity : Nat,
                        events : Seq(Event)]]
  /\ \A n \in Node : Len(heap[n].events) <= heap[n].capacity
  /\ first \in [List -> Node \cup {Null}]
  /\ last \in [List -> Node \cup {Null}]
  /\ \A l \in List : (first[l] = Null) <=> (last[l] = Null)
  /\ default_node_capacity \in [Collector -> Nat \ {0}]
  /\ recorded \in [Collector -> Nat]

(* No leak, no use of freed memory and no double free, however reserve,    *)
(* append, drain_other and destroy follow each other: every allocated node *)
(* belongs to exactly one list, no list reaches a freed node, and each     *)
(* list's last is the node its next pointers end at.                       *)
OwnedOnce ==
  /\ Allocated = UNION {Nodes(l) : l \in List}
  /\ \A l, m \in List : l # m => Nodes(l) \cap Nodes(m) = {}
  /\ \A l \in List : last[l] # Null =>
       last[l] \in Nodes(l) /\ heap[last[l]].next = Null

(* The thread id in a node's header, which the output attributes the       *)
(* node's events to, is the thread that recorded every one of them, also   *)
(* after the node was spliced from list to list by other threads.          *)
Attribution ==
  \A n \in Node : \A i \in DOMAIN heap[n].events :
    heap[n].thread_id = ThreadOf[heap[n].events[i][1]]
=============================================================================
