---------------------------- MODULE EventListProofs ----------------------------
(***************************************************************************)
(* Proofs about EventList and EventListIterator, for any number of lists   *)
(* and threads and a heap of any finite size: nodes are neither leaked nor *)
(* shared nor used after they were freed, and each keeps to events of the  *)
(* thread in its header; the linked nodes implement the sequences of       *)
(* EventSeqs, and an iteration visits each event once.                     *)
(***************************************************************************)
EXTENDS EventListIterator, TLAPS, SequenceTheorems, FiniteSetTheorems,
        IterationTheorems

USE ListAssumption DEF List

(* A chain of nodes ends at last, and only there. *)
ChainOK ==
  \A l \in List :
    /\ last[l] # Null => last[l] \in Nodes(l)
    /\ \A n \in Nodes(l) : heap[n].next = Null <=> n = last[l]

HeapOK ==
  /\ \A n \in Node : heap[n].capacity = 0 => heap[n] = Unallocated
  /\ \A l \in List : Nodes(l) \subseteq Allocated
  /\ \A n \in Allocated : \E l \in List : n \in Nodes(l)
  /\ \A l, m \in List : l # m => Nodes(l) \cap Nodes(m) = {}

(* The nodes of a collector were all created by its thread. *)
CreatorOK ==
  \A c \in Collector : \A n \in Nodes(c) : heap[n].thread_id = ThreadOf[c]

LInv == TypeOK /\ ChainOK /\ HeapOK /\ CreatorOK /\ Attribution

-----------------------------------------------------------------------------
(* Chains, apart from lists: what next pointers nx lead to from node f.    *)
Closed(S, nx) == \A n \in S : nx[n] # Null => nx[n] \in S

Reach(f, nx) ==
  {n \in Node : \A S \in SUBSET Node : (f # Null => f \in S) /\ Closed(S, nx) => n \in S}

Pointers == [Node -> Node \cup {Null}]

LEMMA ReachLeast ==
  ASSUME NEW f, NEW nx, NEW S \in SUBSET Node, f # Null => f \in S, Closed(S, nx)
  PROVE  Reach(f, nx) \subseteq S
  BY DEF Reach

LEMMA ReachFirst ==
  ASSUME NEW f \in Node, NEW nx
  PROVE  f \in Reach(f, nx)
  BY DEF Reach

LEMMA ReachNext ==
  ASSUME NEW f, NEW nx \in Pointers
  PROVE  Reach(f, nx) \in SUBSET Node /\ Closed(Reach(f, nx), nx)
  BY DEF Reach, Closed, Pointers

LEMMA ReachNone ==
  ASSUME NEW nx
  PROVE  Reach(Null, nx) = {}
  <1>1. Closed({}, nx)
    BY DEF Closed
  <1> QED
    BY <1>1, ReachLeast

(* A node on its own. *)
LEMMA ReachSingle ==
  ASSUME NEW f \in Node, NEW nx, nx[f] = Null
  PROVE  Reach(f, nx) = {f}
  <1>1. Closed({f}, nx)
    BY DEF Closed
  <1> QED
    BY <1>1, ReachLeast, ReachFirst

(* A chain is not changed by what happens to other nodes. *)
LEMMA ReachFrame ==
  ASSUME NEW f \in Node \cup {Null}, NEW nx \in Pointers, NEW ny \in Pointers,
         \A n \in Reach(f, nx) : ny[n] = nx[n]
  PROVE  Reach(f, ny) = Reach(f, nx)
  <1> DEFINE R == Reach(f, nx)
  <1>1. R \in SUBSET Node /\ Closed(R, nx) /\ (f # Null => f \in R)
    BY ReachNext, ReachFirst
  <1>2. Closed(R, ny)
    BY <1>1 DEF Closed
  <1>3. Reach(f, ny) \subseteq R
    <2> HIDE DEF R
    <2> QED
      BY <1>1, <1>2, ReachLeast
  <1>4. ASSUME NEW S \in SUBSET Node, f # Null => f \in S, Closed(S, ny)
        PROVE  R \subseteq S
    <2>1. Closed(S \cap R, nx)
      BY <1>1, <1>4 DEF Closed
    <2>2. f # Null => f \in S \cap R
      BY <1>1, <1>4
    <2>3. R \subseteq S \cap R
      <3> DEFINE T == S \cap R
      <3>1. T \in SUBSET Node /\ Closed(T, nx) /\ (f # Null => f \in T)
        BY <1>4, <2>1, <2>2
      <3> HIDE DEF T
      <3>2. Reach(f, nx) \subseteq T
        BY <3>1, ReachLeast
      <3> QED
        BY <3>2 DEF T
    <2> QED
      BY <2>3
  <1>5. R \subseteq Reach(f, ny)
    BY <1>1, <1>4 DEF Reach
  <1> QED
    BY <1>3, <1>5

(* A chain that ended at e goes on with that of b. *)
LEMMA ReachJoin ==
  ASSUME NEW a \in Node, NEW b \in Node, NEW nx \in Pointers, NEW ny \in Pointers,
         NEW e \in Reach(a, nx), nx[e] = Null, e \notin Reach(b, nx),
         ny[e] = b, \A n \in Node \ {e} : ny[n] = nx[n]
  PROVE  Reach(a, ny) = Reach(a, nx) \cup Reach(b, nx)
  <1> DEFINE A == Reach(a, nx)
             B == Reach(b, nx)
  <1>1. /\ A \in SUBSET Node /\ Closed(A, nx) /\ a \in A
        /\ B \in SUBSET Node /\ Closed(B, nx) /\ b \in B
        /\ e \in A /\ e \notin B /\ e \in Node
    BY ReachNext, ReachFirst
  <1>2. ny[e] = b /\ \A n \in Node \ {e} : ny[n] = nx[n]
    OBVIOUS
  <1>3. Reach(a, ny) \subseteq A \cup B
    <2> DEFINE T == A \cup B
    <2>1. Closed(T, ny) /\ T \in SUBSET Node /\ a \in T
      BY <1>1, <1>2 DEF Closed
    <2> HIDE DEF T
    <2>2. Reach(a, ny) \subseteq T
      BY <2>1, ReachLeast
    <2> QED
      BY <2>2 DEF T
  <1>4. ASSUME NEW S \in SUBSET Node, a \in S, Closed(S, ny)
        PROVE  A \subseteq S /\ B \subseteq S
    <2>1. Closed(S, nx)
      BY <1>2, <1>4 DEF Closed
    <2>2. A \subseteq S
      BY <1>4, <2>1, ReachLeast
    <2>3. b \in S
      BY <1>1, <1>2, <1>4, <2>2 DEF Closed
    <2> QED
      BY <2>1, <2>2, <2>3, ReachLeast
  <1>5. A \cup B \subseteq Reach(a, ny)
    <2> HIDE DEF A, B
    <2> QED
      BY <1>1, <1>4 DEF Reach
  <1> QED
    BY <1>3, <1>5

(* The nodes of a list are a chain. *)
NextOf == [n \in Node |-> heap[n].next]

LEMMA NodesReach ==
  ASSUME NEW l \in List
  PROVE  /\ Nodes(l) = Reach(first[l], NextOf)
         /\ Nodes(l)' = Reach(first'[l], NextOf')
  BY DEF Nodes, ClosedUnderNext, Reach, Closed, NextOf

LEMMA NodesType ==
  ASSUME TypeOK, NEW l \in List
  PROVE  /\ NextOf \in Pointers
         /\ Nodes(l) \subseteq Node
         /\ first[l] = Null => Nodes(l) = {}
         /\ first[l] # Null => first[l] \in Nodes(l)
         /\ \A n \in Nodes(l) : heap[n].next # Null => heap[n].next \in Nodes(l)
  <1>1. NextOf \in Pointers
    BY DEF TypeOK, NextOf, Pointers
  <1>2. Nodes(l) \subseteq Node /\ Closed(Nodes(l), NextOf)
    BY <1>1, NodesReach, ReachNext
  <1>3. first[l] = Null => Nodes(l) = {}
    BY NodesReach, ReachNone
  <1>4. first[l] # Null => first[l] \in Nodes(l)
    BY NodesReach, ReachFirst DEF TypeOK
  <1>5. \A n \in Nodes(l) : heap[n].next # Null => heap[n].next \in Nodes(l)
    BY <1>2 DEF Closed, NextOf
  <1> QED
    BY <1>1, <1>2, <1>3, <1>4, <1>5

LEMMA NodesFrame ==
  ASSUME TypeOK, NextOf' \in Pointers, NEW l \in List, first'[l] = first[l],
         \A n \in Nodes(l) : heap'[n].next = heap[n].next
  PROVE  Nodes(l)' = Nodes(l)
  <1>1. \A n \in Nodes(l) : (NextOf')[n] = NextOf[n]
    BY NodesType DEF NextOf
  <1>2. first[l] \in Node \cup {Null}
    BY DEF TypeOK
  <1>3. Reach(first[l], NextOf') = Reach(first[l], NextOf)
    <2> DEFINE nx == NextOf
               ny == NextOf'
               f == first[l]
    <2>1. nx \in Pointers /\ ny \in Pointers /\ f \in Node \cup {Null}
            /\ \A n \in Reach(f, nx) : ny[n] = nx[n]
      BY <1>1, <1>2, NodesType, NodesReach
    <2> HIDE DEF nx, ny, f
    <2>2. Reach(f, ny) = Reach(f, nx)
      BY <2>1, ReachFrame
    <2> QED
      BY <2>2 DEF nx, ny, f
  <1> QED
    BY <1>3, NodesReach

-----------------------------------------------------------------------------
HeapType ==
  /\ heap \in [Node -> [thread_id : Thread \cup {Null}, next : Node \cup {Null},
                        capacity : Nat, events : Seq(Event)]]
  /\ \A n \in Node : Len(heap[n].events) <= heap[n].capacity

EndsType ==
  /\ first \in [List -> Node \cup {Null}]
  /\ last \in [List -> Node \cup {Null}]
  /\ \A l \in List : (first[l] = Null) <=> (last[l] = Null)

LEMMA UnallocatedType ==
  /\ Unallocated \in [thread_id : Thread \cup {Null}, next : Node \cup {Null},
                      capacity : Nat, events : Seq(Event)]
  /\ Len(Unallocated.events) = 0 /\ Unallocated.next = Null /\ Unallocated.capacity = 0
  <1>1. <<>> \in Seq(Event) /\ Len(<<>>) = 0
    OBVIOUS
  <1> QED
    BY <1>1 DEF Unallocated

(* The node c ends with is not a free one. *)
LEMMA LastIsNotFree ==
  ASSUME TypeOK, ChainOK, HeapOK, NEW l \in List, NEW n \in Node, heap[n] = Unallocated
  PROVE  last[l] # n /\ n \notin Nodes(l)
  <1>1. n \notin Allocated
    BY DEF Allocated, Unallocated
  <1> QED
    BY <1>1 DEF ChainOK, HeapOK, TypeOK

(* Node n was linked to the end of c. *)
Linked(c, n, capacity, evts) ==
  /\ heap'[n] = [thread_id |-> ThreadOf[c], next |-> Null, capacity |-> capacity,
                 events |-> evts]
  /\ last[c] # Null => heap'[last[c]].next = n
  /\ \A m \in Node \ {n} : /\ heap'[m].thread_id = heap[m].thread_id
                           /\ heap'[m].capacity = heap[m].capacity
                           /\ heap'[m].events = heap[m].events
                           /\ m # last[c] => heap'[m] = heap[m]
  /\ first'[c] = (IF last[c] = Null THEN n ELSE first[c])
  /\ last'[c] = n
  /\ \A l \in List \ {c} : first'[l] = first[l] /\ last'[l] = last[l]

LEMMA LinkType ==
  ASSUME TypeOK, ChainOK, HeapOK, NEW c \in Collector, NEW n \in Node,
         NEW capacity \in Nat \ {0}, NEW evts \in Seq(Event), Len(evts) <= capacity,
         LinkNode(c, n, capacity, evts)
  PROVE  HeapType' /\ EndsType' /\ Linked(c, n, capacity, evts)
  <1> DEFINE node == [thread_id |-> ThreadOf[c], next |-> Null, capacity |-> capacity,
                      events |-> evts]
             Nodal == [thread_id : Thread \cup {Null}, next : Node \cup {Null},
                       capacity : Nat, events : Seq(Event)]
  <1>1. last[c] # n /\ c \in List
    BY LastIsNotFree DEF LinkNode
  <1>2. node \in Nodal
    OBVIOUS
  <1>3. first' = [first EXCEPT ![c] = IF last[c] = Null THEN n ELSE @]
        /\ last' = [last EXCEPT ![c] = n]
    BY DEF LinkNode
  <1>4. /\ first'[c] = (IF last[c] = Null THEN n ELSE first[c])
        /\ last'[c] = n
        /\ \A l \in List \ {c} : first'[l] = first[l] /\ last'[l] = last[l]
    BY <1>1, <1>3 DEF TypeOK
  <1>5. EndsType'
    BY <1>1, <1>3 DEF TypeOK, EndsType
  <1>6. CASE last[c] = Null
    <2>1. heap' = [heap EXCEPT ![n] = node]
      BY <1>6 DEF LinkNode
    <2>2. heap'[n] = node /\ \A m \in Node \ {n} : heap'[m] = heap[m]
      BY <2>1 DEF TypeOK
    <2>3. heap' \in [Node -> Nodal]
      BY <1>2, <2>1 DEF TypeOK
    <2>4. \A m \in Node : Len(heap'[m].events) <= heap'[m].capacity
      <3>1. heap'[n].events = evts /\ heap'[n].capacity = capacity
        BY <2>2
      <3> QED
        BY <2>2, <3>1 DEF TypeOK
    <2>5. HeapType'
      BY <2>3, <2>4 DEF HeapType
    <2> QED
      BY <1>4, <1>5, <1>6, <2>2, <2>5 DEF Linked
  <1>7. CASE last[c] # Null
    <2>1. heap' = [heap EXCEPT ![n] = node, ![last[c]].next = n] /\ last[c] \in Node
      BY <1>1, <1>7 DEF LinkNode, TypeOK
    <2>2. /\ heap'[n] = node
          /\ heap'[last[c]] = [heap[last[c]] EXCEPT !.next = n]
          /\ \A m \in Node \ {n, last[c]} : heap'[m] = heap[m]
          /\ heap' \in [Node -> Nodal]
      BY <1>1, <1>2, <2>1 DEF TypeOK
    <2>3. heap[last[c]] \in Nodal
      BY <2>1 DEF TypeOK
    <2>4. /\ heap'[last[c]].next = n
          /\ heap'[last[c]].thread_id = heap[last[c]].thread_id
          /\ heap'[last[c]].capacity = heap[last[c]].capacity
          /\ heap'[last[c]].events = heap[last[c]].events
      BY <2>2, <2>3
    <2>5. \A m \in Node : Len(heap'[m].events) <= heap'[m].capacity
      <3>1. heap'[n].events = evts /\ heap'[n].capacity = capacity
        BY <2>2
      <3> QED
        BY <2>2, <2>4, <3>1 DEF TypeOK
    <2>6. HeapType'
      BY <2>2, <2>5 DEF HeapType
    <2> QED
      BY <1>4, <1>5, <2>2, <2>4, <2>6 DEF Linked
  <1> QED
    BY <1>6, <1>7

LEMMA LinkNodes ==
  ASSUME TypeOK, ChainOK, HeapOK, HeapType', NEW c \in Collector, NEW n \in Node,
         NEW capacity, NEW evts, heap[n] = Unallocated, Linked(c, n, capacity, evts)
  PROVE  /\ Nodes(c)' = Nodes(c) \cup {n}
         /\ \A l \in List \ {c} : Nodes(l)' = Nodes(l)
  <1>1. \A l \in List : last[l] # n /\ n \notin Nodes(l)
    BY LastIsNotFree
  <1>2. NextOf' \in Pointers
    BY DEF HeapType, NextOf, Pointers
  <1>3. ASSUME NEW l \in List \ {c} PROVE Nodes(l)' = Nodes(l)
    <2>1. last[c] # Null => last[c] \notin Nodes(l)
      BY DEF ChainOK, HeapOK
    <2>2. Null \notin Nodes(l) /\ Nodes(l) \subseteq Node
      BY NodesType
    <2>3. \A m \in Nodes(l) : heap'[m].next = heap[m].next
      BY <1>1, <2>1, <2>2 DEF Linked
    <2>4. first'[l] = first[l]
      BY DEF Linked
    <2> QED
      BY <1>2, <2>3, <2>4, NodesFrame
  <1>4. CASE last[c] = Null
    <2>1. Nodes(c) = {} /\ first'[c] = n /\ (NextOf')[n] = Null
      <3>1. first[c] = Null /\ first'[c] = n /\ heap'[n].next = Null
        BY <1>4 DEF TypeOK, Linked
      <3> QED
        BY <3>1, NodesType DEF NextOf
    <2>2. Reach(first'[c], NextOf') = {n}
      <3> DEFINE ny == NextOf'
      <3>1. ny[n] = Null
        BY <2>1
      <3> HIDE DEF ny
      <3>2. Reach(n, ny) = {n}
        BY <3>1, ReachSingle
      <3> QED
        BY <2>1, <3>2 DEF ny
    <2> QED
      BY <1>3, <2>1, <2>2, NodesReach
  <1>5. CASE last[c] # Null
    <2> DEFINE nx == NextOf
               ny == NextOf'
               a  == first[c]
               e  == last[c]
    <2>1. a \in Node /\ e \in Node /\ e \in Reach(a, nx) /\ nx[e] = Null /\ first'[c] = a
      BY <1>5, NodesReach, NodesType DEF TypeOK, ChainOK, Linked, NextOf
    <2>2. nx[n] = Null /\ e # n
      BY <1>1, UnallocatedType DEF NextOf
    <2>3. ny[e] = n /\ \A m \in Node \ {e} : ny[m] = nx[m]
      <3>1. \A m \in Node : heap'[m].next = IF m = e THEN n ELSE heap[m].next
        BY <1>5, <2>1, <2>2, UnallocatedType DEF Linked
      <3> QED
        BY <2>1, <3>1 DEF NextOf
    <2>4. nx \in Pointers /\ ny \in Pointers
      BY <1>2, NodesType
    <2> HIDE DEF nx, ny, a, e
    <2>5. Reach(n, nx) = {n}
      BY <2>2, ReachSingle
    <2>6. e \notin Reach(n, nx)
      BY <2>2, <2>5
    <2>7. Reach(a, ny) = Reach(a, nx) \cup Reach(n, nx)
      BY <2>1, <2>3, <2>4, <2>6, ReachJoin
    <2> QED
      BY <1>3, <2>1, <2>5, <2>7, NodesReach DEF nx, ny, a
  <1> QED
    BY <1>4, <1>5

-----------------------------------------------------------------------------
(* What one list hands over, the other one has. *)
LEMMA DrainType ==
  ASSUME TypeOK, NEW to \in List, NEW from \in List, to # from, DrainOther(to, from)
  PROVE  HeapType' /\ EndsType'
  <1>1. CASE last[to] # Null /\ last[from] # Null
    <2>1. first[from] \in Node /\ last[to] \in Node
      BY <1>1 DEF TypeOK
    <2>2. /\ heap' = [heap EXCEPT ![last[to]].next = first[from]]
          /\ first' = [first EXCEPT ![from] = Null]
          /\ last' = [last EXCEPT ![to] = last[from], ![from] = Null]
      BY <1>1 DEF DrainOther
    <2>3. HeapType'
      <3> DEFINE Nodal == [thread_id : Thread \cup {Null}, next : Node \cup {Null},
                           capacity : Nat, events : Seq(Event)]
                 node  == [heap[last[to]] EXCEPT !.next = first[from]]
      <3>a. heap[last[to]] \in Nodal /\ heap \in [Node -> Nodal]
        BY <2>1 DEF TypeOK
      <3>b. node \in Nodal
        BY <2>1, <3>a
      <3>1. /\ heap'[last[to]] = node
            /\ \A m \in Node \ {last[to]} : heap'[m] = heap[m]
            /\ heap' \in [Node -> Nodal]
        <4> HIDE DEF Nodal
        <4> QED
          BY <2>1, <2>2, <3>a, <3>b
      <3>2. /\ heap'[last[to]].capacity = heap[last[to]].capacity
            /\ heap'[last[to]].events = heap[last[to]].events
        BY <2>1, <3>1 DEF TypeOK
      <3> QED
        BY <3>1, <3>2 DEF TypeOK, HeapType
    <2>4. EndsType'
      BY <1>1, <2>2 DEF TypeOK, EndsType
    <2> QED
      BY <2>3, <2>4
  <1>2. CASE last[to] # Null /\ last[from] = Null
    BY <1>2 DEF DrainOther, TypeOK, HeapType, EndsType
  <1>3. CASE last[to] = Null
    <2>1. UNCHANGED heap
      BY <1>3 DEF DrainOther
    <2>2. EndsType'
      <3>1. /\ first' = [first EXCEPT ![to] = first[from], ![from] = first[to]]
            /\ last' = [last EXCEPT ![to] = last[from], ![from] = last[to]]
        BY <1>3 DEF DrainOther
      <3>2. /\ first'[to] = first[from] /\ first'[from] = first[to]
            /\ last'[to] = last[from] /\ last'[from] = last[to]
            /\ \A l \in List \ {to, from} : first'[l] = first[l] /\ last'[l] = last[l]
        BY <3>1 DEF TypeOK
      <3>3. first' \in [List -> Node \cup {Null}] /\ last' \in [List -> Node \cup {Null}]
        BY <3>1 DEF TypeOK
      <3> QED
        BY <3>2, <3>3 DEF TypeOK, EndsType
    <2> QED
      BY <2>1, <2>2 DEF HeapType, TypeOK
  <1> QED
    BY <1>1, <1>2, <1>3

LEMMA DrainNodes ==
  ASSUME TypeOK, ChainOK, HeapOK, NEW to \in List, NEW from \in List, to # from,
         DrainOther(to, from)
  PROVE  /\ Nodes(to)' = Nodes(to) \cup Nodes(from)
         /\ Nodes(from)' = {}
         /\ \A l \in List \ {to, from} : Nodes(l)' = Nodes(l)
  <1>1. NextOf' \in Pointers
    BY DrainType DEF HeapType, NextOf, Pointers
  <1>2. CASE last[to] # Null /\ last[from] # Null
    <2>1. /\ first[from] \in Node /\ first[to] \in Node /\ last[to] \in Node
          /\ \A n \in Node : heap'[n].next = IF n = last[to] THEN first[from] ELSE heap[n].next
          /\ first'[from] = Null /\ \A l \in List \ {from} : first'[l] = first[l]
      BY <1>2 DEF DrainOther, TypeOK
    <2>2. ASSUME NEW l \in List \ {to, from} PROVE Nodes(l)' = Nodes(l)
      <3>1. last[to] \notin Nodes(l) /\ Nodes(l) \subseteq Node
        BY <1>2, NodesType DEF ChainOK, HeapOK
      <3>2. first'[l] = first[l] /\ \A n \in Nodes(l) : heap'[n].next = heap[n].next
        BY <2>1, <3>1
      <3> QED
        BY <1>1, <3>2, NodesFrame
    <2>3. Nodes(from)' = {}
      BY <2>1, NodesReach, ReachNone
    <2> DEFINE nx == NextOf
               ny == NextOf'
               a  == first[to]
               b  == first[from]
               e  == last[to]
    <2>4. Nodes(to) = Reach(a, nx) /\ Nodes(from) = Reach(b, nx) /\ Nodes(to)' = Reach(a, ny)
      BY <2>1, NodesReach
    <2>5. e \in Reach(a, nx) /\ nx[e] = Null /\ e \notin Reach(b, nx)
      BY <1>2, <2>1, <2>4 DEF ChainOK, HeapOK, NextOf
    <2>6. ny[e] = b /\ \A n \in Node \ {e} : ny[n] = nx[n]
      BY <2>1 DEF NextOf
    <2>7. a \in Node /\ b \in Node /\ nx \in Pointers /\ ny \in Pointers
      BY <1>1, <2>1, NodesType
    <2> HIDE DEF nx, ny, a, b, e
    <2>8. Reach(a, ny) = Reach(a, nx) \cup Reach(b, nx)
      BY <2>5, <2>6, <2>7, ReachJoin
    <2> QED
      BY <2>2, <2>3, <2>4, <2>8
  <1>3. CASE last[to] # Null /\ last[from] = Null
    <2>1. UNCHANGED <<heap, first>>
      BY <1>3 DEF DrainOther
    <2>2. \A l \in List : Nodes(l)' = Nodes(l)
      BY <2>1, NodesReach DEF NextOf
    <2>3. Nodes(from) = {}
      BY <1>3, NodesType DEF TypeOK
    <2> QED
      BY <2>2, <2>3
  <1>4. CASE last[to] = Null
    <2>1. /\ UNCHANGED heap /\ first[to] = Null
          /\ first'[to] = first[from] /\ first'[from] = Null
          /\ \A l \in List \ {to, from} : first'[l] = first[l]
      BY <1>4 DEF DrainOther, TypeOK
    <2>2. NextOf' = NextOf
      BY <2>1 DEF NextOf
    <2>3. Nodes(to)' = Nodes(from) /\ \A l \in List \ {to, from} : Nodes(l)' = Nodes(l)
      BY <2>1, <2>2, NodesReach
    <2>4. Nodes(from)' = {} /\ Nodes(to) = {}
      BY <2>1, NodesReach, ReachNone
    <2> QED
      BY <2>3, <2>4
  <1> QED
    BY <1>2, <1>3, <1>4

(* A list without its nodes, and the heap without them. *)
LEMMA DestroyNodes ==
  ASSUME TypeOK, HeapOK, NEW l \in List, Destroy(l)
  PROVE  /\ HeapType' /\ EndsType'
         /\ Nodes(l)' = {}
         /\ \A m \in List \ {l} : Nodes(m)' = Nodes(m)
  <1>1. HeapType'
    <2>1. heap' = [n \in Node |-> IF n \in Nodes(l) THEN Unallocated ELSE heap[n]]
      BY DEF Destroy
    <2> QED
      BY <2>1, UnallocatedType DEF TypeOK, HeapType
  <1>2. EndsType'
    BY DEF Destroy, TypeOK, EndsType
  <1>3. NextOf' \in Pointers
    BY <1>1 DEF HeapType, NextOf, Pointers
  <1>4. Nodes(l)' = {}
    <2>1. first'[l] = Null
      BY DEF Destroy, TypeOK
    <2> QED
      BY <2>1, NodesReach, ReachNone
  <1>5. ASSUME NEW m \in List \ {l} PROVE Nodes(m)' = Nodes(m)
    <2>1. Nodes(m) \cap Nodes(l) = {} /\ Nodes(m) \subseteq Node
      BY NodesType DEF HeapOK
    <2>2. first'[m] = first[m] /\ \A n \in Nodes(m) : heap'[n].next = heap[n].next
      BY <2>1 DEF Destroy, TypeOK
    <2> QED
      BY <1>3, <2>2, NodesFrame
  <1> QED
    BY <1>1, <1>2, <1>4, <1>5

-----------------------------------------------------------------------------
(* An event goes into the last node of c, which has room for it. *)
PutIntoLast(c, event) ==
  /\ last[c] \in Node
  /\ Len(heap[last[c]].events) < heap[last[c]].capacity
  /\ heap' = [heap EXCEPT ![last[c]].events = Append(@, event)]
  /\ UNCHANGED <<first, last>>

(* What can happen to the nodes. *)
LEMMA HeapStep ==
  ASSUME TypeOK, [Next]_vars
  PROVE  /\ default_node_capacity' \in [Collector -> Nat \ {0}]
         /\ recorded' \in [Collector -> Nat]
         /\ \/ \E c \in Collector, n \in Node, capacity \in Nat \ {0}, evts \in Seq(Event) :
                 /\ LinkNode(c, n, capacity, evts)
                 /\ Len(evts) <= capacity
                 /\ \A i \in DOMAIN evts : evts[i][1] = c
            \/ \E c \in Collector, event \in Event : event[1] = c /\ PutIntoLast(c, event)
            \/ \E to, from \in List : Drain(to, from)
            \/ \E l \in List : Destroy(l)
            \/ UNCHANGED <<heap, first, last>>
  <1>1. ASSUME NEW c \in Collector, NEW r \in Request, Reserve(c, r)
        PROVE  /\ default_node_capacity' \in [Collector -> Nat \ {0}]
               /\ recorded' \in [Collector -> Nat]
               /\ \/ \E n \in Node, capacity \in Nat \ {0} : LinkNode(c, n, capacity, <<>>)
                  \/ UNCHANGED <<heap, first, last>>
    <2> DEFINE capacity == IF r <= 0 THEN DefaultCapacity ELSE r
    <2>1. capacity \in Nat \ {0}
      OBVIOUS
    <2>2. /\ default_node_capacity' = [default_node_capacity EXCEPT ![c] = capacity]
          /\ recorded' = recorded
          /\ \/ \E n \in Node : LinkNode(c, n, capacity, <<>>)
             \/ UNCHANGED <<heap, first, last>>
      BY <1>1 DEF Reserve
    <2> HIDE DEF capacity
    <2> QED
      BY <2>1, <2>2 DEF TypeOK
  <1>2. ASSUME NEW c \in Collector, AppendEvent(c)
        PROVE  /\ default_node_capacity' \in [Collector -> Nat \ {0}]
               /\ recorded' \in [Collector -> Nat]
               /\ \E event \in Event :
                    /\ event[1] = c
                    /\ \/ \E n \in Node, capacity \in Nat \ {0} :
                            LinkNode(c, n, capacity, <<event>>)
                       \/ PutIntoLast(c, event)
    <2> DEFINE event == <<c, recorded[c] + 1>>
    <2>1. event \in Event /\ event[1] = c
      BY DEF Event, TypeOK
    <2>2. /\ default_node_capacity' \in [Collector -> Nat \ {0}]
          /\ recorded' \in [Collector -> Nat]
      BY <1>2 DEF AppendEvent, TypeOK
    <2>3. CASE FreeCapacity(c) >= 1
      <3>1. last[c] # Null
        BY <2>3 DEF FreeCapacity
      <3>2. last[c] \in Node
        BY <3>1 DEF TypeOK
      <3>3. Len(heap[last[c]].events) \in Nat /\ heap[last[c]].capacity \in Nat
        BY <3>2 DEF TypeOK
      <3>4. Len(heap[last[c]].events) < heap[last[c]].capacity
        BY <2>3, <3>1, <3>3 DEF FreeCapacity
      <3>5. heap' = [heap EXCEPT ![last[c]].events = Append(@, event)] /\ UNCHANGED <<first, last>>
        <4>1. FreeCapacity(c) \in Int
          BY <3>1, <3>3 DEF FreeCapacity
        <4> QED
          BY <1>2, <2>3, <4>1 DEF AppendEvent
      <3> HIDE DEF event
      <3> QED
        BY <2>1, <2>2, <3>2, <3>4, <3>5 DEF PutIntoLast
    <2>4. CASE ~(FreeCapacity(c) >= 1)
      <3>1. \E n \in Node : LinkNode(c, n, default_node_capacity[c], <<event>>)
        BY <1>2, <2>4 DEF AppendEvent
      <3>2. default_node_capacity[c] \in Nat \ {0}
        BY DEF TypeOK
      <3> HIDE DEF event
      <3> QED
        BY <2>1, <2>2, <3>1, <3>2
    <2> QED
      BY <2>3, <2>4
  <1>3. ASSUME NEW event \in Event
        PROVE  /\ <<event>> \in Seq(Event) /\ Len(<<event>>) = 1
               /\ \A i \in DOMAIN <<event>> : <<event>>[i] = event
    OBVIOUS
  <1>4. <<>> \in Seq(Event) /\ Len(<<>>) = 0 /\ \A i \in DOMAIN <<>> : FALSE
    OBVIOUS
  <1>5. CASE \E c \in Collector, r \in Request : Reserve(c, r)
    <2>1. PICK c \in Collector, r \in Request : Reserve(c, r)
      BY <1>5
    <2>2. CASE \E n \in Node, capacity \in Nat \ {0} : LinkNode(c, n, capacity, <<>>)
      <3>1. PICK n \in Node, capacity \in Nat \ {0} : LinkNode(c, n, capacity, <<>>)
        BY <2>2
      <3>2. Len(<<>>) <= capacity
        BY <1>4
      <3> QED
        BY <1>1, <1>4, <2>1, <3>1, <3>2
    <2> QED
      BY <1>1, <2>1, <2>2
  <1>6. CASE \E c \in Collector : AppendEvent(c)
    <2>1. PICK c \in Collector : AppendEvent(c)
      BY <1>6
    <2>2. PICK event \in Event :
            /\ event[1] = c
            /\ \/ \E n \in Node, capacity \in Nat \ {0} : LinkNode(c, n, capacity, <<event>>)
               \/ PutIntoLast(c, event)
      BY <1>2, <2>1
    <2>3. CASE \E n \in Node, capacity \in Nat \ {0} : LinkNode(c, n, capacity, <<event>>)
      <3>1. PICK n \in Node, capacity \in Nat \ {0} : LinkNode(c, n, capacity, <<event>>)
        BY <2>3
      <3> DEFINE evts == <<event>>
      <3>2. evts \in Seq(Event) /\ Len(evts) <= capacity /\ \A i \in DOMAIN evts : evts[i][1] = c
        BY <1>3, <2>2
      <3>3. LinkNode(c, n, capacity, evts)
        BY <3>1
      <3> HIDE DEF evts
      <3> QED
        BY <1>2, <2>1, <3>2, <3>3
    <2> QED
      BY <1>2, <2>1, <2>2, <2>3
  <1>7. CASE (\E to, from \in List : Drain(to, from)) \/ (\E l \in List : Destroy(l)) \/ UNCHANGED vars
    BY <1>7 DEF Drain, Destroy, vars, TypeOK
  <1> QED
    BY <1>5, <1>6, <1>7 DEF Next

LEMMA PutType ==
  ASSUME TypeOK, NEW c \in Collector, NEW event \in Event, PutIntoLast(c, event)
  PROVE  /\ HeapType' /\ EndsType'
         /\ heap'[last[c]].events = Append(heap[last[c]].events, event)
         /\ \A m \in Node : /\ heap'[m].next = heap[m].next
                            /\ heap'[m].thread_id = heap[m].thread_id
                            /\ heap'[m].capacity = heap[m].capacity
                            /\ m # last[c] => heap'[m] = heap[m]
  <1> DEFINE Nodal == [thread_id : Thread \cup {Null}, next : Node \cup {Null},
                       capacity : Nat, events : Seq(Event)]
             e     == last[c]
             node  == [heap[e] EXCEPT !.events = Append(@, event)]
  <1>1. heap \in [Node -> Nodal] /\ e \in Node /\ heap[e] \in Nodal
    BY DEF TypeOK, PutIntoLast
  <1>2. Append(heap[e].events, event) \in Seq(Event)
          /\ Len(Append(heap[e].events, event)) = Len(heap[e].events) + 1
    BY <1>1
  <1>3. /\ node \in Nodal
        /\ node.events = Append(heap[e].events, event)
        /\ node.next = heap[e].next /\ node.thread_id = heap[e].thread_id
        /\ node.capacity = heap[e].capacity
    BY <1>1, <1>2
  <1>4. heap' = [heap EXCEPT ![e] = node]
    BY <1>1 DEF PutIntoLast
  <1>5. heap'[e] = node /\ heap' \in [Node -> Nodal] /\ \A m \in Node \ {e} : heap'[m] = heap[m]
    <2> HIDE DEF Nodal, node
    <2> QED
      BY <1>1, <1>3, <1>4
  <1>6. \A m \in Node : Len(heap'[m].events) <= heap'[m].capacity
    <2>1. Len(node.events) <= node.capacity
      BY <1>1, <1>2, <1>3 DEF PutIntoLast
    <2> HIDE DEF node
    <2> QED
      BY <1>1, <1>5, <2>1 DEF TypeOK
  <1>7. HeapType'
    BY <1>5, <1>6 DEF HeapType
  <1>8. EndsType'
    BY DEF PutIntoLast, TypeOK, EndsType
  <1> HIDE DEF node, Nodal
  <1> QED
    BY <1>1, <1>3, <1>5, <1>7, <1>8

LEMMA TypeStep ==
  ASSUME TypeOK, ChainOK, HeapOK, [Next]_vars
  PROVE  TypeOK'
  <1>1. HeapType' /\ EndsType'
    <2>1. ASSUME NEW c \in Collector, NEW n \in Node, NEW capacity \in Nat \ {0},
                 NEW evts \in Seq(Event), LinkNode(c, n, capacity, evts), Len(evts) <= capacity
          PROVE  HeapType' /\ EndsType'
      BY <2>1, LinkType
    <2>2. ASSUME NEW c \in Collector, NEW event \in Event, PutIntoLast(c, event)
          PROVE  HeapType' /\ EndsType'
      BY <2>2, PutType
    <2>3. ASSUME NEW to \in List, NEW from \in List, Drain(to, from)
          PROVE  HeapType' /\ EndsType'
      BY <2>3, DrainType DEF Drain
    <2>4. ASSUME NEW l \in List, Destroy(l) PROVE HeapType' /\ EndsType'
      BY <2>4, DestroyNodes
    <2>5. CASE UNCHANGED <<heap, first, last>>
      BY <2>5 DEF TypeOK, HeapType, EndsType
    <2> QED
      BY <2>1, <2>2, <2>3, <2>4, <2>5, HeapStep
  <1>2. default_node_capacity' \in [Collector -> Nat \ {0}] /\ recorded' \in [Collector -> Nat]
    BY HeapStep
  <1> QED
    BY <1>1, <1>2 DEF TypeOK, HeapType, EndsType

-----------------------------------------------------------------------------
(* Each operation keeps the chains and the heap in order. *)
LEMMA LinkKeeps ==
  ASSUME LInv, TypeOK', NEW c \in Collector, NEW n \in Node, NEW capacity \in Nat \ {0},
         NEW evts \in Seq(Event), LinkNode(c, n, capacity, evts), Len(evts) <= capacity,
         \A i \in DOMAIN evts : evts[i][1] = c
  PROVE  ChainOK' /\ HeapOK' /\ CreatorOK' /\ Attribution'
  <1>1. TypeOK /\ ChainOK /\ HeapOK /\ CreatorOK /\ Attribution
    BY DEF LInv
  <1>2. heap[n] = Unallocated /\ Linked(c, n, capacity, evts) /\ HeapType' /\ c \in List
    BY <1>1, LinkType DEF LinkNode
  <1>3. /\ Nodes(c)' = Nodes(c) \cup {n}
        /\ \A l \in List \ {c} : Nodes(l)' = Nodes(l)
    BY <1>1, <1>2, LinkNodes
  <1>4. \A l \in List : /\ Nodes(l) \subseteq Node \ {n}
                        /\ last[l] # n
    BY <1>1, <1>2, LastIsNotFree, NodesType
  <1>5. /\ heap'[n].thread_id = ThreadOf[c] /\ heap'[n].next = Null
        /\ heap'[n].capacity = capacity /\ heap'[n].events = evts
    BY <1>2 DEF Linked
  <1>6. ChainOK'
    <2>1. ASSUME NEW l \in List \ {c}
          PROVE  /\ last'[l] # Null => last'[l] \in Nodes(l)'
                 /\ \A m \in Nodes(l)' : heap'[m].next = Null <=> m = last'[l]
      <3>1. last[c] # Null => last[c] \notin Nodes(l)
        BY <1>1 DEF ChainOK, HeapOK
      <3>2. last'[l] = last[l] /\ \A m \in Nodes(l) : heap'[m] = heap[m]
        <4>1. Null \notin Nodes(l)
          BY <1>4
        <4> QED
          BY <1>2, <1>4, <3>1, <4>1 DEF Linked
      <3> QED
        BY <1>1, <1>3, <3>2 DEF ChainOK
    <2>2. last'[c] = n /\ n \in Nodes(c)'
      BY <1>2, <1>3 DEF Linked
    <2>3. ASSUME NEW m \in Nodes(c) PROVE heap'[m].next # Null
      <3>1. m \in Node \ {n}
        BY <1>4
      <3>2. CASE m = last[c]
        BY <1>2, <3>1, <3>2 DEF Linked
      <3>3. CASE m # last[c]
        BY <1>1, <1>2, <3>1, <3>3 DEF Linked, ChainOK
      <3> QED
        BY <3>2, <3>3
    <2>4. \A m \in Nodes(c)' : heap'[m].next = Null <=> m = n
      BY <1>3, <1>4, <1>5, <2>3
    <2> QED
      BY <2>1, <2>2, <2>4 DEF ChainOK
  <1>7. HeapOK'
    <2>1. \A m \in Node : heap'[m].capacity = 0 => heap'[m] = Unallocated
      <3>1. ASSUME NEW m \in Node \ {n}, heap'[m].capacity = 0 PROVE heap'[m] = Unallocated
        <4>1. heap[m].capacity = 0
          BY <1>2, <3>1 DEF Linked
        <4>2. heap[m] = Unallocated
          BY <1>1, <4>1 DEF HeapOK
        <4>3. m # last[c]
          BY <1>1, <4>2, LastIsNotFree
        <4> QED
          BY <1>2, <3>1, <4>2, <4>3 DEF Linked
      <3> QED
        BY <1>5, <3>1
    <2>2. Allocated' = Allocated \cup {n}
      BY <1>2, <1>5 DEF Linked, Allocated
    <2> QED
      BY <1>1, <1>3, <1>4, <2>1, <2>2 DEF HeapOK
  <1>8. CreatorOK'
    BY <1>1, <1>2, <1>3, <1>4, <1>5 DEF CreatorOK, Linked
  <1>9. Attribution'
    <2>1. \A m \in Node \ {n} : heap'[m].thread_id = heap[m].thread_id
                                  /\ heap'[m].events = heap[m].events
      BY <1>2 DEF Linked
    <2> QED
      BY <1>1, <1>5, <2>1 DEF Attribution
  <1> QED
    BY <1>6, <1>7, <1>8, <1>9

LEMMA PutKeeps ==
  ASSUME LInv, TypeOK', NEW c \in Collector, NEW event \in Event, event[1] = c,
         PutIntoLast(c, event)
  PROVE  ChainOK' /\ HeapOK' /\ CreatorOK' /\ Attribution'
  <1>1. TypeOK /\ ChainOK /\ HeapOK /\ CreatorOK /\ Attribution
    BY DEF LInv
  <1>2. /\ heap'[last[c]].events = Append(heap[last[c]].events, event)
        /\ \A m \in Node : /\ heap'[m].next = heap[m].next
                           /\ heap'[m].thread_id = heap[m].thread_id
                           /\ heap'[m].capacity = heap[m].capacity
                           /\ m # last[c] => heap'[m] = heap[m]
    BY <1>1, PutType
  <1>3. /\ last[c] \in Node /\ first' = first /\ last' = last
        /\ heap[last[c]].events \in Seq(Event) /\ Len(heap[last[c]].events) < heap[last[c]].capacity
    BY <1>1 DEF PutIntoLast, TypeOK
  <1>4. \A l \in List : Nodes(l)' = Nodes(l)
    <2>1. NextOf' = NextOf
      BY <1>2 DEF NextOf
    <2> QED
      BY <1>3, <2>1, NodesReach
  <1>5. \A l \in List : Nodes(l) \subseteq Node
    BY <1>1, NodesType
  <1>6. ChainOK'
    BY <1>1, <1>2, <1>3, <1>4, <1>5 DEF ChainOK
  <1>7. HeapOK'
    <2>1. Allocated' = Allocated
      BY <1>2 DEF Allocated
    <2>2. heap[last[c]].capacity # 0
      <3>1. Len(heap[last[c]].events) \in Nat
        BY <1>3
      <3> QED
        BY <1>3, <3>1
    <2>3. \A m \in Node : heap'[m].capacity = 0 => heap'[m] = Unallocated
      BY <1>1, <1>2, <2>2 DEF HeapOK
    <2> QED
      BY <1>1, <1>4, <2>1, <2>3 DEF HeapOK
  <1>8. CreatorOK'
    BY <1>1, <1>2, <1>4, <1>5 DEF CreatorOK
  <1>9. Attribution'
    <2>1. heap[last[c]].thread_id = ThreadOf[c]
      <3>1. last[c] \in Nodes(c)
        BY <1>1, <1>3 DEF ChainOK
      <3> QED
        BY <1>1, <3>1 DEF CreatorOK
    <2>2. ASSUME NEW q \in Seq(Event), NEW i \in DOMAIN Append(q, event)
          PROVE  (i \in DOMAIN q /\ Append(q, event)[i] = q[i]) \/ Append(q, event)[i] = event
      BY <2>2
    <2>3. \A i \in DOMAIN heap'[last[c]].events :
            heap'[last[c]].thread_id = ThreadOf[heap'[last[c]].events[i][1]]
      BY <1>1, <1>2, <1>3, <2>1, <2>2 DEF Attribution
    <2>4. ASSUME NEW m \in Node, NEW i \in DOMAIN heap'[m].events
          PROVE  heap'[m].thread_id = ThreadOf[heap'[m].events[i][1]]
      <3>1. CASE m = last[c]
        BY <2>3, <2>4, <3>1
      <3>2. CASE m # last[c]
        <4>1. heap'[m] = heap[m]
          BY <1>2, <3>2
        <4> QED
          BY <1>1, <2>4, <4>1 DEF Attribution
      <3> QED
        BY <3>1, <3>2
    <2> QED
      BY <2>4 DEF Attribution
  <1> QED
    BY <1>6, <1>7, <1>8, <1>9

LEMMA DrainKeeps ==
  ASSUME LInv, TypeOK', NEW to \in List, NEW from \in List, Drain(to, from)
  PROVE  ChainOK' /\ HeapOK' /\ CreatorOK' /\ Attribution'
  <1>1. /\ TypeOK /\ ChainOK /\ HeapOK /\ CreatorOK /\ Attribution
        /\ to # from /\ DrainOther(to, from) /\ MayDrain(to, from)
    BY DEF LInv, Drain
  <1>2. /\ Nodes(to)' = Nodes(to) \cup Nodes(from)
        /\ Nodes(from)' = {}
        /\ \A l \in List \ {to, from} : Nodes(l)' = Nodes(l)
    BY <1>1, DrainNodes
  <1>3. \A l \in List : Nodes(l) \subseteq Node /\ (last[l] = Null => Nodes(l) = {})
    BY <1>1, NodesType DEF TypeOK
  <1>4. \A n \in Node : /\ heap'[n].thread_id = heap[n].thread_id
                        /\ heap'[n].capacity = heap[n].capacity
                        /\ heap'[n].events = heap[n].events
                        /\ heap[n] = Unallocated => heap'[n] = heap[n]
    <2>1. CASE last[to] # Null /\ last[from] # Null
      <3>1. heap[last[to]] # Unallocated
        BY <1>1, <2>1, LastIsNotFree DEF TypeOK
      <3>2. heap' = [heap EXCEPT ![last[to]].next = first[from]]
        BY <1>1, <2>1 DEF DrainOther
      <3> QED
        BY <1>1, <3>1, <3>2 DEF TypeOK
    <2>2. CASE ~(last[to] # Null /\ last[from] # Null)
      BY <1>1, <2>2 DEF DrainOther
    <2> QED
      BY <2>1, <2>2
  <1>5. ChainOK'
    <2>1. CASE last[to] # Null /\ last[from] # Null
      <3>1. /\ last'[to] = last[from] /\ last'[from] = Null
            /\ \A l \in List \ {to, from} : last'[l] = last[l]
            /\ first[from] # Null /\ last[to] \in Node
            /\ \A n \in Node : heap'[n].next = IF n = last[to] THEN first[from] ELSE heap[n].next
        <4>1. heap' = [heap EXCEPT ![last[to]].next = first[from]]
              /\ last' = [last EXCEPT ![to] = last[from], ![from] = Null]
          BY <1>1, <2>1 DEF DrainOther
        <4>2. /\ last'[to] = last[from] /\ last'[from] = Null
              /\ \A l \in List \ {to, from} : last'[l] = last[l]
          BY <1>1, <4>1 DEF TypeOK
        <4> QED
          BY <1>1, <2>1, <4>1, <4>2 DEF TypeOK
      <3>2. /\ last[to] \in Nodes(to) /\ last[from] \in Nodes(from)
            /\ \A l \in List \ {to} : last[to] \notin Nodes(l)
            /\ last[from] \notin Nodes(to)
        BY <1>1, <2>1 DEF ChainOK, HeapOK
      <3>3. ASSUME NEW l \in List \ {to, from}
            PROVE  /\ last'[l] # Null => last'[l] \in Nodes(l)'
                   /\ \A n \in Nodes(l)' : heap'[n].next = Null <=> n = last'[l]
        BY <1>1, <1>2, <1>3, <3>1, <3>2 DEF ChainOK
      <3>4. \A n \in Nodes(to) : heap'[n].next # Null
        BY <1>1, <1>3, <3>1 DEF ChainOK
      <3>5. \A n \in Nodes(from) : heap'[n].next = Null <=> n = last[from]
        BY <1>1, <1>3, <3>1, <3>2 DEF ChainOK
      <3>6. \A n \in Nodes(to)' : heap'[n].next = Null <=> n = last'[to]
        BY <1>2, <3>1, <3>2, <3>4, <3>5
      <3> QED
        BY <1>2, <3>1, <3>2, <3>3, <3>6 DEF ChainOK
    <2>2. CASE last[to] # Null /\ last[from] = Null
      <3>1. UNCHANGED <<heap, last>>
        BY <1>1, <2>2 DEF DrainOther
      <3>2. \A l \in List : Nodes(l)' = Nodes(l)
        BY <1>2, <1>3, <2>2
      <3> QED
        BY <1>1, <3>1, <3>2 DEF ChainOK
    <2>3. CASE last[to] = Null
      <3>1. /\ UNCHANGED heap
            /\ last'[to] = last[from] /\ last'[from] = Null
            /\ \A l \in List \ {to, from} : last'[l] = last[l]
        BY <1>1, <2>3 DEF DrainOther, TypeOK
      <3>2. Nodes(to)' = Nodes(from)
        BY <1>2, <1>3, <2>3
      <3> QED
        BY <1>1, <1>2, <3>1, <3>2 DEF ChainOK
    <2> QED
      BY <2>1, <2>2, <2>3
  <1>6. HeapOK'
    <2>1. Allocated' = Allocated
      BY <1>4 DEF Allocated
    <2>2. \A n \in Node : heap'[n].capacity = 0 => heap'[n] = Unallocated
      BY <1>1, <1>4 DEF HeapOK
    <2>3. \A n \in Allocated : \E l \in List : n \in Nodes(l)'
      BY <1>1, <1>2 DEF HeapOK
    <2> QED
      BY <1>1, <1>2, <2>1, <2>2, <2>3 DEF HeapOK
  <1>7. CreatorOK'
    BY <1>1, <1>2, <1>3, <1>4 DEF CreatorOK, MayDrain
  <1>8. Attribution'
    BY <1>1, <1>4 DEF Attribution
  <1> QED
    BY <1>5, <1>6, <1>7, <1>8

LEMMA DestroyKeeps ==
  ASSUME LInv, TypeOK', NEW l \in List, Destroy(l)
  PROVE  ChainOK' /\ HeapOK' /\ CreatorOK' /\ Attribution'
  <1>1. TypeOK /\ ChainOK /\ HeapOK /\ CreatorOK /\ Attribution
    BY DEF LInv
  <1>2. Nodes(l)' = {} /\ \A m \in List \ {l} : Nodes(m)' = Nodes(m)
    BY <1>1, DestroyNodes
  <1>3. /\ \A n \in Nodes(l) : heap'[n] = Unallocated
        /\ \A n \in Node \ Nodes(l) : heap'[n] = heap[n]
        /\ last'[l] = Null /\ \A m \in List \ {l} : last'[m] = last[m]
    BY <1>1, NodesType DEF Destroy, TypeOK
  <1>4. \A m \in List \ {l} : \A n \in Nodes(m) : n \in Node \ Nodes(l)
    BY <1>1, NodesType DEF HeapOK
  <1>5. ChainOK'
    BY <1>1, <1>2, <1>3, <1>4 DEF ChainOK
  <1>6. HeapOK'
    <2>1. Allocated' = Allocated \ Nodes(l)
      BY <1>3, UnallocatedType DEF Allocated
    <2>2. \A n \in Node : heap'[n].capacity = 0 => heap'[n] = Unallocated
      BY <1>1, <1>3 DEF HeapOK
    <2>3. \A n \in Allocated' : \E m \in List : n \in Nodes(m)'
      BY <1>1, <1>2, <2>1 DEF HeapOK
    <2>4. \A m \in List : Nodes(m)' \subseteq Allocated'
      BY <1>1, <1>2, <1>4, <2>1 DEF HeapOK
    <2> QED
      BY <1>1, <1>2, <2>2, <2>3, <2>4 DEF HeapOK
  <1>7. CreatorOK'
    BY <1>1, <1>2, <1>3, <1>4 DEF CreatorOK
  <1>8. Attribution'
    <2>1. DOMAIN Unallocated.events = {}
      BY DEF Unallocated
    <2>2. ASSUME NEW n \in Node, NEW i \in DOMAIN heap'[n].events
          PROVE  heap'[n].thread_id = ThreadOf[heap'[n].events[i][1]]
      <3>1. n \notin Nodes(l)
        BY <1>3, <2>1, <2>2
      <3>2. heap'[n] = heap[n]
        BY <1>3, <3>1
      <3> QED
        BY <1>1, <2>2, <3>2 DEF Attribution
    <2> QED
      BY <2>2 DEF Attribution
  <1> QED
    BY <1>5, <1>6, <1>7, <1>8

-----------------------------------------------------------------------------
LEMMA InitLInv ==
  ASSUME Init
  PROVE  LInv
  <1>1. TypeOK
    BY UnallocatedType, <<>> \in Seq(Event), Len(<<>>) = 0 DEF Init, TypeOK
  <1>2. \A l \in List : Nodes(l) = {}
    BY NodesReach, ReachNone DEF Init
  <1>3. DOMAIN Unallocated.events = {} /\ Allocated = {}
    BY DEF Unallocated, Init, Allocated
  <1>4. ChainOK /\ HeapOK /\ CreatorOK
    BY <1>2, <1>3 DEF ChainOK, HeapOK, CreatorOK, Init
  <1>5. Attribution
    <2>1. \A n \in Node : DOMAIN heap[n].events = {}
      BY <1>3 DEF Init
    <2> QED
      BY <2>1 DEF Attribution
  <1> QED
    BY <1>1, <1>4, <1>5 DEF LInv

LEMMA LInvStep ==
  ASSUME LInv, [Next]_vars
  PROVE  LInv'
  <1>1. TypeOK /\ ChainOK /\ HeapOK /\ CreatorOK /\ Attribution
    BY DEF LInv
  <1>2. TypeOK'
    BY <1>1, TypeStep
  <1>3. ChainOK' /\ HeapOK' /\ CreatorOK' /\ Attribution'
    <2>1. CASE \E c \in Collector, n \in Node, capacity \in Nat \ {0}, evts \in Seq(Event) :
                 /\ LinkNode(c, n, capacity, evts)
                 /\ Len(evts) <= capacity
                 /\ \A i \in DOMAIN evts : evts[i][1] = c
      BY <1>2, <2>1, LinkKeeps
    <2>2. CASE \E c \in Collector, event \in Event : event[1] = c /\ PutIntoLast(c, event)
      BY <1>2, <2>2, PutKeeps
    <2>3. CASE \E to, from \in List : Drain(to, from)
      BY <1>2, <2>3, DrainKeeps
    <2>4. CASE \E l \in List : Destroy(l)
      BY <1>2, <2>4, DestroyKeeps
    <2>5. CASE UNCHANGED <<heap, first, last>>
      <3>1. Allocated' = Allocated /\ \A l \in List : Nodes(l)' = Nodes(l)
        BY <2>5, NodesReach DEF NextOf, Allocated
      <3>2. ChainOK' /\ CreatorOK'
        BY <1>1, <2>5, <3>1 DEF ChainOK, CreatorOK
      <3>3. HeapOK' /\ Attribution'
        BY <1>1, <2>5, <3>1 DEF HeapOK, Attribution
      <3> QED
        BY <3>2, <3>3
    <2> QED
      BY <1>1, <2>1, <2>2, <2>3, <2>4, <2>5, HeapStep
  <1> QED
    BY <1>1, <1>2, <1>3 DEF LInv

(* The invariant on which the theorems below rest: with the types, every   *)
(* chain of nodes ends at its list's last and nowhere else, the heap is    *)
(* the disjoint union of the chains, and a collector's nodes were created  *)
(* by its thread.                                                          *)
THEOREM ListInvariance == Spec => []LInv
  <1>1. Init => LInv
    BY InitLInv
  <1>2. LInv /\ [Next]_vars => LInv'
    BY LInvStep
  <1> QED
    BY <1>1, <1>2, PTL DEF Spec

(* No node of any list is ever filled beyond its capacity (push_any's      *)
(* assert), and first and last are null together (the asserts of reserve   *)
(* and drain_other).                                                       *)
THEOREM TypeCorrect == Spec => []TypeOK
  <1>1. LInv => TypeOK
    BY DEF LInv
  <1> QED
    BY <1>1, ListInvariance, PTL

(* reserve, safe_append, drain_other and destroy, in any order and on any  *)
(* number of lists, leak no node, free none twice and leave none reachable *)
(* from two lists or after it was freed.                                   *)
THEOREM Ownership == Spec => []OwnedOnce
  <1>1. ASSUME LInv PROVE OwnedOnce
    <2>1. TypeOK /\ ChainOK /\ HeapOK
      BY <1>1 DEF LInv
    <2>2. Allocated = UNION {Nodes(l) : l \in List}
      BY <2>1 DEF HeapOK
    <2>3. \A l, m \in List : l # m => Nodes(l) \cap Nodes(m) = {}
      BY <2>1 DEF HeapOK
    <2>4. \A l \in List : last[l] # Null =>
            last[l] \in Nodes(l) /\ heap[last[l]].next = Null
      BY <2>1 DEF ChainOK
    <2> QED
      BY <2>2, <2>3, <2>4 DEF OwnedOnce
  <1> QED
    BY <1>1, ListInvariance, PTL

(* Whatever lists a node passes through, the thread id in its header is    *)
(* that of the thread that recorded each of its events.                    *)
THEOREM Attributed == Spec => []Attribution
  <1>1. LInv => Attribution
    BY DEF LInv
  <1> QED
    BY <1>1, ListInvariance, PTL

-----------------------------------------------------------------------------
(* What the lists hold.                                                    *)
USE HeapIsFinite

LEMMA HeapSize ==
  Cardinality(Node) \in Nat
  BY FS_CardinalityType

Heaps == [Node -> [thread_id : Thread \cup {Null}, next : Node \cup {Null},
                   capacity : Nat, events : Seq(Event)]]

Row == [Node \cup {Null} -> Seq(Event)]

(* One more node in front of what row says of the rest. *)
Behind(nodes, row) ==
  [n \in Node \cup {Null} |->
     IF n = Null THEN <<>> ELSE nodes[n].events \o row[nodes[n].next]]

LEMMA BehindType ==
  ASSUME NEW nodes \in Heaps, NEW row \in Row
  PROVE  Behind(nodes, row) \in Row
  <1>1. ASSUME NEW n \in Node PROVE nodes[n].events \o row[nodes[n].next] \in Seq(Event)
    <2>1. nodes[n].events \in Seq(Event) /\ nodes[n].next \in Node \cup {Null}
      BY DEF Heaps
    <2>2. row[nodes[n].next] \in Seq(Event)
      BY <2>1 DEF Row
    <2> QED
      BY <2>1, <2>2, ConcatProperties
  <1>2. <<>> \in Seq(Event)
    OBVIOUS
  <1> QED
    BY <1>1, <1>2 DEF Behind, Row

(* Rows up to m, each one node deeper than the one before. *)
Rows(nodes, m, f) ==
  /\ f \in [0..m -> Row]
  /\ \A n \in Node \cup {Null} : f[0][n] = <<>>
  /\ \A k \in 1..m : f[k] = Behind(nodes, f[k - 1])

NoRow == [n \in Node \cup {Null} |-> <<>>]

RowStep(nodes) == [row \in Row |-> Behind(nodes, row)]

LEMMA RowSteps ==
  ASSUME NEW nodes \in Heaps
  PROVE  RowStep(nodes) \in [Row -> Row] /\ NoRow \in Row
  <1>1. <<>> \in Seq(Event)
    OBVIOUS
  <1> QED
    BY <1>1, BehindType DEF RowStep, NoRow, Row

LEMMA RowsIterate ==
  ASSUME NEW nodes \in Heaps, NEW m \in Nat, NEW f, Iterates(Row, RowStep(nodes), NoRow, m, f)
  PROVE  Rows(nodes, m, f)
  <1>1. \A k \in 1..m : k - 1 \in 0..m
    OBVIOUS
  <1>2. f \in [0..m -> Row] /\ \A k \in 1..m : f[k] = RowStep(nodes)[f[k - 1]]
    BY DEF Iterates
  <1>3. \A k \in 1..m : f[k] = Behind(nodes, f[k - 1])
    BY <1>1, <1>2 DEF RowStep
  <1>4. \A n \in Node \cup {Null} : f[0][n] = <<>>
    BY DEF Iterates, NoRow
  <1> QED
    BY <1>2, <1>3, <1>4 DEF Rows

(* EventsBehind is what its recursive definition says. *)
LEMMA EventsBehindRows ==
  ASSUME NEW nodes \in Heaps
  PROVE  Rows(nodes, Cardinality(Node), EventsBehind(nodes))
  <1> DEFINE N == Cardinality(Node)
             Def(f) == [k \in 0..N |->
                          [n \in Node \cup {Null} |->
                             IF k = 0 \/ n = Null THEN <<>>
                             ELSE nodes[n].events \o f[k - 1][nodes[n].next]]]
  <1>1. N \in Nat
    BY HeapSize
  <1>2. EventsBehind(nodes) = CHOOSE f : f = Def(f)
    BY DEF EventsBehind
  <1> HIDE DEF N
  <1>3. PICK f : Rows(nodes, N, f)
    <2>1. PICK step, row : step = RowStep(nodes) /\ row = NoRow
      OBVIOUS
    <2>2. step \in [Row -> Row] /\ row \in Row
      BY <2>1, RowSteps
    <2>3. PICK f : Iterates(Row, step, row, N, f)
      BY <1>1, <2>2, IteratesExist
    <2> QED
      BY <1>1, <2>1, <2>3, RowsIterate
  <1>4. f = Def(f)
    <2>1. f = [k \in 0..N |-> f[k]]
      BY <1>3 DEF Rows
    <2>2. ASSUME NEW k \in 0..N PROVE f[k] = Def(f)[k]
      <3>1. f[k] \in Row
        BY <1>3, <2>2 DEF Rows
      <3>2. f[k] = [n \in Node \cup {Null} |-> f[k][n]]
        BY <3>1 DEF Row
      <3>3. CASE k = 0
        <4>1. \A n \in Node \cup {Null} : f[k][n] = <<>>
          BY <1>3, <3>3 DEF Rows
        <4> QED
          BY <3>2, <3>3, <4>1
      <3>4. CASE k # 0
        <4>1. k \in 1..N
          BY <1>1, <3>4
        <4>2. f[k] = Behind(nodes, f[k - 1])
          BY <1>3, <4>1 DEF Rows
        <4> QED
          BY <3>4, <4>2 DEF Behind
      <3> QED
        BY <3>3, <3>4
    <2> QED
      BY <2>1, <2>2
  <1> HIDE DEF Def
  <1>5. EventsBehind(nodes) = Def(EventsBehind(nodes))
    BY <1>2, <1>4
  <1> DEFINE B == EventsBehind(nodes)
  <1> HIDE DEF B
  <1>6. B = Def(B)
    BY <1>5 DEF B
  <1> QED
    <2>1. /\ DOMAIN B = 0..N /\ B = [k \in 0..N |-> B[k]]
          /\ \A k \in 0..N : B[k] = [n \in Node \cup {Null} |->
                                     IF k = 0 \/ n = Null THEN <<>>
                                     ELSE nodes[n].events \o B[k - 1][nodes[n].next]]
      BY <1>6 DEF Def
    <2>2. ASSUME NEW k \in 1..N PROVE B[k] = Behind(nodes, B[k - 1])
      <3>1. k \in 0..N /\ k # 0
        BY <1>1
      <3>2. B[k] = [n \in Node \cup {Null} |->
                      IF k = 0 \/ n = Null THEN <<>>
                      ELSE nodes[n].events \o B[k - 1][nodes[n].next]]
        BY <2>1, <3>1
      <3> QED
        BY <3>1, <3>2 DEF Behind
    <2>3. 0 \in 0..N
      BY <1>1
    <2>4. B[0] = [n \in Node \cup {Null} |-> <<>>]
      BY <2>1, <2>3
    <2>5. PICK step, row : step = RowStep(nodes) /\ row = NoRow
      OBVIOUS
    <2>6. step \in [Row -> Row] /\ row \in Row
      BY <2>5, RowSteps
    <2>7. \A k \in 1..N : B[k - 1] \in Row => B[k] = step[B[k - 1]]
      BY <2>2, <2>5 DEF RowStep
    <2>8. B[0] = row
      BY <2>4, <2>5 DEF NoRow
    <2>9. Iterates(Row, step, row, N, B)
      BY <1>1, <2>1, <2>6, <2>7, <2>8, IteratesStay
    <2>10. Rows(nodes, N, B)
      BY <1>1, <2>5, <2>9, RowsIterate
    <2> QED
      BY <2>10 DEF B, N

-----------------------------------------------------------------------------
(* From node n of chain A there are r[n] nodes to the end of the chain. *)
Ranked(nodes, A, r) ==
  /\ A \in SUBSET Node
  /\ r \in [A -> 1..Cardinality(A)]
  /\ \A n \in A : \/ nodes[n].next = Null /\ r[n] = 1
                  \/ nodes[n].next \in A /\ r[n] = r[nodes[n].next] + 1

LEMMA RankedBound ==
  ASSUME NEW nodes, NEW A, NEW r, Ranked(nodes, A, r)
  PROVE  A \in SUBSET Node /\ \A n \in A : r[n] \in 1..Cardinality(Node)
  <1>1. A \in SUBSET Node /\ \A n \in A : r[n] \in 1..Cardinality(A)
    BY DEF Ranked
  <1>2. /\ Cardinality(A) \in Nat /\ Cardinality(Node) \in Nat
        /\ Cardinality(A) <= Cardinality(Node)
    BY <1>1, FS_Subset, FS_CardinalityType
  <1> QED
    BY <1>1, <1>2

(* Following more next pointers than a chain has finds nothing more. *)
LEMMA RowsStable ==
  ASSUME NEW nodes \in Heaps, NEW A, NEW r, Ranked(nodes, A, r),
         NEW N \in Nat, N = Cardinality(Node), NEW B, Rows(nodes, N, B),
         NEW n \in A, NEW k \in r[n]..N
  PROVE  B[k][n] = B[N][n]
  <1> DEFINE S == {i \in Nat : \A m \in A : r[m] <= i =>
                     \A j \in r[m]..N : B[j][m] = B[N][m]}
  <1>1. A \in SUBSET Node /\ \A m \in A : r[m] \in 1..N
    BY RankedBound
  <1>2. 0 \in S
    BY <1>1
  <1>3. ASSUME NEW i \in S PROVE i + 1 \in S
    <2>1. i \in Nat /\ i + 1 \in Nat
      BY <1>3
    <2>2. ASSUME NEW m \in A, r[m] <= i + 1, NEW j \in r[m]..N
          PROVE  B[j][m] = B[N][m]
      <3>1. j \in 1..N /\ N \in 1..N /\ m \in Node /\ m # Null
        BY <1>1, <2>2
      <3>2. /\ B[j][m] = nodes[m].events \o B[j - 1][nodes[m].next]
            /\ B[N][m] = nodes[m].events \o B[N - 1][nodes[m].next]
        <4>1. B[j] = Behind(nodes, B[j - 1]) /\ B[N] = Behind(nodes, B[N - 1])
          BY <3>1 DEF Rows
        <4> QED
          BY <3>1, <4>1 DEF Behind
      <3>3. CASE nodes[m].next = Null
        <4>1. \A h \in 0..N : B[h][Null] = <<>>
          <5>1. ASSUME NEW h \in 0..N PROVE B[h][Null] = <<>>
            <6>1. CASE h = 0
              BY <6>1 DEF Rows
            <6>2. CASE h # 0
              <7>1. h \in 1..N
                BY <6>2
              <7>2. B[h] = Behind(nodes, B[h - 1])
                BY <7>1 DEF Rows
              <7> QED
                BY <7>2 DEF Behind
            <6> QED
              BY <6>1, <6>2
          <5> QED
            BY <5>1
        <4>2. j - 1 \in 0..N /\ N - 1 \in 0..N
          BY <3>1
        <4> QED
          BY <3>2, <3>3, <4>1, <4>2
      <3>4. CASE nodes[m].next # Null
        <4> DEFINE x == nodes[m].next
        <4>1. x \in A /\ r[m] = r[x] + 1
          BY <2>2, <3>4 DEF Ranked
        <4> HIDE DEF x
        <4>2. r[x] \in 1..N
          BY <1>1, <4>1
        <4>3. r[x] <= i /\ j - 1 \in r[x]..N /\ N - 1 \in r[x]..N
          BY <1>1, <2>1, <2>2, <3>1, <4>1, <4>2
        <4>4. B[j - 1][x] = B[N][x] /\ B[N - 1][x] = B[N][x]
          BY <1>3, <4>1, <4>3
        <4> QED
          BY <3>2, <4>4 DEF x
      <3> QED
        BY <3>3, <3>4
    <2> QED
      BY <2>1, <2>2
  <1> HIDE DEF S
  <1>4. S \in SUBSET Nat
    BY DEF S
  <1>5. S = Nat
    BY <1>2, <1>3, <1>4, AllNaturals
  <1>6. r[n] \in Nat
    BY <1>1
  <1> QED
    BY <1>5, <1>6 DEF S

(* What is seen of a heap from each node, at any depth. *)
Seen(nodes) == EventsBehind(nodes)[Cardinality(Node)]

(* Along a chain, a node's events are followed by those of the next one. *)
Unfolds(nodes, A, D) ==
  /\ D \in Row
  /\ D[Null] = <<>>
  /\ \A n \in A : D[n] = nodes[n].events \o D[nodes[n].next]

LEMMA SeenUnfolds ==
  ASSUME NEW nodes \in Heaps, NEW A, NEW r, Ranked(nodes, A, r)
  PROVE  Unfolds(nodes, A, Seen(nodes))
  <1>1. PICK N, B : N = Cardinality(Node) /\ B = EventsBehind(nodes)
    OBVIOUS
  <1>2. N \in Nat /\ Rows(nodes, N, B) /\ Seen(nodes) = B[N]
    BY <1>1, HeapSize, EventsBehindRows DEF Seen
  <1>3. B[N] \in Row
    BY <1>2 DEF Rows
  <1>4. \A k \in 1..N : B[k] = Behind(nodes, B[k - 1])
    BY <1>2 DEF Rows
  <1>5. B[N][Null] = <<>>
    <2>1. CASE N = 0
      BY <1>2, <2>1 DEF Rows
    <2>2. CASE N # 0
      <3>1. N \in 1..N
        BY <1>2, <2>2
      <3> QED
        BY <1>4, <3>1 DEF Behind
    <2> QED
      BY <2>1, <2>2
  <1>6. ASSUME NEW n \in A PROVE B[N][n] = nodes[n].events \o B[N][nodes[n].next]
    <2>1. r[n] \in 1..N /\ n \in Node /\ n # Null
      BY <1>1, RankedBound
    <2>2. N \in 1..N /\ N - 1 \in 0..N
      BY <1>2, <2>1
    <2>3. B[N][n] = nodes[n].events \o B[N - 1][nodes[n].next]
      <3>1. B[N] = Behind(nodes, B[N - 1])
        BY <1>4, <2>2
      <3> QED
        BY <2>1, <3>1 DEF Behind
    <2>4. CASE nodes[n].next = Null
      <3>1. B[N - 1][Null] = <<>>
        <4>1. CASE N - 1 = 0
          BY <1>2, <4>1 DEF Rows
        <4>2. CASE N - 1 # 0
          <5>1. N - 1 \in 1..N
            BY <2>2, <4>2
          <5>2. B[N - 1] = Behind(nodes, B[(N - 1) - 1])
            BY <1>4, <5>1
          <5> QED
            BY <5>2 DEF Behind
        <4> QED
          BY <4>1, <4>2
      <3> QED
        BY <1>5, <2>3, <2>4, <3>1
    <2>5. CASE nodes[n].next # Null
      <3>1. nodes[n].next \in A /\ r[n] = r[nodes[n].next] + 1
        BY <2>5 DEF Ranked
      <3>2. r[nodes[n].next] \in 1..N
        BY <1>1, <3>1, RankedBound
      <3>3. N - 1 \in r[nodes[n].next]..N
        BY <1>2, <2>1, <3>1, <3>2
      <3>4. B[N - 1][nodes[n].next] = B[N][nodes[n].next]
        <4>1. PICK x, k : x = nodes[n].next /\ k = N - 1
          OBVIOUS
        <4>2. x \in A /\ k \in r[x]..N
          BY <3>1, <3>3, <4>1
        <4>3. B[k][x] = B[N][x]
          BY <1>1, <1>2, <4>2, RowsStable
        <4> QED
          BY <4>1, <4>3
      <3> QED
        BY <2>3, <3>4
    <2> QED
      BY <2>4, <2>5
  <1> QED
    BY <1>2, <1>3, <1>5, <1>6 DEF Unfolds

(* At the end of a chain E goes on with s where D does not. *)
Continues(nodes, A, D, E, s) ==
  /\ \A n \in A : nodes[n].next = Null => E[n] = D[n] \o s
  /\ \A n \in A : nodes[n].next # Null => E[n] = nodes[n].events \o E[nodes[n].next]

(* A chain that keeps its nodes and next pointers but, seen from its end,  *)
(* now goes on with s, goes on with s seen from each of its nodes.         *)
LEMMA ChainExtends ==
  ASSUME NEW nodes \in Heaps, NEW A, NEW r, Ranked(nodes, A, r),
         NEW D, Unfolds(nodes, A, D), NEW E \in Row, NEW s \in Seq(Event),
         Continues(nodes, A, D, E, s), NEW n \in A
  PROVE  E[n] = D[n] \o s
  <1> DEFINE S == {i \in Nat : \A m \in A : r[m] <= i => E[m] = D[m] \o s}
  <1>1. A \in SUBSET Node /\ \A m \in A : r[m] \in Nat \ {0}
    BY HeapSize, RankedBound
  <1>2. 0 \in S
    BY <1>1
  <1>3. ASSUME NEW i \in S PROVE i + 1 \in S
    <2>1. i \in Nat /\ i + 1 \in Nat
      BY <1>3
    <2>2. ASSUME NEW m \in A, r[m] <= i + 1 PROVE E[m] = D[m] \o s
      <3>1. CASE nodes[m].next = Null
        BY <3>1 DEF Continues
      <3>2. CASE nodes[m].next # Null
        <4>1. PICK x, ev : x = nodes[m].next /\ ev = nodes[m].events
          OBVIOUS
        <4>2. x \in A /\ r[m] = r[x] + 1
          BY <3>2, <4>1 DEF Ranked
        <4>3. r[x] <= i
          BY <1>1, <2>1, <2>2, <4>2
        <4>4. E[x] = D[x] \o s
          BY <1>3, <4>2, <4>3
        <4>5. E[m] = ev \o E[x] /\ D[m] = ev \o D[x]
          BY <3>2, <4>1 DEF Unfolds, Continues
        <4>6. m \in Node /\ x \in Node
          BY <1>1, <2>2, <4>2
        <4>7. ev \in Seq(Event) /\ D[x] \in Seq(Event)
          BY <4>1, <4>6 DEF Heaps, Unfolds, Row
        <4>8. ev \o (D[x] \o s) = (ev \o D[x]) \o s
          <5>1. PICK d : d = D[x]
            OBVIOUS
          <5>2. d \in Seq(Event)
            BY <4>7, <5>1
          <5>3. ev \o (d \o s) = (ev \o d) \o s
            BY <4>7, <5>2, ConcatAssociative
          <5> QED
            BY <5>1, <5>3
        <4> QED
          BY <4>4, <4>5, <4>8
      <3> QED
        BY <3>1, <3>2
    <2> QED
      BY <2>1, <2>2
  <1> HIDE DEF S
  <1>4. S \in SUBSET Nat
    BY DEF S
  <1>5. S = Nat
    BY <1>2, <1>3, <1>4, AllNaturals
  <1>6. r[n] \in Nat
    BY <1>1
  <1> QED
    BY <1>5, <1>6 DEF S

(* Nothing that is seen of a chain has changed. *)
LEMMA SeenSame ==
  ASSUME NEW nodes \in Heaps, NEW other \in Heaps, NEW A,
         NEW r, Ranked(nodes, A, r), NEW q, Ranked(other, A, q),
         \A n \in A : other[n].next = nodes[n].next /\ other[n].events = nodes[n].events,
         NEW n \in A \cup {Null}
  PROVE  Seen(other)[n] = Seen(nodes)[n]
  <1>1. PICK D, E : D = Seen(nodes) /\ E = Seen(other)
    OBVIOUS
  <1>2. Unfolds(nodes, A, D) /\ Unfolds(other, A, E)
    BY <1>1, SeenUnfolds
  <1>3. CASE n = Null
    BY <1>1, <1>2, <1>3 DEF Unfolds
  <1>4. CASE n \in A
    <2>1. \A m \in A : D[m] \in Seq(Event)
      BY <1>2 DEF Unfolds, Row, Ranked
    <2>2. ASSUME NEW m \in A, nodes[m].next = Null PROVE E[m] = D[m] \o <<>>
      <3>1. PICK ev : ev = nodes[m].events
        OBVIOUS
      <3>2. other[m].next = Null /\ other[m].events = ev
        BY <2>2, <3>1
      <3>3. D[Null] = <<>> /\ E[Null] = <<>>
        BY <1>2 DEF Unfolds
      <3>4. D[m] = ev \o D[Null]
        BY <1>2, <2>2, <3>1 DEF Unfolds
      <3>5. E[m] = ev \o E[Null]
        BY <1>2, <2>2, <3>2 DEF Unfolds
      <3>6. PICK d : d = D[m]
        OBVIOUS
      <3>7. d \o <<>> = d
        BY <2>1, <2>2, <3>6, ConcatEmptySeq
      <3> QED
        BY <3>3, <3>4, <3>5, <3>6, <3>7
    <2>3. ASSUME NEW m \in A, nodes[m].next # Null
          PROVE  E[m] = nodes[m].events \o E[nodes[m].next]
      <3>1. PICK x, ev : x = nodes[m].next /\ ev = nodes[m].events
        OBVIOUS
      <3>2. other[m].next = x /\ other[m].events = ev
        BY <2>3, <3>1
      <3>3. E[m] = ev \o E[x]
        BY <1>2, <2>3, <3>2 DEF Unfolds
      <3> QED
        BY <3>1, <3>3
    <2>4. PICK s : s = <<>>
      OBVIOUS
    <2>5. s \in Seq(Event) /\ E \in Row
      BY <1>2, <2>4 DEF Unfolds
    <2>6. Continues(nodes, A, D, E, s)
      BY <2>2, <2>3, <2>4 DEF Continues
    <2>7. E[n] = D[n] \o s
      BY <1>2, <1>4, <2>5, <2>6, ChainExtends
    <2>8. PICK d : d = D[n]
      OBVIOUS
    <2>9. d \o <<>> = d
      BY <1>4, <2>1, <2>8, ConcatEmptySeq
    <2> QED
      BY <1>1, <2>4, <2>7, <2>8, <2>9
  <1> QED
    BY <1>3, <1>4

(* A chain that went on at its end e with node f. *)
GoesOn(nodes, other, A, e, f) ==
  /\ e \in A /\ \A n \in A : nodes[n].next = Null <=> n = e
  /\ other[e].next = f
  /\ \A n \in A : other[n].events = nodes[n].events
  /\ \A n \in A \ {e} : other[n].next = nodes[n].next

SeenLonger(nodes, other, n, f) ==
  Seen(other)[n] = Seen(nodes)[n] \o Seen(other)[f]

LEMMA SeenJoin ==
  ASSUME NEW nodes \in Heaps, NEW other \in Heaps, NEW A,
         NEW r, Ranked(nodes, A, r), NEW C, A \subseteq C, NEW q, Ranked(other, C, q),
         NEW e, NEW f \in Node, GoesOn(nodes, other, A, e, f), NEW n \in A
  PROVE  SeenLonger(nodes, other, n, f)
  <1>0. /\ e \in A /\ \A m \in A : nodes[m].next = Null <=> m = e
        /\ other[e].next = f
        /\ \A m \in A : other[m].events = nodes[m].events
        /\ \A m \in A \ {e} : other[m].next = nodes[m].next
    BY DEF GoesOn
  <1> USE <1>0
  <1>1. PICK D, E, s : D = Seen(nodes) /\ E = Seen(other) /\ s = Seen(other)[f]
    OBVIOUS
  <1>2. Unfolds(nodes, A, D) /\ Unfolds(other, C, E)
    BY <1>1, SeenUnfolds
  <1>3. E \in Row /\ s \in Seq(Event)
    BY <1>1, <1>2 DEF Unfolds, Row
  <1>4. E[e] = D[e] \o s
    <2>1. E[e] = nodes[e].events \o s
      BY <1>1, <1>2 DEF Unfolds
    <2>2. D[e] = nodes[e].events \o <<>>
      <3>1. D[Null] = <<>> /\ nodes[e].next = Null
        BY <1>2 DEF Unfolds
      <3>2. D[e] = nodes[e].events \o D[nodes[e].next]
        BY <1>2 DEF Unfolds
      <3> QED
        BY <3>1, <3>2
    <2>3. nodes[e].events \in Seq(Event)
      BY DEF Ranked, Heaps
    <2> QED
      BY <2>1, <2>2, <2>3, ConcatEmptySeq
  <1>5. \A m \in A : nodes[m].next # Null => E[m] = nodes[m].events \o E[nodes[m].next]
    BY <1>2 DEF Unfolds
  <1>6. \A m \in A : nodes[m].next = Null => E[m] = D[m] \o s
    BY <1>4
  <1>7. E[n] = D[n] \o s
    <2>1. Continues(nodes, A, D, E, s)
      BY <1>5, <1>6 DEF Continues
    <2> QED
      BY <1>2, <1>3, <2>1, ChainExtends
  <1> QED
    BY <1>1, <1>7 DEF SeenLonger

(* An event was put into the node a chain ends with. *)
LEMMA SeenAppend ==
  ASSUME NEW nodes \in Heaps, NEW other \in Heaps, NEW A,
         NEW r, Ranked(nodes, A, r), NEW q, Ranked(other, A, q),
         NEW e \in A, \A n \in A : nodes[n].next = Null <=> n = e,
         NEW event \in Event, other[e].events = Append(nodes[e].events, event),
         \A n \in A \ {e} : other[n].events = nodes[n].events,
         \A n \in A : other[n].next = nodes[n].next,
         NEW n \in A
  PROVE  Seen(other)[n] = Append(Seen(nodes)[n], event)
  <1>1. PICK D, E, s : D = Seen(nodes) /\ E = Seen(other) /\ s = <<event>>
    OBVIOUS
  <1>2. Unfolds(nodes, A, D) /\ Unfolds(other, A, E)
    BY <1>1, SeenUnfolds
  <1>3. E \in Row /\ s \in Seq(Event)
    BY <1>1, <1>2 DEF Unfolds
  <1>4. E[e] = D[e] \o s
    <2>1. PICK ev : ev = nodes[e].events
      OBVIOUS
    <2>2. ev \in Seq(Event)
      BY <2>1 DEF Ranked, Heaps
    <2>3. E[e] = Append(ev, event) \o <<>> /\ D[e] = ev \o <<>>
      <3>1. PICK ev2 : ev2 = Append(ev, event)
        OBVIOUS
      <3>2. nodes[e].next = Null /\ other[e].next = Null /\ other[e].events = ev2
        BY <2>1, <3>1
      <3>3. D[Null] = <<>> /\ E[Null] = <<>>
        BY <1>2 DEF Unfolds
      <3>4. D[e] = ev \o D[Null]
        BY <1>2, <2>1, <3>2 DEF Unfolds
      <3>5. E[e] = ev2 \o E[Null]
        BY <1>2, <3>2 DEF Unfolds
      <3> QED
        BY <3>1, <3>3, <3>4, <3>5
    <2>4. Append(ev, event) = ev \o <<event>>
      BY <2>2, AppendIsConcat
    <2>5. Append(ev, event) \in Seq(Event)
      BY <2>2, AppendProperties
    <2>6. E[e] = Append(ev, event) /\ D[e] = ev
      BY <2>2, <2>3, <2>5, ConcatEmptySeq
    <2> QED
      BY <1>1, <2>4, <2>6
  <1>5. \A m \in A : nodes[m].next # Null => E[m] = nodes[m].events \o E[nodes[m].next]
    BY <1>2 DEF Unfolds
  <1>6. \A m \in A : nodes[m].next = Null => E[m] = D[m] \o s
    BY <1>4
  <1>7. E[n] = D[n] \o s
    <2>1. Continues(nodes, A, D, E, s)
      BY <1>5, <1>6 DEF Continues
    <2> QED
      BY <1>2, <1>3, <2>1, ChainExtends
  <1>8. D[n] \in Seq(Event)
    BY <1>2 DEF Unfolds, Row, Ranked
  <1>9. Append(D[n], event) = D[n] \o <<event>>
    <2>1. PICK d : d = D[n]
      OBVIOUS
    <2>2. d \in Seq(Event)
      BY <1>8, <2>1
    <2>3. Append(d, event) = d \o <<event>>
      BY <2>2, AppendIsConcat
    <2> QED
      BY <2>1, <2>3
  <1> QED
    BY <1>1, <1>7, <1>9

(* Two chains that became one. *)
LEMMA RankedJoin ==
  ASSUME NEW nodes, NEW other, NEW A, NEW B, A \cap B = {},
         NEW r, Ranked(nodes, A, r), NEW q, Ranked(nodes, B, q),
         NEW e \in A, \A n \in A : nodes[n].next = Null <=> n = e,
         NEW f \in B, other[e].next = f,
         \A n \in (A \cup B) \ {e} : other[n].next = nodes[n].next
  PROVE  \E p : Ranked(other, A \cup B, p)
  <1> DEFINE C == A \cup B
             p == [n \in C |-> IF n \in A THEN r[n] + q[f] ELSE q[n]]
  <1>1. /\ A \in SUBSET Node /\ B \in SUBSET Node
        /\ \A n \in A : r[n] \in 1..Cardinality(A)
        /\ \A n \in B : q[n] \in 1..Cardinality(B)
    BY DEF Ranked
  <1>2. IsFiniteSet(A) /\ IsFiniteSet(B)
    BY <1>1, FS_Subset
  <1>3. /\ Cardinality(A) \in Nat /\ Cardinality(B) \in Nat
        /\ Cardinality(C) = Cardinality(A) + Cardinality(B)
    <2>1. Cardinality(A \cap B) = 0
      BY FS_EmptySet
    <2>2. Cardinality(A) \in Nat /\ Cardinality(B) \in Nat
      BY <1>2, FS_CardinalityType
    <2>3. Cardinality(A \cup B) = Cardinality(A) + Cardinality(B) - Cardinality(A \cap B)
      BY <1>2, FS_Union
    <2> QED
      BY <2>1, <2>2, <2>3
  <1> HIDE DEF C
  <1>4. C \in SUBSET Node /\ A \subseteq C /\ \A n \in C : n \in A \/ (n \in B /\ n \notin A)
    BY <1>1 DEF C
  <1>5. p \in [C -> 1..Cardinality(C)]
    BY <1>1, <1>3, <1>4
  <1>6. ASSUME NEW n \in C
        PROVE  \/ other[n].next = Null /\ p[n] = 1
               \/ other[n].next \in C /\ p[n] = p[other[n].next] + 1
    <2>1. CASE n \in A /\ n # e
      <3>1. PICK x : x = nodes[n].next
        OBVIOUS
      <3>2. other[n].next = x /\ x \in A /\ r[n] = r[x] + 1
        BY <2>1, <3>1 DEF Ranked
      <3>3. p[n] = r[n] + q[f] /\ p[x] = r[x] + q[f] /\ x \in C
        BY <1>4, <2>1, <3>2
      <3> QED
        BY <1>1, <2>1, <3>2, <3>3
    <2>2. CASE n = e
      <3>1. r[e] = 1
        BY DEF Ranked
      <3>2. p[e] = r[e] + q[f] /\ p[f] = q[f] /\ f \in C
        BY <1>4 DEF C
      <3> QED
        BY <1>1, <2>2, <3>1, <3>2
    <2>3. CASE n \in B /\ n \notin A
      <3>1. PICK x : x = nodes[n].next
        OBVIOUS
      <3>2. other[n].next = x
        BY <2>3, <3>1
      <3>3. \/ x = Null /\ q[n] = 1
            \/ x \in B /\ q[n] = q[x] + 1
        BY <2>3, <3>1 DEF Ranked
      <3>4. p[n] = q[n] /\ (x \in B => p[x] = q[x] /\ x \in C)
        BY <1>4, <2>3 DEF C
      <3> QED
        BY <3>2, <3>3, <3>4
    <2> QED
      BY <1>4, <2>1, <2>2, <2>3
  <1> HIDE DEF p
  <1>7. Ranked(other, C, p)
    BY <1>4, <1>5, <1>6 DEF Ranked
  <1> QED
    BY <1>7 DEF C
-----------------------------------------------------------------------------
(* The chain of each list can be counted from its end: it has no cycle, and *)
(* no more nodes than there are.                                            *)
RankOK ==
  \A l \in List : \E r \in [Nodes(l) -> 1..Cardinality(Nodes(l))] :
                    Ranked(heap, Nodes(l), r)

CInv == LInv /\ RankOK

LEMMA HeapTyped ==
  /\ TypeOK => heap \in Heaps
  /\ HeapType' => heap' \in Heaps
  BY DEF TypeOK, HeapType, Heaps

LEMMA ContentsSeen ==
  ASSUME NEW l \in List
  PROVE  Contents(l) = Seen(heap)[first[l]] /\ Contents(l)' = Seen(heap')[first'[l]]
  BY DEF Contents, Seen

(* A single node is a chain. *)
LEMMA RankedSingle ==
  ASSUME NEW nodes, NEW n \in Node, nodes[n].next = Null
  PROVE  \E r : Ranked(nodes, {n}, r)
  <1> DEFINE r == [m \in {n} |-> 1]
  <1>1. 1 \in 1..Cardinality({n})
    BY FS_Singleton
  <1>2. Ranked(nodes, {n}, r)
    BY <1>1 DEF Ranked
  <1> QED
    BY <1>2

LEMMA RankedNone ==
  ASSUME NEW nodes
  PROVE  \E r : Ranked(nodes, {}, r)
  <1> DEFINE r == [m \in {} |-> 1]
  <1>1. Ranked(nodes, {}, r)
    BY DEF Ranked
  <1> QED
    BY <1>1

(* A list no step reached. *)
LEMMA KeptList ==
  ASSUME TypeOK, HeapType', RankOK, NEW l \in List, Nodes(l)' = Nodes(l), first'[l] = first[l],
         \A n \in Nodes(l) : heap'[n].next = heap[n].next /\ heap'[n].events = heap[n].events
  PROVE  /\ \E r : Ranked(heap', Nodes(l)', r)
         /\ Contents(l)' = Contents(l)
  <1>1. heap \in Heaps /\ heap' \in Heaps
    BY HeapTyped
  <1>2. PICK r : Ranked(heap, Nodes(l), r)
    BY DEF RankOK
  <1>3. Ranked(heap', Nodes(l), r)
    BY <1>2 DEF Ranked
  <1>4. first[l] \in Nodes(l) \cup {Null}
    BY NodesType DEF TypeOK
  <1>5. Seen(heap')[first[l]] = Seen(heap)[first[l]]
    BY <1>1, <1>2, <1>3, <1>4, SeenSame
  <1> QED
    BY <1>3, <1>5, ContentsSeen

LEMMA RanksOf ==
  ASSUME NEW nodes, NEW A, NEW r, Ranked(nodes, A, r)
  PROVE  r \in [A -> 1..Cardinality(A)]
  BY DEF Ranked

(* Linking a node that holds evts puts evts at the end of the list. *)
LEMMA LinkContents ==
  ASSUME CInv, NEW c \in Collector, NEW n \in Node, NEW capacity \in Nat \ {0},
         NEW evts \in Seq(Event), Len(evts) <= capacity, LinkNode(c, n, capacity, evts)
  PROVE  /\ RankOK'
         /\ Contents(c)' = Contents(c) \o evts
         /\ \A l \in List \ {c} : Contents(l)' = Contents(l)
  <1>1. TypeOK /\ ChainOK /\ HeapOK /\ RankOK /\ heap[n] = Unallocated
    BY DEF CInv, LInv, LinkNode
  <1>2. HeapType' /\ Linked(c, n, capacity, evts)
    BY <1>1, LinkType
  <1>3. Nodes(c)' = Nodes(c) \cup {n} /\ \A l \in List \ {c} : Nodes(l)' = Nodes(l)
    BY <1>1, <1>2, LinkNodes
  <1>4. heap \in Heaps /\ heap' \in Heaps
    BY <1>1, <1>2, HeapTyped
  <1>5. heap'[n].events = evts /\ heap'[n].next = Null
    BY <1>2 DEF Linked
  <1>6. \A l \in List : n \notin Nodes(l) /\ Nodes(l) \subseteq Node
    BY <1>1, LastIsNotFree, NodesType
  <1>7. ASSUME NEW l \in List \ {c}
        PROVE  (\E r : Ranked(heap', Nodes(l)', r)) /\ Contents(l)' = Contents(l)
    <2>1. ASSUME NEW m \in Nodes(l) PROVE m \in Node \ {n} /\ m # last[c]
      <3>1. last[c] # Null => last[c] \in Nodes(c)
        BY <1>1 DEF ChainOK
      <3> QED
        BY <1>1, <1>6, <2>1, <3>1 DEF HeapOK
    <2>2. first'[l] = first[l]
      BY <1>2 DEF Linked
    <2>3. \A m \in Nodes(l) : heap'[m].next = heap[m].next /\ heap'[m].events = heap[m].events
      BY <1>2, <2>1 DEF Linked
    <2> QED
      BY <1>1, <1>2, <1>3, <2>2, <2>3, KeptList
  <1>8. PICK r : Ranked(heap, Nodes(c), r)
    BY <1>1 DEF RankOK
  <1>9. Unfolds(heap, Nodes(c), Seen(heap))
    BY <1>4, <1>8, SeenUnfolds
  <1>10. (\E p : Ranked(heap', Nodes(c)', p)) /\ Contents(c)' = Contents(c) \o evts
    <2>1. CASE last[c] = Null
      <3>1. first[c] = Null /\ first'[c] = n /\ Nodes(c) = {}
        BY <1>1, <1>2, <2>1, NodesType DEF TypeOK, Linked
      <3>2. PICK p : Ranked(heap', {n}, p)
        BY <1>5, RankedSingle
      <3>3. Unfolds(heap', {n}, Seen(heap'))
        BY <1>4, <3>2, SeenUnfolds
      <3>4. Seen(heap')[n] = evts \o <<>> /\ Seen(heap)[Null] = <<>>
        BY <1>5, <1>9, <3>3 DEF Unfolds
      <3>5. evts \o <<>> = evts /\ <<>> \o evts = evts
        BY ConcatEmptySeq
      <3> QED
        BY <1>3, <3>1, <3>2, <3>4, <3>5, ContentsSeen
    <2>2. CASE last[c] # Null
      <3>1. PICK e, A, B : e = last[c] /\ A = Nodes(c) /\ B = {n}
        OBVIOUS
      <3>2. /\ A \cap B = {} /\ Ranked(heap, A, r) /\ e \in A /\ n \in B
            /\ \A m \in A : heap[m].next = Null <=> m = e
        BY <1>1, <1>6, <1>8, <2>2, <3>1 DEF ChainOK
      <3>3. /\ heap'[e].next = n
            /\ \A m \in A : heap'[m].events = heap[m].events
            /\ \A m \in (A \cup B) \ {e} : heap'[m].next = heap[m].next
        <4>1. heap[n].next = Null
          BY <1>1, UnallocatedType
        <4> QED
          BY <1>2, <1>5, <1>6, <2>2, <3>1, <4>1 DEF Linked
      <3>4. PICK q : Ranked(heap, B, q)
        BY <1>1, <3>1, RankedSingle, UnallocatedType
      <3>5. PICK nodes, other : nodes = heap /\ other = heap'
        OBVIOUS
      <3>6. \E p : Ranked(other, A \cup B, p)
        BY <3>2, <3>3, <3>4, <3>5, RankedJoin
      <3>7. PICK p : Ranked(other, A \cup B, p)
        BY <3>6
      <3>8. first[c] \in A /\ first'[c] = first[c]
        BY <1>1, <1>2, <2>2, <3>1, NodesType DEF TypeOK, Linked
      <3>9. PICK x : x = first[c]
        OBVIOUS
      <3>10. nodes \in Heaps /\ other \in Heaps
        BY <1>4, <3>5
      <3>11. Seen(other)[x] = Seen(nodes)[x] \o Seen(other)[n]
        <4>1. PICK C : C = A \cup B
          OBVIOUS
        <4>2. A \subseteq C /\ Ranked(other, C, p)
          BY <3>7, <4>1
        <4>3. x \in A /\ Ranked(nodes, A, r)
          BY <3>2, <3>5, <3>8, <3>9
        <4>4. GoesOn(nodes, other, A, e, n)
          BY <3>2, <3>3, <3>5 DEF GoesOn
        <4>5. SeenLonger(nodes, other, x, n)
          BY <3>10, <4>2, <4>3, <4>4, SeenJoin
        <4> QED
          BY <4>5 DEF SeenLonger
      <3>12. Seen(other)[n] = evts
        <4>1. Unfolds(other, A \cup B, Seen(other))
          BY <3>7, <3>10, SeenUnfolds
        <4>2. n \in A \cup B
          BY <3>2
        <4>3. Seen(other)[n] = evts \o <<>>
          BY <1>5, <3>5, <4>1, <4>2 DEF Unfolds
        <4> QED
          BY <4>3, ConcatEmptySeq
      <3>13. Contents(c)' = Contents(c) \o evts
        BY <3>5, <3>8, <3>9, <3>11, <3>12, ContentsSeen
      <3>14. Nodes(c)' = A \cup B
        BY <1>3, <3>1
      <3> QED
        BY <3>5, <3>7, <3>13, <3>14
    <2> QED
      BY <2>1, <2>2
  <1>11. \A l \in List : \E p : Ranked(heap', Nodes(l)', p)
    BY <1>7, <1>10
  <1>12. RankOK'
    BY <1>11, RanksOf DEF RankOK
  <1> QED
    BY <1>7, <1>10, <1>12
(* Putting an event into the last node puts it at the end of the list. *)
LEMMA PutContents ==
  ASSUME CInv, TypeOK', NEW c \in Collector, NEW event \in Event, PutIntoLast(c, event)
  PROVE  /\ RankOK'
         /\ Contents(c)' = Append(Contents(c), event)
         /\ \A l \in List \ {c} : Contents(l)' = Contents(l)
  <1>1. TypeOK /\ ChainOK /\ HeapOK /\ RankOK /\ HeapType'
    BY DEF CInv, LInv, TypeOK, HeapType
  <1>2. /\ last[c] \in Node /\ first' = first
        /\ heap' = [heap EXCEPT ![last[c]].events = Append(@, event)]
    BY DEF PutIntoLast
  <1>3. /\ heap'[last[c]].events = Append(heap[last[c]].events, event)
        /\ heap'[last[c]].next = heap[last[c]].next
        /\ \A n \in Node \ {last[c]} : heap'[n] = heap[n]
    <2>1. heap'[last[c]] = [heap[last[c]] EXCEPT !.events = Append(@, event)]
          /\ \A n \in Node \ {last[c]} : heap'[n] = heap[n]
      BY <1>1, <1>2 DEF TypeOK
    <2>2. heap[last[c]] \in [thread_id : Thread \cup {Null}, next : Node \cup {Null},
                             capacity : Nat, events : Seq(Event)]
      BY <1>1, <1>2 DEF TypeOK
    <2> QED
      BY <2>1, <2>2
  <1>4. \A n \in Node : heap'[n].next = heap[n].next
    BY <1>3
  <1>5. \A l \in List : Nodes(l)' = Nodes(l) /\ Nodes(l) \subseteq Node
    <2>1. NextOf' = NextOf
      BY <1>4 DEF NextOf
    <2> QED
      BY <1>1, <1>2, <2>1, NodesReach, NodesType
  <1>6. ASSUME NEW l \in List \ {c}
        PROVE  (\E r : Ranked(heap', Nodes(l)', r)) /\ Contents(l)' = Contents(l)
    <2>1. last[c] \notin Nodes(l)
      BY <1>1, <1>2 DEF ChainOK, HeapOK
    <2>2. \A n \in Nodes(l) : heap'[n].next = heap[n].next /\ heap'[n].events = heap[n].events
      BY <1>3, <1>5, <2>1
    <2> QED
      BY <1>1, <1>2, <1>5, <2>2, KeptList
  <1>7. (\E r : Ranked(heap', Nodes(c)', r)) /\ Contents(c)' = Append(Contents(c), event)
    <2>1. PICK A, e, x, nodes, other :
            A = Nodes(c) /\ e = last[c] /\ x = first[c] /\ nodes = heap /\ other = heap'
      OBVIOUS
    <2>2. nodes \in Heaps /\ other \in Heaps
      BY <1>1, <2>1, HeapTyped
    <2>3. PICK r : Ranked(nodes, A, r)
      BY <1>1, <2>1 DEF RankOK
    <2>4. A \subseteq Node
      BY <1>5, <2>1
    <2>5. Ranked(other, A, r)
      BY <1>4, <2>1, <2>3, <2>4 DEF Ranked
    <2>6. /\ e \in A /\ x \in A
          /\ \A n \in A : nodes[n].next = Null <=> n = e
          /\ other[e].events = Append(nodes[e].events, event)
          /\ \A n \in A \ {e} : other[n].events = nodes[n].events
          /\ \A n \in A : other[n].next = nodes[n].next
      <3>1. last[c] # Null /\ first[c] # Null
        BY <1>1, <1>2 DEF TypeOK
      <3> QED
        BY <1>1, <1>3, <1>4, <2>1, <2>4, <3>1, NodesType DEF ChainOK
    <2>7. Seen(other)[x] = Append(Seen(nodes)[x], event)
      BY <2>2, <2>3, <2>5, <2>6, SeenAppend
    <2> QED
      BY <1>2, <1>5, <2>1, <2>5, <2>7, ContentsSeen
  <1>8. \A l \in List : \E r : Ranked(heap', Nodes(l)', r)
    BY <1>6, <1>7
  <1>9. RankOK'
    BY <1>8, RanksOf DEF RankOK
  <1> QED
    BY <1>6, <1>7, <1>9

LEMMA ContentsType ==
  ASSUME TypeOK, RankOK, NEW l \in List
  PROVE  /\ Contents(l) \in Seq(Event)
         /\ last[l] = Null => Contents(l) = <<>>
  <1>1. PICK r : Ranked(heap, Nodes(l), r)
    BY DEF RankOK
  <1>2. Unfolds(heap, Nodes(l), Seen(heap))
    BY <1>1, HeapTyped, SeenUnfolds
  <1>3. first[l] \in Node \cup {Null} /\ (last[l] = Null => first[l] = Null)
    BY DEF TypeOK
  <1> QED
    BY <1>2, <1>3, ContentsSeen DEF Unfolds, Row

(* Draining puts everything behind what the other list holds. *)
LEMMA DrainContents ==
  ASSUME CInv, NEW to \in List, NEW from \in List, Drain(to, from)
  PROVE  /\ RankOK'
         /\ Contents(to)' = Contents(to) \o Contents(from)
         /\ Contents(from)' = <<>>
         /\ \A l \in List \ {to, from} : Contents(l)' = Contents(l)
  <1>1. /\ TypeOK /\ ChainOK /\ HeapOK /\ RankOK
        /\ to # from /\ DrainOther(to, from)
    BY DEF CInv, LInv, Drain
  <1>2. HeapType' /\ EndsType'
    BY <1>1, DrainType
  <1>3. /\ Nodes(to)' = Nodes(to) \cup Nodes(from)
        /\ Nodes(from)' = {}
        /\ \A l \in List \ {to, from} : Nodes(l)' = Nodes(l)
    BY <1>1, DrainNodes
  <1>4. /\ \A l \in List : Nodes(l) \subseteq Node
        /\ \A l \in List : last[l] = Null => Nodes(l) = {} /\ first[l] = Null
        /\ \A l \in List : last[l] # Null => first[l] \in Nodes(l)
    BY <1>1, NodesType DEF TypeOK
  <1>5. first'[from] = Null /\ \A l \in List \ {to, from} : first'[l] = first[l]
    BY <1>1, <1>4 DEF DrainOther, TypeOK
  <1>6. \A n \in Node : heap'[n].events = heap[n].events
    <2>1. CASE last[to] # Null /\ last[from] # Null
      <3>1. heap' = [heap EXCEPT ![last[to]].next = first[from]] /\ last[to] \in Node
        BY <1>1, <2>1 DEF DrainOther, TypeOK
      <3> QED
        BY <1>1, <3>1 DEF TypeOK
    <2>2. CASE ~(last[to] # Null /\ last[from] # Null)
      BY <1>1, <2>2 DEF DrainOther
    <2> QED
      BY <2>1, <2>2
  <1>7. \A n \in Node : n # last[to] => heap'[n].next = heap[n].next
    <2>1. CASE last[to] # Null /\ last[from] # Null
      <3>1. heap' = [heap EXCEPT ![last[to]].next = first[from]] /\ last[to] \in Node
        BY <1>1, <2>1 DEF DrainOther, TypeOK
      <3> QED
        BY <1>1, <3>1 DEF TypeOK
    <2>2. CASE ~(last[to] # Null /\ last[from] # Null)
      BY <1>1, <2>2 DEF DrainOther
    <2> QED
      BY <2>1, <2>2
  <1>8. ASSUME NEW l \in List \ {to, from}
        PROVE  (\E r : Ranked(heap', Nodes(l)', r)) /\ Contents(l)' = Contents(l)
    <2>1. \A n \in Nodes(l) : n \in Node /\ n # last[to]
      <3>1. last[to] # Null => last[to] \in Nodes(to)
        BY <1>1 DEF ChainOK
      <3>2. Nodes(l) \subseteq Node /\ Null \notin Nodes(l)
        BY <1>4
      <3>3. Nodes(l) \cap Nodes(to) = {}
        BY <1>1 DEF HeapOK
      <3> QED
        BY <3>1, <3>2, <3>3
    <2>2. \A n \in Nodes(l) : heap'[n].next = heap[n].next /\ heap'[n].events = heap[n].events
      BY <1>6, <1>7, <2>1
    <2> QED
      BY <1>1, <1>2, <1>3, <1>5, <2>2, KeptList
  <1>9. (\E r : Ranked(heap', Nodes(from)', r)) /\ Contents(from)' = <<>>
    <2>1. PICK other : other = heap'
      OBVIOUS
    <2>2. PICK r : Ranked(other, {}, r)
      BY RankedNone
    <2>3. other \in Heaps
      BY <1>2, <2>1, HeapTyped
    <2>4. Unfolds(other, {}, Seen(other))
      BY <2>2, <2>3, SeenUnfolds
    <2>5. Seen(other)[Null] = <<>>
      BY <2>4 DEF Unfolds
    <2> QED
      BY <1>3, <1>5, <2>1, <2>2, <2>5, ContentsSeen
  <1>10. PICK nodes, other, A, B, e, f, x :
           /\ nodes = heap /\ other = heap' /\ A = Nodes(to) /\ B = Nodes(from)
           /\ e = last[to] /\ f = first[from] /\ x = first[to]
    OBVIOUS
  <1>11. nodes \in Heaps /\ other \in Heaps
    BY <1>1, <1>2, <1>10, HeapTyped
  <1>12. PICK r, q : Ranked(nodes, A, r) /\ Ranked(nodes, B, q)
    BY <1>1, <1>10 DEF RankOK
  <1>13. (\E p : Ranked(heap', Nodes(to)', p)) /\ Contents(to)' = Contents(to) \o Contents(from)
    <2>1. CASE last[to] # Null /\ last[from] # Null
      <3>1. /\ heap' = [heap EXCEPT ![last[to]].next = first[from]] /\ last[to] \in Node
            /\ first'[to] = first[to]
        BY <1>1, <2>1 DEF DrainOther, TypeOK
      <3>2. A \cap B = {} /\ e \in A /\ f \in B /\ x \in A /\ A \subseteq Node /\ B \subseteq Node
        BY <1>1, <1>4, <1>10, <2>1 DEF ChainOK, HeapOK
      <3>3. \A n \in A : nodes[n].next = Null <=> n = e
        BY <1>1, <1>10 DEF ChainOK
      <3>4. other[e].next = f
        BY <1>1, <1>10, <3>1 DEF TypeOK
      <3>5. \A n \in (A \cup B) \ {e} : other[n].next = nodes[n].next
        BY <1>7, <1>10, <3>2
      <3>6. \A n \in A \cup B : other[n].events = nodes[n].events
        BY <1>6, <1>10, <3>2
      <3>7. \E p : Ranked(other, A \cup B, p)
        BY <1>12, <3>2, <3>3, <3>4, <3>5, RankedJoin
      <3>8. PICK p : Ranked(other, A \cup B, p)
        BY <3>7
      <3>9. PICK C : C = A \cup B
        OBVIOUS
      <3>10. A \subseteq C /\ Ranked(other, C, p) /\ f \in Node
        BY <3>2, <3>8, <3>9
      <3>11. Seen(other)[x] = Seen(nodes)[x] \o Seen(other)[f]
        <4>1. GoesOn(nodes, other, A, e, f)
          BY <3>2, <3>3, <3>4, <3>5, <3>6 DEF GoesOn
        <4>2. SeenLonger(nodes, other, x, f)
          BY <1>11, <1>12, <3>2, <3>10, <4>1, SeenJoin
        <4> QED
          BY <4>2 DEF SeenLonger
      <3>12. Ranked(other, B, q)
        <4>1. \A n \in B : other[n].next = nodes[n].next
          BY <3>2, <3>5
        <4> QED
          BY <1>12, <4>1 DEF Ranked
      <3>13. Seen(other)[f] = Seen(nodes)[f]
        <4>1. \A n \in B : other[n].next = nodes[n].next /\ other[n].events = nodes[n].events
          BY <3>2, <3>5, <3>6
        <4> QED
          BY <1>11, <1>12, <3>2, <3>12, <4>1, SeenSame
      <3> QED
        BY <1>3, <1>10, <3>1, <3>8, <3>11, <3>13, ContentsSeen
    <2>2. CASE last[to] # Null /\ last[from] = Null
      <3>1. heap' = heap /\ first' = first
        BY <1>1, <2>2 DEF DrainOther
      <3>2. Nodes(to)' = Nodes(to)
        BY <1>3, <1>4, <2>2
      <3>3. Contents(to) \in Seq(Event) /\ Contents(from) = <<>>
        BY <1>1, <2>2, ContentsType
      <3>4. Contents(to)' = Contents(to)
        BY <3>1, ContentsSeen
      <3>5. PICK s : s = Contents(to)
        OBVIOUS
      <3>6. s \o <<>> = s
        BY <3>3, <3>5, ConcatEmptySeq
      <3> QED
        BY <1>10, <1>12, <3>1, <3>2, <3>3, <3>4, <3>5, <3>6
    <2>3. CASE last[to] = Null
      <3>1. heap' = heap /\ first'[to] = first[from]
        BY <1>1, <2>3 DEF DrainOther, TypeOK
      <3>2. Nodes(to)' = Nodes(from)
        BY <1>3, <1>4, <2>3
      <3>3. Contents(from) \in Seq(Event) /\ Contents(to) = <<>>
        BY <1>1, <2>3, ContentsType
      <3>4. Contents(to)' = Contents(from)
        BY <3>1, ContentsSeen
      <3>5. PICK s : s = Contents(from)
        OBVIOUS
      <3>6. <<>> \o s = s
        BY <3>3, <3>5, ConcatEmptySeq
      <3> QED
        BY <1>10, <1>12, <3>1, <3>2, <3>3, <3>4, <3>5, <3>6
    <2> QED
      BY <2>1, <2>2, <2>3
  <1>14. \A l \in List : \E r1 : Ranked(heap', Nodes(l)', r1)
    BY <1>8, <1>9, <1>13
  <1>15. RankOK'
    BY <1>14, RanksOf DEF RankOK
  <1> QED
    BY <1>8, <1>9, <1>13, <1>15

LEMMA DestroyContents ==
  ASSUME CInv, NEW l \in List, Destroy(l)
  PROVE  /\ RankOK'
         /\ Contents(l)' = <<>>
         /\ \A m \in List \ {l} : Contents(m)' = Contents(m)
  <1>1. TypeOK /\ HeapOK /\ RankOK
    BY DEF CInv, LInv
  <1>2. /\ HeapType' /\ Nodes(l)' = {}
        /\ \A m \in List \ {l} : Nodes(m)' = Nodes(m)
    BY <1>1, DestroyNodes
  <1>3. /\ \A n \in Node \ Nodes(l) : heap'[n] = heap[n]
        /\ first'[l] = Null /\ \A m \in List \ {l} : first'[m] = first[m]
    BY <1>1 DEF Destroy, TypeOK
  <1>4. ASSUME NEW m \in List \ {l}
        PROVE  (\E r : Ranked(heap', Nodes(m)', r)) /\ Contents(m)' = Contents(m)
    <2>1. \A n \in Nodes(m) : n \in Node \ Nodes(l)
      BY <1>1, NodesType DEF HeapOK
    <2>2. \A n \in Nodes(m) : heap'[n].next = heap[n].next /\ heap'[n].events = heap[n].events
      BY <1>3, <2>1
    <2> QED
      BY <1>1, <1>2, <1>3, <2>2, KeptList
  <1>5. (\E r : Ranked(heap', Nodes(l)', r)) /\ Contents(l)' = <<>>
    <2>1. PICK other : other = heap'
      OBVIOUS
    <2>2. PICK r : Ranked(other, {}, r)
      BY RankedNone
    <2>3. other \in Heaps
      BY <1>2, <2>1, HeapTyped
    <2>4. Unfolds(other, {}, Seen(other))
      BY <2>2, <2>3, SeenUnfolds
    <2>5. Seen(other)[Null] = <<>>
      BY <2>4 DEF Unfolds
    <2> QED
      BY <1>2, <1>3, <2>1, <2>2, <2>5, ContentsSeen
  <1>6. \A m \in List : \E r : Ranked(heap', Nodes(m)', r)
    BY <1>4, <1>5
  <1>7. RankOK'
    BY <1>6, RanksOf DEF RankOK
  <1> QED
    BY <1>4, <1>5, <1>7

-----------------------------------------------------------------------------
LEMMA SameContents ==
  ASSUME UNCHANGED <<heap, first>>, RankOK
  PROVE  RankOK' /\ \A l \in List : Contents(l)' = Contents(l)
  <1>1. \A l \in List : Nodes(l)' = Nodes(l)
    BY NodesReach DEF NextOf
  <1>2. RankOK'
    BY <1>1 DEF RankOK
  <1>3. \A l \in List : Contents(l)' = Contents(l)
    BY ContentsSeen
  <1> QED
    BY <1>2, <1>3

LEMMA ReserveContents ==
  ASSUME CInv, NEW c \in Collector, NEW r \in Request, Reserve(c, r)
  PROVE  RankOK' /\ recorded' = recorded /\ \A l \in List : Contents(l)' = Contents(l)
  <1>1. TypeOK /\ RankOK
    BY DEF CInv, LInv
  <1> DEFINE capacity == IF r <= 0 THEN DefaultCapacity ELSE r
  <1>2. capacity \in Nat \ {0}
    OBVIOUS
  <1>3. /\ recorded' = recorded
        /\ \/ \E n \in Node : LinkNode(c, n, capacity, <<>>)
           \/ UNCHANGED <<heap, first, last>>
    BY DEF Reserve
  <1> HIDE DEF capacity
  <1>4. CASE \E n \in Node : LinkNode(c, n, capacity, <<>>)
    <2>0. PICK evts : evts = <<>>
      OBVIOUS
    <2>1. PICK n \in Node : LinkNode(c, n, capacity, evts)
      BY <1>4, <2>0
    <2>2. evts \in Seq(Event) /\ Len(evts) <= capacity
      BY <1>2, <2>0
    <2>3. /\ RankOK' /\ Contents(c)' = Contents(c) \o evts
          /\ \A l \in List \ {c} : Contents(l)' = Contents(l)
      BY <1>2, <2>1, <2>2, LinkContents
    <2>4. PICK s : s = Contents(c)
      OBVIOUS
    <2>5. s \in Seq(Event)
      BY <1>1, <2>4, ContentsType
    <2>6. s \o <<>> = s
      BY <2>5, ConcatEmptySeq
    <2> QED
      BY <1>3, <2>0, <2>3, <2>4, <2>6
  <1>5. CASE UNCHANGED <<heap, first, last>>
    BY <1>1, <1>3, <1>5, SameContents
  <1> QED
    BY <1>3, <1>4, <1>5

LEMMA AppendContents ==
  ASSUME CInv, TypeOK', NEW c \in Collector, AppendEvent(c)
  PROVE  /\ RankOK'
         /\ recorded' = [recorded EXCEPT ![c] = @ + 1]
         /\ Contents(c)' = Append(Contents(c), <<c, recorded[c] + 1>>)
         /\ \A l \in List \ {c} : Contents(l)' = Contents(l)
  <1>1. TypeOK /\ RankOK
    BY DEF CInv, LInv
  <1>2. PICK event : event = <<c, recorded[c] + 1>>
    OBVIOUS
  <1>3. event \in Event
    BY <1>1, <1>2 DEF Event, TypeOK
  <1>4. recorded' = [recorded EXCEPT ![c] = @ + 1]
    BY DEF AppendEvent
  <1>5. CASE FreeCapacity(c) >= 1
    <2>1. last[c] # Null
      BY <1>5 DEF FreeCapacity
    <2>2. last[c] \in Node
      BY <1>1, <2>1 DEF TypeOK
    <2>3. Len(heap[last[c]].events) \in Nat /\ heap[last[c]].capacity \in Nat
      BY <1>1, <2>2 DEF TypeOK
    <2>4. Len(heap[last[c]].events) < heap[last[c]].capacity /\ FreeCapacity(c) \in Int
      BY <1>5, <2>1, <2>3 DEF FreeCapacity
    <2>5. heap' = [heap EXCEPT ![last[c]].events = Append(@, event)] /\ UNCHANGED <<first, last>>
      BY <1>2, <1>5, <2>4 DEF AppendEvent
    <2>6. PutIntoLast(c, event)
      BY <2>2, <2>4, <2>5 DEF PutIntoLast
    <2> QED
      BY <1>2, <1>3, <1>4, <2>6, PutContents
  <1>6. CASE ~(FreeCapacity(c) >= 1)
    <2>1. PICK capacity, evts : capacity = default_node_capacity[c] /\ evts = <<event>>
      OBVIOUS
    <2>2. \E n \in Node : LinkNode(c, n, capacity, evts)
      BY <1>2, <1>6, <2>1 DEF AppendEvent
    <2>3. PICK n \in Node : LinkNode(c, n, capacity, evts)
      BY <2>2
    <2>4. /\ capacity \in Nat \ {0}
          /\ evts \in Seq(Event) /\ Len(evts) = 1
      BY <1>1, <1>3, <2>1 DEF TypeOK
    <2>5. Len(evts) <= capacity
      BY <2>4
    <2>6. /\ RankOK' /\ Contents(c)' = Contents(c) \o evts
          /\ \A l \in List \ {c} : Contents(l)' = Contents(l)
      BY <2>3, <2>4, <2>5, LinkContents
    <2>7. PICK s : s = Contents(c)
      OBVIOUS
    <2>8. s \in Seq(Event)
      BY <1>1, <2>7, ContentsType
    <2>9. Append(s, event) = s \o <<event>>
      BY <1>3, <2>8, AppendIsConcat
    <2> QED
      BY <1>2, <1>4, <2>1, <2>6, <2>7, <2>9
  <1> QED
    BY <1>5, <1>6

LEMMA InitCInv ==
  ASSUME Init
  PROVE  CInv /\ Seqs!Init
  <1>1. LInv
    BY InitLInv
  <1>2. \A l \in List : Nodes(l) = {} /\ first[l] = Null /\ last[l] = Null
    BY NodesReach, ReachNone DEF Init
  <1>3. \A l \in List : \E r : Ranked(heap, Nodes(l), r)
    BY <1>2, RankedNone
  <1>4. RankOK
    BY <1>3, RanksOf DEF RankOK
  <1>5. \A l \in List : Contents(l) = <<>>
    BY <1>1, <1>2, <1>4, ContentsType DEF LInv
  <1> QED
    BY <1>1, <1>4, <1>5 DEF CInv, Seqs!Init, Seqs!List, Init

(* Every step of the linked nodes is one of the sequences, or none. *)
LEMMA CInvStep ==
  ASSUME CInv, [Next]_vars
  PROVE  CInv' /\ [Seqs!Next]_(Seqs!seqVars)
  <1>1. LInv' /\ TypeOK' /\ RankOK
    BY LInvStep DEF CInv, LInv
  <1> DEFINE H == [l \in List |-> Contents(l)]
  <1>2. CASE \E c \in Collector, r \in Request : Reserve(c, r)
    <2>1. RankOK' /\ recorded' = recorded /\ \A l \in List : Contents(l)' = Contents(l)
      BY <1>2, ReserveContents
    <2>2. H' = H
      BY <2>1
    <2> QED
      BY <1>1, <2>1, <2>2 DEF CInv, Seqs!seqVars, Seqs!List
  <1>3. CASE \E c \in Collector : AppendEvent(c)
    <2>1. PICK c \in Collector : AppendEvent(c)
      BY <1>3
    <2>2. /\ RankOK' /\ recorded' = [recorded EXCEPT ![c] = @ + 1]
          /\ Contents(c)' = Append(Contents(c), <<c, recorded[c] + 1>>)
          /\ \A l \in List \ {c} : Contents(l)' = Contents(l)
      BY <1>1, <2>1, AppendContents
    <2>3. H' = [H EXCEPT ![c] = Append(@, <<c, recorded[c] + 1>>)]
      BY <2>2
    <2>4. Seqs!Append1(c)
      BY <2>2, <2>3 DEF Seqs!Append1, Seqs!List
    <2> QED
      BY <1>1, <2>2, <2>4 DEF CInv, Seqs!Next
  <1>4. CASE \E to, from \in List : Drain(to, from)
    <2>1. PICK to \in List, from \in List : Drain(to, from)
      BY <1>4
    <2>2. /\ RankOK' /\ to # from /\ recorded' = recorded
          /\ Contents(to)' = Contents(to) \o Contents(from)
          /\ Contents(from)' = <<>>
          /\ \A l \in List \ {to, from} : Contents(l)' = Contents(l)
      BY <2>1, DrainContents DEF Drain
    <2>3. H' = [H EXCEPT ![to] = @ \o H[from], ![from] = <<>>]
      BY <2>2
    <2>4. Seqs!Drain(to, from)
      BY <2>2, <2>3 DEF Seqs!Drain, Seqs!List
    <2> QED
      BY <1>1, <2>2, <2>4 DEF CInv, Seqs!Next, Seqs!List
  <1>5. CASE \E l \in List : Destroy(l)
    <2>1. PICK l \in List : Destroy(l)
      BY <1>5
    <2>2. /\ RankOK' /\ recorded' = recorded
          /\ Contents(l)' = <<>> /\ \A m \in List \ {l} : Contents(m)' = Contents(m)
      BY <2>1, DestroyContents DEF Destroy
    <2>3. H' = [H EXCEPT ![l] = <<>>]
      BY <2>2
    <2>4. Seqs!Destroy(l)
      BY <2>2, <2>3 DEF Seqs!Destroy, Seqs!List
    <2> QED
      BY <1>1, <2>2, <2>4 DEF CInv, Seqs!Next, Seqs!List
  <1>6. CASE UNCHANGED vars
    <2>1. RankOK' /\ recorded' = recorded /\ \A l \in List : Contents(l)' = Contents(l)
      BY <1>1, <1>6, SameContents DEF vars
    <2>2. H' = H
      BY <2>1
    <2> QED
      BY <1>1, <2>1, <2>2 DEF CInv, Seqs!seqVars, Seqs!List
  <1> QED
    BY <1>2, <1>3, <1>4, <1>5, <1>6 DEF Next

(* The invariant on which the theorems below rest: the chain of each list  *)
(* can be counted from its end, so that it has no cycle.                   *)
THEOREM ContentsInvariance == Spec => []CInv
  <1>1. Init => CInv
    BY InitCInv
  <1>2. CInv /\ [Next]_vars => CInv'
    BY CInvStep
  <1> QED
    BY <1>1, <1>2, PTL DEF Spec

(* list::reserve, safe_append, drain_other and destroy on linked nodes do   *)
(* to what the lists hold what EventSeqs says: an event goes to the end of  *)
(* its list, draining moves everything in order and leaves nothing behind,  *)
(* reserving shows nowhere, and no operation touches a third list.          *)
THEOREM ListImplementsSeqs == Spec => ImplementsSeqs
  <1>1. Init => CInv /\ Seqs!Init
    BY InitCInv
  <1>2. CInv /\ [Next]_vars => CInv' /\ [Seqs!Next]_(Seqs!seqVars)
    BY CInvStep
  <1> QED
    BY <1>1, <1>2, PTL DEF Spec, ImplementsSeqs, Seqs!Spec

-----------------------------------------------------------------------------
(* get_first_valid_and_nonempty_or_nullptr: an empty node adds nothing. *)
FirstSeen(nodes, A, n, m) ==
  /\ m \in A \cup {Null}
  /\ m # Null => nodes[m].events # <<>>
  /\ Seen(nodes)[m] = Seen(nodes)[n]

(* The nodes k next pointers away. *)
NodeStep(nodes, A) ==
  [x \in A \cup {Null} |-> IF x = Null THEN Null ELSE nodes[x].next]

SkipsEmpty(nodes, n, N, after) ==
  /\ after[N] = Null
  /\ \A k \in 0..N :
       (\A j \in 0..N : j < k => after[j] # Null /\ nodes[after[j]].events = <<>>)
          => Seen(nodes)[after[k]] = Seen(nodes)[n]

LEMMA StepsFromNode ==
  ASSUME NEW nodes \in Heaps, NEW A, NEW r, Ranked(nodes, A, r), NEW n \in A \cup {Null},
         NEW N \in Nat, N = Cardinality(Node),
         NEW after, Iterates(A \cup {Null}, NodeStep(nodes, A), n, N, after)
  PROVE  SkipsEmpty(nodes, n, N, after)
  <1>1. /\ \A k \in 0..N : after[k] \in A \cup {Null}
        /\ after[0] = n
        /\ \A k \in 1..N : k - 1 \in 0..N
        /\ \A k \in 1..N : after[k] = NodeStep(nodes, A)[after[k - 1]]
    BY DEF Iterates
  <1>2. \A k \in 1..N : after[k] = IF after[k - 1] = Null THEN Null ELSE nodes[after[k - 1]].next
    BY <1>1 DEF NodeStep
  <1>3. A \in SUBSET Node /\ \A m \in A : r[m] \in 1..N
    BY RankedBound
  <1>4. after[N] = Null
    <2> DEFINE S == {i \in Nat : i <= N => after[i] = Null \/ r[after[i]] + i <= N}
    <2>1. 0 \in S
      BY <1>1, <1>3
    <2>2. ASSUME NEW i \in S PROVE i + 1 \in S
      <3>1. i \in Nat /\ i + 1 \in Nat
        BY <2>2
      <3>2. ASSUME i + 1 <= N PROVE after[i + 1] = Null \/ r[after[i + 1]] + (i + 1) <= N
        <4>1. PICK j, x, y : j = i + 1 /\ x = after[i] /\ y = after[j]
          OBVIOUS
        <4>2. j \in 1..N /\ j - 1 = i /\ i \in 0..N /\ i <= N
          BY <3>1, <3>2, <4>1
        <4>3. y = IF x = Null THEN Null ELSE nodes[x].next
          BY <1>2, <4>1, <4>2
        <4>4. x = Null \/ r[x] + i <= N
          BY <2>2, <4>1, <4>2
        <4>5. CASE x # Null /\ y # Null
          <5>1. x \in A
            BY <1>1, <4>1, <4>2, <4>5
          <5>2. y \in A /\ r[x] = r[y] + 1
            BY <4>3, <4>5, <5>1 DEF Ranked
          <5>3. r[y] + j <= N
            BY <1>3, <3>1, <4>1, <4>4, <4>5, <5>1, <5>2
          <5> QED
            BY <4>1, <5>3
        <4> QED
          BY <4>1, <4>3, <4>5
      <3> QED
        BY <3>1, <3>2
    <2> HIDE DEF S
    <2>3. S \in SUBSET Nat
      BY DEF S
    <2>4. S = Nat
      BY <2>1, <2>2, <2>3, AllNaturals
    <2>5. after[N] = Null \/ r[after[N]] + N <= N
      BY <2>4 DEF S
    <2>6. N \in 0..N
      OBVIOUS
    <2>7. ASSUME after[N] # Null PROVE FALSE
      <3>1. r[after[N]] \in 1..N
        BY <1>1, <1>3, <2>6, <2>7
      <3> QED
        BY <2>5, <2>7, <3>1
    <2> QED
      BY <2>7
  <1>5. PICK D : D = Seen(nodes)
    OBVIOUS
  <1>6. Unfolds(nodes, A, D)
    BY <1>5, SeenUnfolds
  <1>7. ASSUME NEW k \in 0..N,
               \A j \in 0..N : j < k => after[j] # Null /\ nodes[after[j]].events = <<>>
        PROVE  D[after[k]] = D[n]
    <2> DEFINE S == {i \in Nat : i <= k => D[after[i]] = D[n]}
    <2>1. 0 \in S
      BY <1>1
    <2>2. ASSUME NEW i \in S PROVE i + 1 \in S
      <3>1. i \in Nat /\ i + 1 \in Nat
        BY <2>2
      <3>2. ASSUME i + 1 <= k PROVE D[after[i + 1]] = D[n]
        <4>1. PICK j, x, y : j = i + 1 /\ x = after[i] /\ y = after[j]
          OBVIOUS
        <4>2. j \in 1..N /\ j - 1 = i /\ i \in 0..N /\ i < k /\ i <= k
          BY <3>1, <3>2, <4>1
        <4>3. x # Null /\ nodes[x].events = <<>> /\ D[x] = D[n]
          <5>1. after[i] # Null /\ nodes[after[i]].events = <<>>
            BY <1>7, <4>2
          <5>2. D[after[i]] = D[n]
            BY <2>2, <4>2
          <5> QED
            BY <4>1, <5>1, <5>2
        <4>4. y = nodes[x].next /\ x \in A
          BY <1>1, <1>2, <4>1, <4>2, <4>3
        <4>5. D[x] = <<>> \o D[y]
          BY <1>6, <4>3, <4>4 DEF Unfolds
        <4>6. D[y] \in Seq(Event)
          <5>1. y \in Node \cup {Null}
            BY <1>3, <4>4 DEF Ranked
          <5> QED
            BY <1>6, <5>1 DEF Unfolds, Row
        <4>7. <<>> \o D[y] = D[y]
          BY <4>6, ConcatEmptySeq
        <4> QED
          BY <4>1, <4>3, <4>5, <4>7
      <3> QED
        BY <3>1, <3>2
    <2> HIDE DEF S
    <2>3. S \in SUBSET Nat
      BY DEF S
    <2>4. S = Nat
      BY <2>1, <2>2, <2>3, AllNaturals
    <2> QED
      BY <2>4 DEF S
  <1> QED
    BY <1>4, <1>5, <1>7 DEF SkipsEmpty

LEMMA FirstNonEmptySeen ==
  ASSUME TypeOK, NEW A, NEW r, Ranked(heap, A, r), NEW n \in A \cup {Null}
  PROVE  FirstSeen(heap, A, n, FirstNonEmpty(n))
  <1> DEFINE Def(f) == [k \in 0..Cardinality(Node) |->
                          IF k = 0 THEN n
                          ELSE IF f[k - 1] = Null THEN Null ELSE heap[f[k - 1]].next]
             after == CHOOSE f : f = Def(f)
             stops == {k \in 0..Cardinality(Node) :
                         after[k] = Null \/ heap[after[k]].events # <<>>}
             least == CHOOSE k \in stops : \A j \in stops : k <= j
  <1>1. FirstNonEmpty(n) = after[least]
    BY DEF FirstNonEmpty
  <1> HIDE DEF after, least
  <1>2. PICK N, step, T : /\ N = Cardinality(Node)
                          /\ step = NodeStep(heap, A) /\ T = A \cup {Null}
    OBVIOUS
  <1>3. N \in Nat /\ heap \in Heaps /\ A \in SUBSET Node
    BY <1>2, HeapSize, HeapTyped DEF Ranked
  <1>4. step \in [T -> T] /\ n \in T
    BY <1>2 DEF NodeStep, Ranked
  <1>5. Iterates(T, step, n, N, after)
    <2>1. PICK f : Iterates(T, step, n, N, f)
      BY <1>3, <1>4, IteratesExist
    <2>2. f = Def(f)
      <3>1. f = [k \in 0..N |-> f[k]]
        BY <2>1 DEF Iterates
      <3>2. \A k \in 0..N : k # 0 => k \in 1..N /\ k - 1 \in 0..N
        BY <1>3
      <3>3. \A k \in 0..N : k # 0 => f[k] = IF f[k - 1] = Null THEN Null ELSE heap[f[k - 1]].next
        BY <1>2, <2>1, <3>2 DEF Iterates, NodeStep
      <3>4. f[0] = n
        BY <2>1 DEF Iterates
      <3> QED
        BY <1>2, <3>1, <3>3, <3>4
    <2> HIDE DEF Def
    <2>3. after = Def(after)
      BY <2>2 DEF after
    <2>4. after = [k \in 0..N |-> IF k = 0 THEN n
                                  ELSE IF after[k - 1] = Null THEN Null
                                       ELSE heap[after[k - 1]].next]
      BY <1>2, <2>3 DEF Def
    <2>5. after = [k \in 0..N |-> after[k]] /\ after[0] = n
      BY <1>3, <2>4
    <2>6. \A k \in 1..N : after[k - 1] \in T => after[k] = step[after[k - 1]]
      <3>1. \A k \in 1..N : k \in 0..N /\ k # 0
        BY <1>3
      <3>2. \A k \in 1..N : after[k] = IF after[k - 1] = Null THEN Null
                                       ELSE heap[after[k - 1]].next
        BY <2>4, <3>1
      <3> QED
        BY <1>2, <3>2 DEF NodeStep
    <2> QED
      BY <1>3, <1>4, <2>5, <2>6, IteratesStay
  <1>6. /\ after[N] = Null
        /\ \A k \in 0..N :
             (\A j \in 0..N : j < k => after[j] # Null /\ heap[after[j]].events = <<>>)
                => Seen(heap)[after[k]] = Seen(heap)[n]
    <2>1. SkipsEmpty(heap, n, N, after)
      BY <1>2, <1>3, <1>5, StepsFromNode
    <2> QED
      BY <2>1 DEF SkipsEmpty
  <1>7. stops \in SUBSET Nat /\ N \in stops
    BY <1>2, <1>3, <1>6
  <1>8. least \in stops /\ \A j \in stops : least <= j
    <2>1. \E k \in stops : \A j \in stops : k <= j
      <3> HIDE DEF stops
      <3> QED
        BY <1>7, LeastNumber
    <2> QED
      BY <2>1 DEF least
  <1>9. least \in 0..N /\ (after[least] = Null \/ heap[after[least]].events # <<>>)
    BY <1>2, <1>8
  <1>10. \A j \in 0..N : j < least => after[j] # Null /\ heap[after[j]].events = <<>>
    <2>1. \A j \in 0..N : j \in stops => ~(j < least)
      BY <1>3, <1>8, <1>9
    <2> QED
      BY <1>2, <2>1
  <1>11. after[least] \in T
    BY <1>5, <1>9 DEF Iterates
  <1> QED
    BY <1>1, <1>2, <1>6, <1>9, <1>10, <1>11 DEF FirstSeen
-----------------------------------------------------------------------------
(* The iterators over chain A: cend(), and an index of each event. *)
Iterators(A) ==
  {it \in [node : A \cup {Null}, index : Nat] :
     IF it.node = Null THEN it.index = 0 ELSE it.index < Len(heap[it.node].events)}

(* s is what is left of c behind its first k events. *)
IsRest(s, c, k) ==
  /\ k \in Nat
  /\ Len(c) = k + Len(s)
  /\ \A i \in 1..Len(s) : s[i] = c[k + i]

LEMMA RestOfRest ==
  ASSUME NEW s \in Seq(Event), NEW t \in Seq(Event), NEW c \in Seq(Event), NEW k,
         IsRest(s \o t, c, k)
  PROVE  /\ IsRest(t, c, k + Len(s))
         /\ \A i \in 1..Len(s) : s[i] = c[k + i]
  <1>1. PICK m, n : m = Len(s) /\ n = Len(t)
    OBVIOUS
  <1>2. /\ m \in Nat /\ n \in Nat /\ Len(s \o t) = m + n
        /\ \A i \in 1..(m + n) : (s \o t)[i] = IF i <= m THEN s[i] ELSE t[i - m]
    BY <1>1, ConcatProperties, LenProperties
  <1>3. /\ k \in Nat /\ Len(c) = k + (m + n)
        /\ \A i \in 1..(m + n) : (s \o t)[i] = c[k + i]
    BY <1>2 DEF IsRest
  <1>4. \A i \in 1..m : s[i] = c[k + i]
    <2>1. \A i \in 1..m : i \in 1..(m + n) /\ i <= m
      BY <1>2
    <2> QED
      BY <1>2, <1>3, <2>1
  <1>5. ASSUME NEW i \in 1..n PROVE t[i] = c[(k + m) + i]
    <2>1. PICK j : j = m + i
      OBVIOUS
    <2>2. j \in 1..(m + n) /\ ~(j <= m) /\ j - m = i /\ k + j = (k + m) + i
      BY <1>2, <1>3, <2>1
    <2>3. t[i] = (s \o t)[j]
      BY <1>2, <2>2
    <2>4. (s \o t)[j] = c[k + j]
      BY <1>3, <2>2
    <2> QED
      BY <2>2, <2>3, <2>4
  <1> QED
    BY <1>1, <1>2, <1>3, <1>4, <1>5 DEF IsRest

(* Iterator it is at event k + 1 of c. *)
IsAt(A, c, it, k) ==
  /\ it \in Iterators(A)
  /\ it.node = Null => k = Len(c)
  /\ it.node # Null => it.index <= k /\ IsRest(Seen(heap)[it.node], c, k - it.index)

(* get_first_valid_and_nonempty_or_nullptr finds the next event there is. *)
LEMMA FirstIsAt ==
  ASSUME TypeOK, NEW A, NEW r, Ranked(heap, A, r), NEW n \in A \cup {Null},
         NEW c \in Seq(Event), NEW k \in Nat, IsRest(Seen(heap)[n], c, k)
  PROVE  IsAt(A, c, [node |-> FirstNonEmpty(n), index |-> 0], k)
  <1>1. PICK m, it : m = FirstNonEmpty(n) /\ it = [node |-> m, index |-> 0]
    OBVIOUS
  <1>2. FirstSeen(heap, A, n, m)
    BY <1>1, FirstNonEmptySeen
  <1>3. heap \in Heaps /\ A \in SUBSET Node
    BY HeapTyped DEF Ranked
  <1>4. IsRest(Seen(heap)[m], c, k)
    BY <1>2 DEF FirstSeen
  <1>5. m = Null => k = Len(c)
    <2>1. Seen(heap)[Null] = <<>>
      BY <1>3, SeenUnfolds DEF Unfolds
    <2> QED
      BY <1>4, <2>1 DEF IsRest
  <1>6. it \in Iterators(A)
    <2>1. m # Null => 0 < Len(heap[m].events)
      <3>1. ASSUME m # Null PROVE 0 < Len(heap[m].events)
        <4>1. PICK ev : ev = heap[m].events
          OBVIOUS
        <4>2. ev \in Seq(Event) /\ ev # <<>>
          BY <1>2, <1>3, <3>1, <4>1 DEF FirstSeen, Heaps
        <4>3. Len(ev) # 0 /\ Len(ev) \in Nat
          BY <4>2, EmptySeq, LenProperties
        <4> QED
          BY <4>1, <4>3
      <3> QED
        BY <3>1
    <2>2. m \in A \cup {Null}
      BY <1>2 DEF FirstSeen
    <2> QED
      BY <1>1, <2>1, <2>2 DEF Iterators
  <1>7. k - 0 = k /\ it.node = m /\ it.index = 0
    BY <1>1
  <1> QED
    BY <1>1, <1>4, <1>5, <1>6, <1>7 DEF IsAt

(* An iterator at event k + 1 dereferences to it and goes on to the next. *)
LEMMA AdvanceIsAt ==
  ASSUME TypeOK, NEW A, NEW r, Ranked(heap, A, r), NEW c \in Seq(Event), NEW k \in Nat,
         NEW it, IsAt(A, c, it, k), it.node # Null
  PROVE  /\ k < Len(c)
         /\ Deref(it).event = c[k + 1]
         /\ IsAt(A, c, Advance(it), k + 1)
  <1>1. PICK n, i, ev, t : /\ n = it.node /\ i = it.index
                           /\ ev = heap[n].events /\ t = Seen(heap)[heap[n].next]
    OBVIOUS
  <1>2. heap \in Heaps /\ A \in SUBSET Node /\ Unfolds(heap, A, Seen(heap))
    BY HeapTyped, SeenUnfolds DEF Ranked
  <1>3. n \in A /\ i \in Nat /\ i < Len(ev) /\ i <= k /\ it = [node |-> n, index |-> i]
    BY <1>1 DEF IsAt, Iterators
  <1>4. heap[n].next \in A \cup {Null} /\ n \in Node
    BY <1>2, <1>3 DEF Ranked
  <1>5. ev \in Seq(Event) /\ t \in Seq(Event)
    <2>1. heap[n].next \in Node \cup {Null}
      BY <1>2, <1>4
    <2> QED
      BY <1>1, <1>2, <1>4, <2>1 DEF Heaps, Unfolds, Row
  <1>6. Seen(heap)[n] = ev \o t
    BY <1>1, <1>2, <1>3 DEF Unfolds
  <1>7. IsRest(ev \o t, c, k - i)
    BY <1>1, <1>6 DEF IsAt
  <1>8. IsRest(t, c, (k - i) + Len(ev)) /\ \A j \in 1..Len(ev) : ev[j] = c[(k - i) + j]
    <2>1. PICK o : o = k - i
      OBVIOUS
    <2>2. IsRest(ev \o t, c, o)
      BY <1>7, <2>1
    <2> QED
      BY <1>5, <2>1, <2>2, RestOfRest
  <1>9. Len(ev) \in Nat /\ Len(t) \in Nat /\ Len(c) \in Nat
    BY <1>5, LenProperties
  <1>10. k < Len(c)
    BY <1>3, <1>8, <1>9 DEF IsRest
  <1>11. Deref(it).event = c[k + 1]
    <2>1. i + 1 \in 1..Len(ev) /\ (k - i) + (i + 1) = k + 1
      BY <1>3, <1>9
    <2>2. ev[i + 1] = c[k + 1]
      BY <1>8, <2>1
    <2> QED
      BY <1>1, <2>2 DEF Deref
  <1>12. IsAt(A, c, Advance(it), k + 1)
    <2>1. CASE i + 1 < Len(ev)
      <3>1. PICK at : at = Advance(it)
        OBVIOUS
      <3>2. at = [node |-> n, index |-> i + 1]
        BY <1>1, <1>3, <2>1, <3>1 DEF Advance
      <3>3. at \in Iterators(A)
        BY <1>1, <1>2, <1>3, <2>1, <3>2 DEF Iterators
      <3>4. (k + 1) - (i + 1) = k - i /\ i + 1 <= k + 1
        BY <1>3
      <3>5. at.node = n /\ at.index = i + 1 /\ n # Null
        BY <1>1, <3>2
      <3> QED
        BY <1>6, <1>7, <3>1, <3>3, <3>4, <3>5 DEF IsAt
    <2>2. CASE ~(i + 1 < Len(ev))
      <3>1. Advance(it) = [node |-> FirstNonEmpty(heap[n].next), index |-> 0]
        BY <1>1, <2>2 DEF Advance
      <3>2. (k - i) + Len(ev) = k + 1 /\ k + 1 \in Nat
        BY <1>3, <1>9, <2>2
      <3>3. PICK x : x = heap[n].next
        OBVIOUS
      <3>4. IsRest(Seen(heap)[x], c, k + 1)
        BY <1>1, <1>8, <3>2, <3>3
      <3>5. x \in A \cup {Null}
        BY <1>4, <3>3
      <3> QED
        BY <3>1, <3>2, <3>3, <3>4, <3>5, FirstIsAt
    <2> QED
      BY <2>1, <2>2
  <1> QED
    BY <1>10, <1>11, <1>12
LEMMA VisitsAll ==
  ASSUME TypeOK, NEW A, NEW r, Ranked(heap, A, r), NEW l \in List, first[l] \in A \cup {Null},
         NEW c \in Seq(Event), c = Contents(l), NEW k \in 0..Len(c)
  PROVE  IsAt(A, c, Visited(l)[k], k)
  <1> DEFINE Def(f) == [j \in 0..Len(Contents(l)) |->
                          IF j = 0 THEN Begin(l)
                          ELSE IF f[j - 1].node = Null THEN f[j - 1]
                          ELSE Advance(f[j - 1])]
  <1>1. Visited(l) = CHOOSE f : f = Def(f)
    BY DEF Visited
  <1>2. PICK total, begin : total = Len(c) /\ begin = Begin(l)
    OBVIOUS
  <1>3. total \in Nat
    BY <1>2, LenProperties
  <1> DEFINE T == {x \in Iterators(A) : \E j \in Nat : IsAt(A, c, x, j)}
             step == [x \in T |-> IF x.node = Null THEN x ELSE Advance(x)]
  <1>4. IsAt(A, c, begin, 0)
    <2>1. c = Seen(heap)[first[l]]
      BY ContentsSeen
    <2>2. IsRest(c, c, 0)
      BY <1>2, <1>3 DEF IsRest
    <2>3. PICK n : n = first[l]
      OBVIOUS
    <2>4. n \in A \cup {Null} /\ IsRest(Seen(heap)[n], c, 0)
      BY <2>1, <2>2, <2>3
    <2>5. 0 \in Nat
      OBVIOUS
    <2>6. IsAt(A, c, [node |-> FirstNonEmpty(n), index |-> 0], 0)
      BY <2>4, <2>5, FirstIsAt
    <2> QED
      BY <1>2, <2>3, <2>6 DEF Begin
  <1>5. begin \in T
    BY <1>4 DEF IsAt
  <1>6. step \in [T -> T]
    <2>1. ASSUME NEW x \in T, x.node # Null PROVE Advance(x) \in T
      <3>1. PICK j \in Nat : IsAt(A, c, x, j)
        BY <2>1
      <3>2. IsAt(A, c, Advance(x), j + 1)
        BY <2>1, <3>1, AdvanceIsAt
      <3> QED
        BY <3>1, <3>2 DEF IsAt
    <2> QED
      BY <2>1
  <1> HIDE DEF T
  <1>7. \A x \in T : step[x] = IF x.node = Null THEN x ELSE Advance(x)
    OBVIOUS
  <1> HIDE DEF step
  <1>8. PICK it : it = Visited(l)
    OBVIOUS
  <1>9. Iterates(T, step, begin, total, it)
    <2>1. PICK f : Iterates(T, step, begin, total, f)
      BY <1>3, <1>5, <1>6, IteratesExist
    <2>2. f = Def(f)
      <3>1. f = [j \in 0..total |-> f[j]]
        BY <2>1 DEF Iterates
      <3>2. \A j \in 0..total : j # 0 => j \in 1..total /\ j - 1 \in 0..total
        BY <1>3
      <3>3. \A j \in 0..total : f[j] \in T
        BY <2>1 DEF Iterates
      <3>4. \A j \in 0..total : j # 0 =>
              f[j] = IF f[j - 1].node = Null THEN f[j - 1] ELSE Advance(f[j - 1])
        <4>1. \A j \in 0..total : j # 0 => f[j] = step[f[j - 1]]
          BY <2>1, <3>2 DEF Iterates
        <4> QED
          BY <1>7, <3>2, <3>3, <4>1
      <3>5. f[0] = Begin(l)
        BY <1>2, <2>1 DEF Iterates
      <3> QED
        BY <1>2, <3>1, <3>4, <3>5
    <2> HIDE DEF Def
    <2>3. it = Def(it)
      BY <1>1, <1>8, <2>2
    <2>4. it = [j \in 0..total |-> IF j = 0 THEN begin
                                   ELSE IF it[j - 1].node = Null THEN it[j - 1]
                                   ELSE Advance(it[j - 1])]
      BY <1>2, <2>3 DEF Def
    <2>5. it = [j \in 0..total |-> it[j]] /\ it[0] = begin
      BY <1>3, <2>4
    <2>6. \A j \in 1..total : it[j - 1] \in T => it[j] = step[it[j - 1]]
      <3>1. \A j \in 1..total : j \in 0..total /\ j # 0
        BY <1>3
      <3>2. \A j \in 1..total : it[j] = IF it[j - 1].node = Null THEN it[j - 1]
                                       ELSE Advance(it[j - 1])
        BY <2>4, <3>1
      <3> QED
        BY <1>7, <3>2
    <2> QED
      BY <1>3, <1>5, <1>6, <2>5, <2>6, IteratesStay
  <1> DEFINE S == {j \in Nat : j <= total => IsAt(A, c, it[j], j)}
  <1>10. 0 \in S
    BY <1>4, <1>9 DEF Iterates
  <1>11. ASSUME NEW i \in S PROVE i + 1 \in S
    <2>1. i \in Nat /\ i + 1 \in Nat
      BY <1>11
    <2>2. ASSUME i + 1 <= total PROVE IsAt(A, c, it[i + 1], i + 1)
      <3>1. PICK x, j : x = it[i] /\ j = i + 1
        OBVIOUS
      <3>2. i < total /\ i <= total /\ i \in 0..total /\ j \in 1..total /\ j - 1 = i
        BY <1>3, <2>1, <2>2, <3>1
      <3>3. IsAt(A, c, x, i)
        BY <1>11, <3>1, <3>2
      <3>4. x.node # Null
        BY <1>2, <3>2, <3>3 DEF IsAt
      <3>5. it[j] = step[x] /\ x \in T
        BY <1>9, <3>1, <3>2 DEF Iterates
      <3>6. it[j] = Advance(x)
        BY <1>7, <3>4, <3>5
      <3>7. IsAt(A, c, Advance(x), i + 1)
        BY <2>1, <3>3, <3>4, AdvanceIsAt
      <3> QED
        BY <3>1, <3>6, <3>7
    <2> QED
      BY <2>1, <2>2
  <1> HIDE DEF S
  <1>12. S \in SUBSET Nat
    BY DEF S
  <1>13. S = Nat
    BY <1>10, <1>11, <1>12, AllNaturals
  <1> QED
    BY <1>2, <1>3, <1>8, <1>13 DEF S

(* A loop over a list from cbegin() until cend() visits each of its events  *)
(* once and in order, and passes over nodes that hold none, wherever the    *)
(* operations on lists left them.                                           *)
THEOREM IterationIsComplete == Spec => []IterationComplete
  <1>1. ASSUME CInv PROVE IterationComplete
    <2>1. TypeOK /\ RankOK
      BY <1>1 DEF CInv, LInv
    <2>2. ASSUME NEW l \in List
          PROVE  /\ \A k \in 1..Len(Contents(l)) :
                      /\ Visited(l)[k - 1].node # Null
                      /\ Deref(Visited(l)[k - 1]).event = Contents(l)[k]
                 /\ Visited(l)[Len(Contents(l))] = End
      <3>1. PICK A, c, it : A = Nodes(l) /\ c = Contents(l) /\ it = Visited(l)
        OBVIOUS
      <3>2. PICK r : Ranked(heap, A, r)
        BY <2>1, <3>1 DEF RankOK
      <3>3. c \in Seq(Event) /\ Len(c) \in Nat
        BY <2>1, <3>1, ContentsType, LenProperties
      <3>4. first[l] \in A \cup {Null}
        BY <2>1, <3>1, NodesType DEF TypeOK
      <3>5. \A k \in 0..Len(c) : IsAt(A, c, it[k], k)
        BY <2>1, <3>1, <3>2, <3>3, <3>4, VisitsAll
      <3>6. ASSUME NEW k \in 1..Len(c)
            PROVE  it[k - 1].node # Null /\ Deref(it[k - 1]).event = c[k]
        <4>1. PICK j, x : j = k - 1 /\ x = it[j]
          OBVIOUS
        <4>2. j \in Nat /\ j \in 0..Len(c) /\ j < Len(c) /\ j + 1 = k
          BY <3>3, <4>1
        <4>3. IsAt(A, c, x, j)
          BY <3>5, <4>1, <4>2
        <4>4. x.node # Null
          BY <4>2, <4>3 DEF IsAt
        <4>5. Deref(x).event = c[j + 1]
          BY <2>1, <3>2, <3>3, <4>2, <4>3, <4>4, AdvanceIsAt
        <4> QED
          BY <4>1, <4>2, <4>4, <4>5
      <3>7. it[Len(c)] = End
        <4>1. PICK n, x : n = Len(c) /\ x = it[n]
          OBVIOUS
        <4>2. n \in Nat /\ n \in 0..Len(c)
          BY <3>3, <4>1
        <4>3. IsAt(A, c, x, n)
          BY <3>5, <4>1, <4>2
        <4>4. x.node = Null
          <5>1. ASSUME x.node # Null PROVE FALSE
            <6>1. n < Len(c)
              BY <2>1, <3>2, <3>3, <4>2, <4>3, <5>1, AdvanceIsAt
            <6> QED
              BY <4>1, <4>2, <6>1
          <5> QED
            BY <5>1
        <4>5. x = [node |-> x.node, index |-> x.index] /\ x.index = 0
          BY <4>3, <4>4 DEF IsAt, Iterators
        <4> QED
          BY <4>1, <4>4, <4>5 DEF End
      <3> QED
        BY <3>1, <3>6, <3>7
    <2> QED
      BY <2>2 DEF IterationComplete
  <1> QED
    BY <1>1, ContentsInvariance, PTL
=============================================================================
