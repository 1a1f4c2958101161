----------------------------- MODULE MarkersProofs -----------------------------
(***************************************************************************)
(* Proofs about Markers, for any threads, times, texts, environment and    *)
(* sizes of int and long.  Events land in blocks that have room for them,  *)
(* unless CXXET_DEFAULT_BLOCK_SIZE names a size that no block can have;    *)
(* the scopes of a thread are written inner ones first, nested as they     *)
(* were; and whoever reads the file finds in it what was marked.           *)
(***************************************************************************)
EXTENDS Markers, SequenceTheorems, IterationTheorems, TLAPS

Size == Nat \ {0}

(* A collector whose next block has room, and that never missed any yet. *)
Sound(c) ==
  /\ c = [default_node_capacity |-> c.default_node_capacity, room |-> c.room,
          events |-> c.events, overrun |-> c.overrun]
  /\ c.default_node_capacity \in Size
  /\ c.room \in Nat
  /\ c.overrun = FALSE

(* With a usable block size, or with none given, every block has room. *)
BlocksOK ==
  ~NamesNoBlockSize =>
    /\ properties # Null => properties.default_list_node_capacity \in Size
    /\ \A t \in Thread : collector[t] # Null => Sound(collector[t])

BInv ==
  /\ env \in BlockSizeEnv
  /\ collector = [t \in Thread |-> collector[t]]
  /\ BlocksOK

-----------------------------------------------------------------------------
(* Block sizes.                                                            *)

(* A positive int survives the way through long and back. *)
LEMMA PositiveInt ==
  ASSUME NEW n \in 1 .. INT_MAX
  PROVE  Narrowed(Saturated(n)) = n
<1>1. Saturated(n) = n
  BY MarkersAssumption DEF Saturated
<1>2. PICK m : m = 2 * (INT_MAX + 1)
  OBVIOUS
<1>3. m \in Nat \ {0} /\ n < m
  BY <1>2, MarkersAssumption
<1>4. n % m = n
  BY <1>3
<1> QED
  BY <1>1, <1>2, <1>4, MarkersAssumption DEF Narrowed

(* What properties make of the environment, and what they are later. *)
LEMMA DefaultCapacity ==
  ASSUME BInv, ~NamesNoBlockSize
  PROVE  instance.default_list_node_capacity \in Size
<1>1. CASE properties # Null
  BY <1>1 DEF BInv, BlocksOK, instance
<1>2. CASE properties = Null
  <2>1. instance.default_list_node_capacity = parse_env_variable(env, 64)
    BY <1>2 DEF instance
  <2>2. CASE env = Null \/ parse_int_throws(env)
    BY <2>1, <2>2 DEF parse_env_variable, Size
  <2>3. CASE env # Null /\ ~parse_int_throws(env)
    <3>1. env.number \in 1 .. INT_MAX
      BY <2>3, MarkersAssumption DEF parse_int_throws, NamesNoBlockSize, BInv
    <3>2. parse_env_variable(env, 64) = env.number
      BY <2>3, <3>1, PositiveInt DEF parse_env_variable, parse_int
    <3> QED
      BY <2>1, <3>1, <3>2, MarkersAssumption DEF Size
  <2> QED
    BY <2>2, <2>3
<1> QED
  BY <1>1, <1>2

-----------------------------------------------------------------------------
(* What is done to a collector.                                            *)
LEMMA ReserveRoomSound ==
  ASSUME NEW c, Sound(c), NEW capacity \in Size
  PROVE  Sound(ReserveRoom(c, capacity)) /\ ReserveRoom(c, capacity).room \in Size
<1>1. PICK d : d = ReserveRoom(c, capacity)
  OBVIOUS
<1>2. CASE c.room >= capacity
  BY <1>1, <1>2 DEF ReserveRoom, Sound, Size
<1>3. CASE ~(c.room >= capacity)
  <2>1. d = [c EXCEPT !.room = capacity]
    BY <1>1, <1>3 DEF ReserveRoom
  <2>2. d = [default_node_capacity |-> c.default_node_capacity, room |-> capacity,
             events |-> c.events, overrun |-> c.overrun]
    BY <2>1 DEF Sound
  <2>3. Sound(d) /\ d.room \in Size
    BY <2>2 DEF Sound, Size
  <2> QED
    BY <1>1, <2>3
<1> QED
  BY <1>2, <1>3

LEMMA AppendEventSound ==
  ASSUME NEW c, Sound(c), NEW item
  PROVE  Sound(append_event(c, item))
<1>1. PICK r : r = IF c.room >= 1 THEN c ELSE ReserveRoom(c, c.default_node_capacity)
  OBVIOUS
<1>2. Sound(r) /\ r.room \in Size
  <2>1. CASE c.room >= 1
    BY <1>1, <2>1 DEF Sound, Size
  <2>2. CASE ~(c.room >= 1)
    <3>1. c.default_node_capacity \in Size
      BY DEF Sound
    <3> QED
      BY <1>1, <2>2, <3>1, ReserveRoomSound
  <2> QED
    BY <2>1, <2>2
<1>3. append_event(c, item) = [r EXCEPT !.room = @ - 1, !.events = Append(@, item)]
  BY <1>1, <1>2 DEF append_event, Size
<1>4. PICK d : d = append_event(c, item)
  OBVIOUS
<1>5. d = [default_node_capacity |-> r.default_node_capacity, room |-> r.room - 1,
           events |-> Append(r.events, item), overrun |-> r.overrun]
  BY <1>2, <1>3, <1>4 DEF Sound
<1>6. Sound(d)
  BY <1>2, <1>5 DEF Sound, Size
<1> QED
  BY <1>4, <1>6

(* The one or two events of a marker, appended one after the other. *)
Steps(c, items, after) ==
  after = [k \in 0 .. Len(items) |->
             IF k = 0 THEN c ELSE append_event(after[k - 1], items[k])]

(* What Appended picks is one append_event after the other. *)
LEMMA AppendedUnfolds ==
  ASSUME NEW c, NEW items, Len(items) \in {1, 2}
  PROVE  /\ Len(items) = 1 => Appended(c, items) = append_event(c, items[1])
         /\ Len(items) = 2 =>
              Appended(c, items) = append_event(append_event(c, items[1]), items[2])
<1> DEFINE once == append_event(c, items[1])
           twice == append_event(once, items[2])
           after == CHOOSE f : Steps(c, items, f)
<1>1. Appended(c, items) = after[Len(items)]
  BY DEF Appended, Steps
<1>2. \E f : Steps(c, items, f)
  <2> DEFINE f == [k \in 0 .. Len(items) |->
                     IF k = 0 THEN c ELSE IF k = 1 THEN once ELSE twice]
  <2>1. \A k \in 0 .. Len(items) : k = 0 \/ k = 1 \/ k = 2
    <3>1. PICK n \in {1, 2} : n = Len(items)
      OBVIOUS
    <3>2. \A k \in 0 .. n : k = 0 \/ k = 1 \/ k = 2
      OBVIOUS
    <3> QED
      BY <3>1, <3>2
  <2>2. f[0] = c /\ f[1] = once
    OBVIOUS
  <2>3. \A k \in 0 .. Len(items) :
          f[k] = IF k = 0 THEN c ELSE append_event(f[k - 1], items[k])
    <3>1. ASSUME NEW k \in 0 .. Len(items), k = 1
          PROVE  f[k] = append_event(f[k - 1], items[k])
      BY <2>2, <3>1
    <3>2. ASSUME NEW k \in 0 .. Len(items), k = 2
          PROVE  f[k] = append_event(f[k - 1], items[k])
      BY <2>2, <3>2
    <3> QED
      BY <2>1, <2>2, <3>1, <3>2
  <2> HIDE DEF f
  <2>4. f = [k \in 0 .. Len(items) |-> f[k]]
    BY DEF f
  <2>5. Steps(c, items, f)
    BY <2>3, <2>4 DEF Steps
  <2> QED
    BY <2>5
<1>3. Steps(c, items, after)
  BY <1>2
<1> HIDE DEF after
<1>4. after[0] = c /\ after[1] = append_event(after[0], items[1])
  BY <1>3 DEF Steps
<1>5. Len(items) = 2 => after[2] = append_event(after[1], items[2])
  BY <1>3 DEF Steps
<1> QED
  BY <1>1, <1>4, <1>5

LEMMA AppendedSound ==
  ASSUME NEW c, Sound(c), NEW items, Len(items) \in {1, 2}
  PROVE  Sound(Appended(c, items))
<1>1. Sound(append_event(c, items[1]))
  BY AppendEventSound
<1>2. Sound(append_event(append_event(c, items[1]), items[2]))
  BY <1>1, AppendEventSound
<1> QED
  BY <1>1, <1>2, AppendedUnfolds

LEMMA CollectorSound ==
  ASSUME BInv, ~NamesNoBlockSize, NEW t \in Thread
  PROVE  Sound(thread_local_instance(t))
<1>1. CASE collector[t] # Null
  BY <1>1 DEF thread_local_instance, BInv, BlocksOK
<1>2. CASE collector[t] = Null
  <2>1. PICK size : size = instance.default_list_node_capacity
    OBVIOUS
  <2>2. size \in Size
    BY <2>1, DefaultCapacity
  <2>3. PICK c : c = thread_local_instance(t)
    OBVIOUS
  <2>4. c = [default_node_capacity |-> size, room |-> 0, events |-> <<>>,
             overrun |-> FALSE]
    BY <1>2, <2>1, <2>3 DEF thread_local_instance
  <2>5. Sound(c)
    BY <2>2, <2>4 DEF Sound
  <2> QED
    BY <2>3, <2>5
<1> QED
  BY <1>1, <1>2

-----------------------------------------------------------------------------
(* What each step makes of all collectors.                                 *)

(* Steps that only exchange one collector for a sound one. *)
LEMMA ExchangeCollector ==
  ASSUME BInv, NEW t \in Thread, NEW c, ~NamesNoBlockSize => Sound(c),
         collector' = [collector EXCEPT ![t] = c],
         properties' = instance, UNCHANGED env
  PROVE  BInv'
<1>1. NamesNoBlockSize' <=> NamesNoBlockSize
  BY DEF NamesNoBlockSize
<1>2. \A u \in Thread : collector'[u] = IF u = t THEN c ELSE collector[u]
  BY DEF BInv
<1>3. collector' = [u \in Thread |-> collector'[u]]
  BY DEF BInv
<1>4. ASSUME ~NamesNoBlockSize
      PROVE  /\ properties'.default_list_node_capacity \in Size
             /\ \A u \in Thread : collector'[u] # Null => Sound(collector'[u])
  <2>1. properties'.default_list_node_capacity \in Size
    BY <1>4, DefaultCapacity
  <2>2. ASSUME NEW u \in Thread, collector'[u] # Null PROVE Sound(collector'[u])
    BY <1>2, <1>4, <2>2 DEF BInv, BlocksOK
  <2> QED
    BY <2>1, <2>2
<1>5. BlocksOK'
  BY <1>1, <1>4 DEF BlocksOK, Sound
<1> QED
  BY <1>3, <1>5 DEF BInv

LEMMA SubmitStep ==
  ASSUME BInv, NEW t \in Thread, NEW evts, Len(evts) \in {1, 2},
         DOMAIN evts = 1 .. Len(evts), Submit(t, evts)
  PROVE  BInv'
<1> DEFINE items == [k \in DOMAIN evts |-> Item(t, evts[k])]
           c == Appended(thread_local_instance(t), items)
<1>1. Len(items) = Len(evts)
  OBVIOUS
<1> HIDE DEF items
<1>2. ASSUME ~NamesNoBlockSize PROVE Sound(c)
  <2>1. PICK d : d = thread_local_instance(t)
    OBVIOUS
  <2>2. Sound(d)
    BY <1>2, <2>1, CollectorSound
  <2>3. Len(items) \in {1, 2}
    BY <1>1
  <2>4. Sound(Appended(d, items))
    BY <2>2, <2>3, AppendedSound
  <2> QED
    BY <2>1, <2>4
<1>3. collector' = [collector EXCEPT ![t] = c] /\ properties' = instance /\ UNCHANGED env
  BY DEF Submit, items
<1> HIDE DEF c
<1> QED
  BY <1>2, <1>3, ExchangeCollector

LEMMA OneEvent ==
  ASSUME BInv, NEW t \in Thread, NEW evt, Submit(t, <<evt>>)
  PROVE  BInv'
<1>1. PICK evts : evts = <<evt>>
  OBVIOUS
<1>2. Len(evts) = 1 /\ DOMAIN evts = 1 .. 1
  BY <1>1
<1> QED
  BY <1>1, <1>2, SubmitStep

LEMMA TwoEvents ==
  ASSUME BInv, NEW t \in Thread, NEW evt, NEW other, Submit(t, <<evt, other>>)
  PROVE  BInv'
<1>1. PICK evts : evts = <<evt, other>>
  OBVIOUS
<1>2. Len(evts) = 2 /\ DOMAIN evts = 1 .. 2
  BY <1>1
<1> QED
  BY <1>1, <1>2, SubmitStep

(* Steps that touch neither collectors nor properties. *)
LEMMA BlocksFrame ==
  ASSUME BInv, UNCHANGED <<env, properties, collector>>
  PROVE  BInv'
  BY DEF BInv, BlocksOK, NamesNoBlockSize, Sound

LEMMA MarkStep ==
  ASSUME BInv, NEW t \in Thread, NEW cat, NEW p, Mark(t, cat, p)
  PROVE  BInv'
<1>1. CASE Instant(t, cat, p, "p")
  BY <1>1, OneEvent DEF Instant, Marker
<1>2. CASE DurationBegin(t, cat, p)
  BY <1>2, OneEvent DEF DurationBegin, Marker
<1>3. CASE DurationEnd(t, cat, p)
  BY <1>3, OneEvent DEF DurationEnd, Marker
<1>4. CASE Counter(t, cat, p)
  BY <1>4, OneEvent DEF Counter, Marker
<1>5. CASE Counters(t, cat, p)
  BY <1>5, TwoEvents DEF Counters, Marker
<1>6. CASE Metadata(t, cat, p)
  BY <1>6, OneEvent DEF Metadata, Marker
<1>7. CASE OpenComplete(t, cat, p)
  BY <1>7, BlocksFrame DEF OpenComplete
<1>8. CASE OpenDuration(t, cat, p)
  BY <1>8, OneEvent DEF OpenDuration
<1> QED
  BY <1>1, <1>2, <1>3, <1>4, <1>5, <1>6, <1>7, <1>8 DEF Mark

(* A reservation that is not positive asks for the default size. *)
LEMMA ReserveStep ==
  ASSUME BInv, NEW t \in Thread, NEW n \in Request, Reserve(t, n)
  PROVE  BInv'
<1> DEFINE d == thread_local_instance(t)
           c == ReserveBlock(d, n)
<1>1. ASSUME ~NamesNoBlockSize PROVE Sound(c)
  <2>1. PICK size : size = IF n <= 0 THEN instance.default_list_node_capacity ELSE n
    OBVIOUS
  <2>2. size \in Size
    BY <1>1, <2>1, DefaultCapacity, MarkersAssumption DEF Size
  <2>3. PICK e : e = [d EXCEPT !.default_node_capacity = size]
    OBVIOUS
  <2>4. Sound(d)
    BY <1>1, CollectorSound
  <2> HIDE DEF d
  <2>5. e = [default_node_capacity |-> size, room |-> d.room, events |-> d.events,
             overrun |-> d.overrun]
    BY <2>3, <2>4 DEF Sound
  <2>6. Sound(e)
    BY <2>2, <2>4, <2>5 DEF Sound
  <2>7. c = ReserveRoom(e, size)
    BY <2>1, <2>3 DEF ReserveBlock
  <2> QED
    BY <2>2, <2>6, <2>7, ReserveRoomSound
<1>2. collector' = [collector EXCEPT ![t] = c] /\ properties' = instance /\ UNCHANGED env
  BY DEF Reserve
<1> HIDE DEF c
<1> QED
  BY <1>1, <1>2, ExchangeCollector

LEMMA FlushStep ==
  ASSUME BInv, NEW t \in Thread, Flush(t)
  PROVE  BInv'
<1> DEFINE d == thread_local_instance(t)
           c == IF d.events = <<>> THEN d ELSE [d EXCEPT !.events = <<>>, !.room = 0]
<1>1. ASSUME ~NamesNoBlockSize PROVE Sound(c)
  <2>1. Sound(d)
    BY <1>1, CollectorSound
  <2> HIDE DEF d
  <2>2. CASE d.events # <<>>
    <3>1. c = [default_node_capacity |-> d.default_node_capacity, room |-> 0,
               events |-> <<>>, overrun |-> d.overrun]
      BY <2>1, <2>2 DEF Sound
    <3> HIDE DEF c
    <3> QED
      BY <2>1, <3>1 DEF Sound
  <2>3. CASE d.events = <<>>
    BY <2>1, <2>3
  <2> QED
    BY <2>2, <2>3
<1>2. collector' = [collector EXCEPT ![t] = c] /\ properties' = instance /\ UNCHANGED env
  BY DEF Flush
<1> HIDE DEF c
<1> QED
  BY <1>1, <1>2, ExchangeCollector

-----------------------------------------------------------------------------
LEMMA BlocksInit ==
  ASSUME Init
  PROVE  BInv
  BY DEF Init, BInv, BlocksOK

LEMMA BlocksStep ==
  ASSUME BInv, Next
  PROVE  BInv'
<1>1. CASE Tick
  BY <1>1, BlocksFrame DEF Tick
<1>2. CASE InitialiseZero
  BY <1>2, BlocksFrame DEF InitialiseZero
<1>3. CASE Write
  BY <1>3, BlocksFrame DEF Write
<1>4. ASSUME NEW p \in Pointer, Rewrite(p) PROVE BInv'
  BY <1>4, BlocksFrame DEF Rewrite
<1>5. ASSUME NEW t \in Thread, CloseGuard(t) PROVE BInv'
  BY <1>5, OneEvent DEF CloseGuard
<1>6. ASSUME NEW t \in Thread, Flush(t) PROVE BInv'
  BY <1>6, FlushStep
<1>7. ASSUME NEW t \in Thread, NEW n \in Request, Reserve(t, n) PROVE BInv'
  BY <1>7, ReserveStep
<1>8. ASSUME NEW t \in Thread, NEW cat, NEW p, Mark(t, cat, p) PROVE BInv'
  BY <1>8, MarkStep
<1>9. ASSUME NEW t \in Thread, NEW cat, Instant(t, cat, Null, "t") PROVE BInv'
  BY <1>9, OneEvent DEF Instant, Marker
<1> QED
  BY <1>1, <1>2, <1>3, <1>4, <1>5, <1>6, <1>7, <1>8, <1>9 DEF Next

(* The next block of a collector always has room for an event: its size    *)
(* comes from a reservation that is positive, or from properties, which    *)
(* hold 64 or a positive int.                                              *)
THEOREM BlocksInvariance == Spec => []BInv
<1>1. BInv /\ [Next]_vars => BInv'
  <2> SUFFICES ASSUME BInv, [Next]_vars PROVE BInv'
    OBVIOUS
  <2>1. CASE Next
    BY <2>1, BlocksStep
  <2>2. CASE UNCHANGED vars
    BY <2>2, BlocksFrame DEF vars
  <2> QED
    BY <2>1, <2>2
<1> QED
  BY <1>1, BlocksInit, PTL DEF Spec

(* No value of CXXET_DEFAULT_BLOCK_SIZE but a whole number that is not a   *)
(* positive int makes an event land outside of the blocks, whatever the    *)
(* program reserves and flushes.                                           *)
THEOREM BlocksHaveRoom == Spec => []EventsLandInBlocks
<1>1. BInv => EventsLandInBlocks
  BY DEF BInv, BlocksOK, EventsLandInBlocks, Overrun, Sound
<1> QED
  BY <1>1, BlocksInvariance, PTL
-----------------------------------------------------------------------------
(* Sequences of whatever there is.                                         *)
IsSeq(q) == \E S : q \in Seq(S)

LEMMA IsSeqFacts ==
  ASSUME NEW q, IsSeq(q)
  PROVE  Len(q) \in Nat /\ DOMAIN q = 1 .. Len(q)
  BY DEF IsSeq

LEMMA AppendAny ==
  ASSUME NEW q, IsSeq(q), NEW x
  PROVE  /\ IsSeq(Append(q, x)) /\ Len(Append(q, x)) = Len(q) + 1
         /\ \A i \in 1 .. Len(q) : Append(q, x)[i] = q[i]
         /\ Append(q, x)[Len(q) + 1] = x
<1>1. PICK S : q \in Seq(S)
  BY DEF IsSeq
<1>2. PICK T : T = S \cup {x}
  OBVIOUS
<1>3. q \in Seq(T) /\ x \in T
  BY <1>1, <1>2
<1> QED
  BY <1>3 DEF IsSeq

LEMMA ConcatAny ==
  ASSUME NEW q, IsSeq(q), NEW r, IsSeq(r)
  PROVE  /\ IsSeq(q \o r) /\ Len(q \o r) = Len(q) + Len(r)
         /\ \A i \in 1 .. Len(q) : (q \o r)[i] = q[i]
         /\ \A i \in Len(q) + 1 .. Len(q) + Len(r) : (q \o r)[i] = r[i - Len(q)]
<1>1. PICK S : q \in Seq(S)
  BY DEF IsSeq
<1>2. PICK U : r \in Seq(U)
  BY DEF IsSeq
<1>3. PICK T : T = S \cup U
  OBVIOUS
<1>4. q \in Seq(T) /\ r \in Seq(T)
  BY <1>1, <1>2, <1>3
<1> QED
  BY <1>4 DEF IsSeq

LEMMA FrontAny ==
  ASSUME NEW q, IsSeq(q), q # <<>>
  PROVE  /\ IsSeq(Front(q)) /\ Len(Front(q)) = Len(q) - 1
         /\ \A i \in 1 .. Len(q) - 1 : Front(q)[i] = q[i]
         /\ Last(q) = q[Len(q)] /\ Len(q) \in 1 .. Len(q)
<1>1. PICK S : q \in Seq(S)
  BY DEF IsSeq
<1>2. Len(q) \in Nat \ {0}
  BY <1>1
<1>3. PICK n : n = Len(q) - 1
  OBVIOUS
<1>4. /\ SubSeq(q, 1, n) \in Seq(S) /\ Len(SubSeq(q, 1, n)) = n
      /\ \A i \in 1 .. n : SubSeq(q, 1, n)[i] = q[i]
  BY <1>1, <1>2, <1>3
<1>5. Front(q) = SubSeq(q, 1, n) /\ Last(q) = q[Len(q)]
  BY <1>3 DEF Front, Last
<1> QED
  BY <1>2, <1>3, <1>4, <1>5 DEF IsSeq

(* A sequence goes on with new items only. *)
Extends(q, r, New) ==
  /\ IsSeq(q) /\ IsSeq(r) /\ Len(q) <= Len(r)
  /\ \A i \in 1 .. Len(q) : r[i] = q[i]
  /\ \A i \in Len(q) + 1 .. Len(r) : r[i] \in New

-----------------------------------------------------------------------------
(* What markers do to the events of a thread, with blocks that have room   *)
(* for them or not.                                                        *)
Shaped(c) ==
  /\ c = [default_node_capacity |-> c.default_node_capacity, room |-> c.room,
          events |-> c.events, overrun |-> c.overrun]
  /\ IsSeq(c.events)

Events(t) == IF collector[t] = Null THEN <<>> ELSE collector[t].events

LEMMA ReserveRoomShaped ==
  ASSUME NEW c, Shaped(c), NEW capacity
  PROVE  Shaped(ReserveRoom(c, capacity)) /\ ReserveRoom(c, capacity).events = c.events
<1>1. PICK d : d = ReserveRoom(c, capacity)
  OBVIOUS
<1>2. CASE d = c
  BY <1>1, <1>2
<1>3. CASE d = [c EXCEPT !.room = capacity]
  <2>1. d = [default_node_capacity |-> c.default_node_capacity, room |-> capacity,
             events |-> c.events, overrun |-> c.overrun]
    BY <1>3 DEF Shaped
  <2>2. Shaped(d) /\ d.events = c.events
    BY <2>1 DEF Shaped
  <2> QED
    BY <1>1, <2>2
<1> QED
  BY <1>1, <1>2, <1>3 DEF ReserveRoom

LEMMA AppendEventShaped ==
  ASSUME NEW c, Shaped(c), NEW item
  PROVE  /\ Shaped(append_event(c, item))
         /\ Extends(c.events, append_event(c, item).events, {item})
<1>1. PICK r : r = IF c.room >= 1 THEN c ELSE ReserveRoom(c, c.default_node_capacity)
  OBVIOUS
<1>2. Shaped(r) /\ r.events = c.events
  BY <1>1, ReserveRoomShaped
<1>3. PICK d : d = append_event(c, item)
  OBVIOUS
<1>4. CASE d = [r EXCEPT !.overrun = TRUE]
  <2>1. d = [default_node_capacity |-> r.default_node_capacity, room |-> r.room,
             events |-> r.events, overrun |-> TRUE]
    BY <1>2, <1>4 DEF Shaped
  <2>2. Shaped(d) /\ d.events = c.events
    BY <1>2, <2>1 DEF Shaped
  <2>3. Extends(c.events, d.events, {item})
    BY <1>2, <2>2, IsSeqFacts DEF Extends, Shaped
  <2> QED
    BY <1>3, <2>2, <2>3
<1>5. CASE d = [r EXCEPT !.room = @ - 1, !.events = Append(@, item)]
  <2>1. d = [default_node_capacity |-> r.default_node_capacity, room |-> r.room - 1,
             events |-> Append(r.events, item), overrun |-> r.overrun]
    BY <1>2, <1>5 DEF Shaped
  <2>2. PICK q, e : q = r.events /\ e = Append(q, item)
    OBVIOUS
  <2>3. IsSeq(q) /\ q = c.events /\ d.events = e
    BY <1>2, <2>1, <2>2 DEF Shaped
  <2>4. /\ IsSeq(e) /\ Len(e) = Len(q) + 1
        /\ \A i \in 1 .. Len(q) : e[i] = q[i]
        /\ e[Len(q) + 1] = item
    BY <2>2, <2>3, AppendAny
  <2>5. Len(q) \in Nat
    BY <2>3, IsSeqFacts
  <2>6. Extends(q, e, {item})
    BY <2>3, <2>4, <2>5 DEF Extends
  <2>7. Shaped(d)
    BY <2>1, <2>3, <2>4 DEF Shaped
  <2> QED
    BY <1>3, <2>3, <2>6, <2>7
<1> QED
  BY <1>1, <1>3, <1>4, <1>5 DEF append_event

LEMMA ExtendsTwice ==
  ASSUME NEW p, NEW q, NEW r, NEW New, NEW More, Extends(p, q, New), Extends(q, r, More)
  PROVE  Extends(p, r, New \cup More)
<1>1. Len(p) \in Nat /\ Len(q) \in Nat /\ Len(r) \in Nat
  BY IsSeqFacts DEF Extends
<1>2. ASSUME NEW i \in Len(p) + 1 .. Len(r) PROVE r[i] \in New \cup More
  <2>1. CASE i <= Len(q)
    BY <1>1, <2>1 DEF Extends
  <2>2. CASE Len(q) < i
    BY <1>1, <2>2 DEF Extends
  <2> QED
    BY <1>1, <2>1, <2>2
<1>3. ASSUME NEW i \in 1 .. Len(p) PROVE r[i] = p[i]
  BY <1>1 DEF Extends
<1> QED
  BY <1>1, <1>2, <1>3 DEF Extends

ElementsOf(items) == {items[k] : k \in 1 .. Len(items)}

LEMMA AppendedShaped ==
  ASSUME NEW c, Shaped(c), NEW items, Len(items) \in {1, 2}
  PROVE  /\ Shaped(Appended(c, items))
         /\ Extends(c.events, Appended(c, items).events, ElementsOf(items))
<1>1. PICK d, New : d = append_event(c, items[1]) /\ New = ElementsOf(items)
  OBVIOUS
<1>2. Shaped(d) /\ Extends(c.events, d.events, {items[1]})
  BY <1>1, AppendEventShaped
<1>3. CASE Len(items) = 1
  <2>1. Appended(c, items) = d /\ New = {items[1]}
    BY <1>1, <1>3, AppendedUnfolds DEF ElementsOf
  <2> QED
    BY <1>1, <1>2, <2>1
<1>4. CASE Len(items) = 2
  <2>1. PICK e : e = append_event(d, items[2])
    OBVIOUS
  <2>2. Appended(c, items) = e /\ New = {items[1]} \cup {items[2]}
    BY <1>1, <1>4, <2>1, AppendedUnfolds DEF ElementsOf
  <2>3. Shaped(e) /\ Extends(d.events, e.events, {items[2]})
    BY <1>2, <2>1, AppendEventShaped
  <2>4. Extends(c.events, e.events, {items[1]} \cup {items[2]})
    BY <1>2, <2>3, ExtendsTwice
  <2> QED
    BY <1>1, <2>2, <2>3, <2>4
<1> QED
  BY <1>3, <1>4

-----------------------------------------------------------------------------
(* Scopes of a thread: what their complete events say of them.             *)
IsX(x) == x.evt.ph = "X"
Stop(x) == x.evt.ts + x.evt.duration_ns

Spans(x, now) ==
  IsX(x) => x.evt.ts \in Nat /\ x.evt.duration_ns \in Nat /\ Stop(x) <= now

(* Of two scopes, y ended later: x is within it or before it. *)
Nest(x, y) ==
  IsX(x) /\ IsX(y) =>
    Stop(x) <= Stop(y) /\ (y.evt.ts <= x.evt.ts \/ Stop(x) <= y.evt.ts)

(* The same of a scope that has ended and one that began and has not. *)
Beside(x, start) == IsX(x) => start <= x.evt.ts \/ Stop(x) <= start

(* What a thread has submitted, and not lost with a block without room. *)
Past(t, x) ==
  \/ \E i \in DOMAIN Events(t) : x = Events(t)[i]
  \/ \E k \in DOMAIN sink : x = sink[k] /\ x.thread_id = t

ClockOK ==
  /\ clock \in Nat /\ zero \in Nat
  /\ \/ properties.time_point_zero_ns \in Nat
     \/ properties = Null /\ sink = <<>> /\ \A t \in Thread : Events(t) = <<>>

ShapeOK ==
  /\ collector = [t \in Thread |-> collector[t]]
  /\ guards = [t \in Thread |-> guards[t]]
  /\ IsSeq(sink)
  /\ \A t \in Thread : /\ collector[t] # Null => Shaped(collector[t])
                       /\ IsSeq(guards[t])

ItemsOK(t) ==
  /\ \A i \in DOMAIN Events(t) : Events(t)[i].thread_id = t
  /\ \A x : Past(t, x) => Spans(x, clock)

OpenScope(t, a) == a \in DOMAIN guards[t] /\ guards[t][a] # Null

GuardsOK(t) ==
  \A a : OpenScope(t, a) =>
    /\ guards[t][a].start \in Nat /\ guards[t][a].start <= clock
    /\ \A b : OpenScope(t, b) /\ a < b => guards[t][a].start <= guards[t][b].start
    /\ \A x : Past(t, x) => Beside(x, guards[t][a].start)

NestOK(t) ==
  /\ \A i, j \in DOMAIN Events(t) : i < j => Nest(Events(t)[i], Events(t)[j])
  /\ \A k \in DOMAIN sink, j \in DOMAIN Events(t) :
       sink[k].thread_id = t => Nest(sink[k], Events(t)[j])
  /\ \A j, k \in DOMAIN sink :
       j < k /\ sink[j].thread_id = t /\ sink[k].thread_id = t => Nest(sink[j], sink[k])

ThreadOK(t) == ItemsOK(t) /\ GuardsOK(t) /\ NestOK(t)

SInv == ClockOK /\ ShapeOK /\ (\A t \in Thread : ThreadOK(t)) /\ ScopesNest

LEMMA EventsShape ==
  ASSUME ShapeOK, NEW t \in Thread
  PROVE  /\ IsSeq(Events(t)) /\ Len(Events(t)) \in Nat
         /\ DOMAIN Events(t) = 1 .. Len(Events(t))
         /\ Len(sink) \in Nat /\ DOMAIN sink = 1 .. Len(sink)
<1>1. IsSeq(<<>>)
  <2>1. <<>> \in Seq({})
    OBVIOUS
  <2> QED
    BY <2>1 DEF IsSeq
<1>2. IsSeq(Events(t))
  BY <1>1 DEF ShapeOK, Shaped, Events
<1> QED
  BY <1>2, IsSeqFacts DEF ShapeOK

(* The time goes on, and nothing is submitted. *)
LEMMA ThreadLater ==
  ASSUME NEW t \in Thread, ThreadOK(t), clock \in Nat, clock' \in Nat, clock <= clock',
         UNCHANGED <<guards, sink>>, Events(t)' = Events(t)
  PROVE  ThreadOK(t)'
<1>1. ASSUME NEW x PROVE Past(t, x)' <=> Past(t, x)
  BY DEF Past
<1>2. ASSUME NEW x, Spans(x, clock) PROVE Spans(x, clock')
  BY <1>2 DEF Spans, Stop
<1>3. ASSUME NEW a PROVE OpenScope(t, a)' <=> OpenScope(t, a)
  BY DEF OpenScope
<1>4. ItemsOK(t)'
  BY <1>1, <1>2 DEF ThreadOK, ItemsOK
<1>5. GuardsOK(t)'
  BY <1>1, <1>3 DEF ThreadOK, GuardsOK
<1>6. NestOK(t)'
  BY DEF ThreadOK, NestOK
<1> QED
  BY <1>4, <1>5, <1>6 DEF ThreadOK

(* The guards of a thread are what they were, without some. *)
GuardsKept(t) ==
  \A a : OpenScope(t, a)' => OpenScope(t, a) /\ guards'[t][a] = guards[t][a]

(* New items of a thread, which its open scopes enclose or follow. *)
Fits(t, New) ==
  \A x \in New :
    /\ x.thread_id = t /\ Spans(x, clock)
    /\ \A y : Past(t, y) => Nest(y, x)
    /\ \A y \in New : Nest(x, y)
    /\ \A a : OpenScope(t, a)' => Beside(x, guards'[t][a].start)

(* Events that fit what a thread submitted and its open scopes leave it in order. *)
LEMMA ThreadSubmits ==
  ASSUME ShapeOK, NEW t \in Thread, ThreadOK(t), UNCHANGED <<clock, sink>>, GuardsKept(t),
         NEW New, Fits(t, New), Events(t)' = <<>> \/ Extends(Events(t), Events(t)', New)
  PROVE  ThreadOK(t)'
<1>1. PICK q, r : q = Events(t) /\ r = Events(t)'
  OBVIOUS
<1>2. /\ IsSeq(q) /\ Len(q) \in Nat /\ DOMAIN q = 1 .. Len(q)
      /\ Len(sink) \in Nat /\ DOMAIN sink = 1 .. Len(sink)
  BY <1>1, EventsShape
<1>3. \A i \in DOMAIN r : \/ i \in 1 .. Len(q) /\ r[i] = q[i]
                          \/ i > Len(q) /\ i \in Nat /\ r[i] \in New
  <2>1. CASE r = <<>>
    BY <2>1
  <2>2. CASE Extends(q, r, New)
    <3>1. Len(r) \in Nat /\ DOMAIN r = 1 .. Len(r)
      BY <2>2, IsSeqFacts DEF Extends
    <3> QED
      BY <1>2, <2>2, <3>1 DEF Extends
  <2> QED
    BY <1>1, <2>1, <2>2
<1>4. \A i \in 1 .. Len(q) : Past(t, q[i])
  BY <1>1, <1>2 DEF Past
<1>5. ASSUME NEW x, Past(t, x)' PROVE Past(t, x) \/ x \in New
  BY <1>1, <1>2, <1>3, <1>5 DEF Past
<1>6. ItemsOK(t)'
  <2>1. ASSUME NEW i \in DOMAIN r PROVE r[i].thread_id = t
    BY <1>1, <1>2, <1>3 DEF ThreadOK, ItemsOK, Fits
  <2>2. ASSUME NEW x, Past(t, x)' PROVE Spans(x, clock)
    BY <1>5, <2>2 DEF ThreadOK, ItemsOK, Fits
  <2> QED
    BY <1>1, <2>1, <2>2 DEF ItemsOK
<1>7. GuardsOK(t)'
  <2> SUFFICES ASSUME NEW a, OpenScope(t, a)'
               PROVE  /\ guards'[t][a].start \in Nat /\ guards'[t][a].start <= clock
                      /\ \A b : OpenScope(t, b)' /\ a < b =>
                                  guards'[t][a].start <= guards'[t][b].start
                      /\ \A x : Past(t, x)' => Beside(x, guards'[t][a].start)
    BY DEF GuardsOK
  <2>1. OpenScope(t, a) /\ guards'[t][a] = guards[t][a]
    BY DEF GuardsKept
  <2>2. ASSUME NEW b, OpenScope(t, b)', a < b
        PROVE  guards'[t][a].start <= guards'[t][b].start
    BY <2>1, <2>2 DEF GuardsKept, ThreadOK, GuardsOK
  <2>3. ASSUME NEW x, Past(t, x)' PROVE Beside(x, guards'[t][a].start)
    BY <1>5, <2>1, <2>3 DEF ThreadOK, GuardsOK, Fits
  <2> QED
    BY <2>1, <2>2, <2>3 DEF ThreadOK, GuardsOK
<1>8. NestOK(t)'
  <2>1. ASSUME NEW i \in DOMAIN r, NEW j \in DOMAIN r, i < j PROVE Nest(r[i], r[j])
    <3>1. CASE j \in 1 .. Len(q) /\ r[j] = q[j]
      <4>1. i \in 1 .. Len(q) /\ r[i] = q[i]
        BY <1>2, <1>3, <2>1, <3>1
      <4> QED
        BY <1>1, <1>2, <2>1, <3>1, <4>1 DEF ThreadOK, NestOK
    <3>2. CASE r[j] \in New
      BY <1>3, <1>4, <3>2 DEF Fits
    <3> QED
      BY <1>3, <3>1, <3>2
  <2>2. ASSUME NEW k \in DOMAIN sink, NEW j \in DOMAIN r, sink[k].thread_id = t
        PROVE  Nest(sink[k], r[j])
    <3>1. CASE j \in 1 .. Len(q) /\ r[j] = q[j]
      BY <1>1, <1>2, <2>2, <3>1 DEF ThreadOK, NestOK
    <3>2. CASE r[j] \in New
      <4>1. Past(t, sink[k])
        BY <2>2 DEF Past
      <4> QED
        BY <3>2, <4>1 DEF Fits
    <3> QED
      BY <1>3, <3>1, <3>2
  <2> QED
    BY <1>1, <2>1, <2>2 DEF ThreadOK, NestOK
<1> QED
  BY <1>6, <1>7, <1>8 DEF ThreadOK

-----------------------------------------------------------------------------
LEMMA CollectorShaped ==
  ASSUME ShapeOK, NEW t \in Thread
  PROVE  /\ Shaped(thread_local_instance(t))
         /\ thread_local_instance(t).events = Events(t)
<1>1. PICK c : c = thread_local_instance(t)
  OBVIOUS
<1>2. CASE collector[t] # Null
  BY <1>2 DEF thread_local_instance, ShapeOK, Events
<1>3. CASE collector[t] = Null
  <2>1. PICK size : size = instance.default_list_node_capacity
    OBVIOUS
  <2>2. c = [default_node_capacity |-> size, room |-> 0, events |-> <<>>,
             overrun |-> FALSE]
    BY <1>1, <1>3, <2>1 DEF thread_local_instance
  <2>3. Events(t) = <<>> /\ IsSeq(Events(t))
    BY <1>3, EventsShape DEF Events
  <2>4. Shaped(c) /\ c.events = <<>>
    BY <2>2, <2>3 DEF Shaped
  <2> QED
    BY <1>1, <2>3, <2>4
<1> QED
  BY <1>2, <1>3

(* Asking for the properties makes them, with time point zero as it is. *)
LEMMA ZeroKept ==
  ASSUME ClockOK, properties' = instance
  PROVE  properties'.time_point_zero_ns \in Nat
<1>1. CASE properties # Null
  BY <1>1 DEF ClockOK, instance
<1>2. CASE properties = Null
  <2>1. PICK size : size = parse_env_variable(env, 64)
    OBVIOUS
  <2>2. properties' = [time_point_zero_ns |-> zero, default_list_node_capacity |-> size]
    BY <1>2, <2>1 DEF instance
  <2> QED
    BY <2>2 DEF ClockOK
<1> QED
  BY <1>1, <1>2

LEMMA ExchangeEvents ==
  ASSUME ShapeOK, NEW t \in Thread, NEW c, collector' = [collector EXCEPT ![t] = c]
  PROVE  /\ Events(t)' = <<>> \/ Events(t)' = c.events
         /\ \A u \in Thread \ {t} : Events(u)' = Events(u)
<1>1. \A u \in Thread : collector'[u] = IF u = t THEN c ELSE collector[u]
  BY DEF ShapeOK
<1> QED
  BY <1>1 DEF Events

(* A collector is exchanged; the other threads keep what they have. *)
LEMMA ExchangeShaped ==
  ASSUME ClockOK, ShapeOK, NEW t \in Thread, NEW c, Shaped(c),
         collector' = [collector EXCEPT ![t] = c], properties' = instance,
         UNCHANGED <<clock, zero>>, IsSeq(sink'),
         guards' = [u \in Thread |-> guards'[u]], \A u \in Thread : IsSeq(guards'[u])
  PROVE  /\ ClockOK' /\ ShapeOK'
         /\ Events(t)' = <<>> \/ Events(t)' = c.events
         /\ \A u \in Thread \ {t} : Events(u)' = Events(u)
<1>1. \A u \in Thread : collector'[u] = IF u = t THEN c ELSE collector[u]
  BY DEF ShapeOK
<1>2. ClockOK'
  BY ZeroKept DEF ClockOK
<1>3. collector' = [u \in Thread |-> collector'[u]]
  BY DEF ShapeOK
<1>4. \A u \in Thread : collector'[u] # Null => Shaped(collector'[u])
  BY <1>1 DEF ShapeOK
<1>5. ShapeOK'
  BY <1>3, <1>4 DEF ShapeOK, Shaped
<1>6. /\ Events(t)' = <<>> \/ Events(t)' = c.events
      /\ \A u \in Thread \ {t} : Events(u)' = Events(u)
  BY ExchangeEvents
<1> QED
  BY <1>2, <1>5, <1>6

(* What a thread does to its own events leaves the others in order. *)
LEMMA OthersLater ==
  ASSUME ClockOK, NEW t \in Thread, \A u \in Thread : ThreadOK(u), UNCHANGED <<clock, sink>>,
         \A u \in Thread \ {t} : Events(u)' = Events(u) /\ guards'[u] = guards[u],
         ThreadOK(t)'
  PROVE  \A u \in Thread : ThreadOK(u)'
<1> SUFFICES ASSUME NEW u \in Thread \ {t} PROVE ThreadOK(u)'
  OBVIOUS
<1>1. ASSUME NEW x PROVE Past(u, x)' <=> Past(u, x)
  BY DEF Past
<1>2. ASSUME NEW a PROVE OpenScope(u, a)' <=> OpenScope(u, a)
  BY DEF OpenScope
<1>3. ItemsOK(u)'
  BY <1>1 DEF ThreadOK, ItemsOK
<1>4. GuardsOK(u)'
  BY <1>1, <1>2 DEF ThreadOK, GuardsOK
<1>5. NestOK(u)'
  BY DEF ThreadOK, NestOK
<1> QED
  BY <1>3, <1>4, <1>5 DEF ThreadOK

TInv == ClockOK /\ ShapeOK /\ \A t \in Thread : ThreadOK(t)

(* The guards stay, or those of one thread change. *)
GuardsShaped(t) ==
  /\ guards' = [u \in Thread |-> guards'[u]]
  /\ \A u \in Thread : IsSeq(guards'[u])
  /\ \A u \in Thread \ {t} : guards'[u] = guards[u]

(* An exchange of collectors and an append, in all markers the same. *)
LEMMA SubmitScopes ==
  ASSUME TInv, NEW t \in Thread, NEW evts, Len(evts) \in {1, 2},
         DOMAIN evts = 1 .. Len(evts), Submit(t, evts),
         GuardsShaped(t), GuardsKept(t), Fits(t, {Item(t, evts[k]) : k \in 1 .. Len(evts)})
  PROVE  TInv'
<1>1. PICK d, items, New :
        /\ d = thread_local_instance(t)
        /\ items = [k \in DOMAIN evts |-> Item(t, evts[k])]
        /\ New = {Item(t, evts[k]) : k \in 1 .. Len(evts)}
  OBVIOUS
<1>2. Shaped(d) /\ d.events = Events(t)
  BY <1>1, CollectorShaped DEF TInv
<1>3. Len(items) = Len(evts) /\ New = {items[k] : k \in 1 .. Len(items)}
  BY <1>1
<1>4. PICK c : c = Appended(d, items)
  OBVIOUS
<1>5. Shaped(c) /\ Extends(Events(t), c.events, New)
  <2>1. Len(items) \in {1, 2}
    BY <1>3
  <2>2. Shaped(c) /\ Extends(d.events, c.events, ElementsOf(items))
    BY <1>2, <1>4, <2>1, AppendedShaped
  <2>3. ElementsOf(items) = New
    BY <1>3 DEF ElementsOf
  <2> QED
    BY <1>2, <2>2, <2>3
<1>6. /\ collector' = [collector EXCEPT ![t] = c] /\ properties' = instance
      /\ UNCHANGED <<clock, zero, sink>>
  BY <1>1, <1>4 DEF Submit
<1>7. /\ ClockOK' /\ ShapeOK'
      /\ Events(t)' = <<>> \/ Events(t)' = c.events
      /\ \A u \in Thread \ {t} : Events(u)' = Events(u)
  BY <1>5, <1>6, ExchangeShaped DEF TInv, ShapeOK, GuardsShaped
<1>8. ThreadOK(t)'
  BY <1>1, <1>5, <1>6, <1>7, ThreadSubmits DEF TInv
<1>9. \A u \in Thread : ThreadOK(u)'
  BY <1>6, <1>7, <1>8, OthersLater DEF TInv, GuardsShaped
<1> QED
  BY <1>7, <1>9 DEF TInv

(* Events of other kinds. *)
LEMMA OtherKinds ==
  ASSUME NEW t \in Thread, NEW New, \A x \in New : x.thread_id = t /\ ~IsX(x)
  PROVE  Fits(t, New)
  BY DEF Fits, Spans, Nest, Beside

LEMMA OtherEvent ==
  ASSUME TInv, NEW t \in Thread, NEW evt, evt.ph # "X", Submit(t, <<evt>>),
         GuardsShaped(t), GuardsKept(t)
  PROVE  TInv'
<1>1. PICK evts : evts = <<evt>>
  OBVIOUS
<1>2. Len(evts) = 1 /\ DOMAIN evts = 1 .. 1 /\ evts[1] = evt
  BY <1>1
<1>3. \A x \in {Item(t, evts[k]) : k \in 1 .. Len(evts)} : x.thread_id = t /\ ~IsX(x)
  BY <1>2 DEF Item, IsX
<1>4. Fits(t, {Item(t, evts[k]) : k \in 1 .. Len(evts)})
  BY <1>3, OtherKinds
<1> QED
  BY <1>1, <1>2, <1>4, SubmitScopes

LEMMA OtherEvents ==
  ASSUME TInv, NEW t \in Thread, NEW evt, evt.ph # "X", NEW other, other.ph # "X",
         Submit(t, <<evt, other>>), GuardsShaped(t), GuardsKept(t)
  PROVE  TInv'
<1>1. PICK evts : evts = <<evt, other>>
  OBVIOUS
<1>2. Len(evts) = 2 /\ DOMAIN evts = 1 .. 2 /\ evts[1] = evt /\ evts[2] = other
  BY <1>1
<1>3. \A x \in {Item(t, evts[k]) : k \in 1 .. Len(evts)} : x.thread_id = t /\ ~IsX(x)
  BY <1>2 DEF Item, IsX
<1>4. Fits(t, {Item(t, evts[k]) : k \in 1 .. Len(evts)})
  BY <1>3, OtherKinds
<1> QED
  BY <1>1, <1>2, <1>4, SubmitScopes

LEMMA SameGuards ==
  ASSUME ShapeOK, NEW t \in Thread, UNCHANGED guards
  PROVE  GuardsShaped(t) /\ GuardsKept(t)
  BY DEF GuardsShaped, GuardsKept, OpenScope, ShapeOK

LEMMA OpenDurationScopes ==
  ASSUME TInv, NEW t \in Thread, NEW cat, NEW p, OpenDuration(t, cat, p)
  PROVE  TInv'
<1>1. PICK g, h, evt : g = guards[t] /\ h = Append(g, Null) /\ evt = duration_begin(cat, p, clock)
  OBVIOUS
<1>2. Submit(t, <<evt>>) /\ guards' = [guards EXCEPT ![t] = h] /\ evt.ph # "X"
  BY <1>1 DEF OpenDuration, duration_begin
<1>3. IsSeq(g) /\ Len(g) \in Nat /\ DOMAIN g = 1 .. Len(g)
  BY <1>1, IsSeqFacts DEF TInv, ShapeOK
<1>4. /\ IsSeq(h) /\ Len(h) = Len(g) + 1 /\ h[Len(g) + 1] = Null
      /\ \A i \in 1 .. Len(g) : h[i] = g[i]
  BY <1>1, <1>3, AppendAny
<1>5. DOMAIN h = 1 .. Len(g) + 1
  BY <1>4, IsSeqFacts
<1>6. \A u \in Thread : guards'[u] = IF u = t THEN h ELSE guards[u]
  BY <1>2 DEF TInv, ShapeOK
<1>7. GuardsShaped(t)
  BY <1>2, <1>4, <1>6 DEF GuardsShaped, TInv, ShapeOK
<1>8. GuardsKept(t)
  <2>1. ASSUME NEW a, a \in DOMAIN h, h[a] # Null PROVE a \in DOMAIN g /\ h[a] = g[a]
    BY <1>3, <1>4, <1>5, <2>1
  <2> QED
    BY <1>1, <1>6, <2>1 DEF GuardsKept, OpenScope
<1> QED
  BY <1>2, <1>7, <1>8, OtherEvent

(* A scope begins now, after every scope that has ended. *)
LEMMA OpenCompleteScopes ==
  ASSUME TInv, NEW t \in Thread, NEW cat, NEW p, OpenComplete(t, cat, p)
  PROVE  TInv'
<1>1. PICK g, guard, h : /\ g = guards[t] /\ h = Append(g, guard)
                         /\ guard = [categories |-> cat, desc |-> p, start |-> clock]
  OBVIOUS
<1>2. /\ guards' = [guards EXCEPT ![t] = h]
      /\ UNCHANGED <<clock, zero, properties, collector, sink>>
  BY <1>1 DEF OpenComplete
<1>3. IsSeq(g) /\ Len(g) \in Nat /\ DOMAIN g = 1 .. Len(g) /\ clock \in Nat
  BY <1>1, IsSeqFacts DEF TInv, ShapeOK, ClockOK
<1>4. /\ IsSeq(h) /\ Len(h) = Len(g) + 1 /\ h[Len(g) + 1] = guard
      /\ \A i \in 1 .. Len(g) : h[i] = g[i]
  BY <1>1, <1>3, AppendAny
<1>5. DOMAIN h = 1 .. Len(g) + 1
  BY <1>4, IsSeqFacts
<1>6. \A u \in Thread : guards'[u] = IF u = t THEN h ELSE guards[u]
  BY <1>2 DEF TInv, ShapeOK
<1>7. \A u \in Thread : Events(u)' = Events(u)
  BY <1>2 DEF Events
<1>8. ClockOK' /\ ShapeOK'
  <2>1. ClockOK'
    BY <1>2, <1>7 DEF TInv, ClockOK
  <2>2. ShapeOK'
    BY <1>2, <1>4, <1>6 DEF TInv, ShapeOK, Shaped
  <2> QED
    BY <2>1, <2>2
<1>9. ThreadOK(t)'
  <2>1. ASSUME NEW x PROVE Past(t, x)' <=> Past(t, x)
    BY <1>2, <1>7 DEF Past
  <2>2. ASSUME NEW a, OpenScope(t, a)'
        PROVE  \/ OpenScope(t, a) /\ guards'[t][a] = guards[t][a] /\ a \in 1 .. Len(g)
               \/ a = Len(g) + 1 /\ guards'[t][a] = guard
    <3>1. a \in 1 .. Len(g) + 1 /\ guards'[t] = h /\ h[a] # Null
      BY <1>5, <1>6, <2>2 DEF OpenScope
    <3>2. CASE a = Len(g) + 1
      BY <1>4, <3>1, <3>2
    <3>3. CASE a \in 1 .. Len(g)
      BY <1>1, <1>3, <1>4, <3>1, <3>3 DEF OpenScope
    <3> QED
      BY <1>3, <3>1, <3>2, <3>3
  <2>3. guard.start = clock
    BY <1>1
  <2>4. ItemsOK(t)' /\ NestOK(t)'
    BY <1>2, <1>7, <2>1 DEF TInv, ThreadOK, ItemsOK, NestOK
  <2>5. ASSUME NEW a, OpenScope(t, a)'
        PROVE  guards'[t][a].start \in Nat /\ guards'[t][a].start <= clock
    BY <1>3, <2>2, <2>3, <2>5 DEF TInv, ThreadOK, GuardsOK
  <2>6. ASSUME NEW a, OpenScope(t, a)', NEW b, OpenScope(t, b)', a < b
        PROVE  guards'[t][a].start <= guards'[t][b].start
    <3>1. CASE guards'[t][b] = guard
      BY <2>3, <2>5, <2>6, <3>1
    <3>2. CASE OpenScope(t, b) /\ guards'[t][b] = guards[t][b] /\ b \in 1 .. Len(g)
      <4>1. OpenScope(t, a) /\ guards'[t][a] = guards[t][a]
        BY <1>3, <2>2, <2>6, <3>2
      <4> QED
        BY <2>6, <3>2, <4>1 DEF TInv, ThreadOK, GuardsOK
    <3> QED
      BY <2>2, <2>6, <3>1, <3>2
  <2>7. ASSUME NEW a, OpenScope(t, a)', NEW x, Past(t, x)'
        PROVE  Beside(x, guards'[t][a].start)
    <3>1. Past(t, x) /\ Spans(x, clock)
      BY <2>1, <2>7 DEF TInv, ThreadOK, ItemsOK
    <3> QED
      BY <2>2, <2>3, <2>7, <3>1 DEF TInv, ThreadOK, GuardsOK, Spans, Beside
  <2>8. GuardsOK(t)'
    BY <1>2, <2>5, <2>6, <2>7 DEF GuardsOK
  <2> QED
    BY <2>4, <2>8 DEF ThreadOK
<1>10. \A u \in Thread : ThreadOK(u)'
  BY <1>2, <1>6, <1>7, <1>9, OthersLater DEF TInv
<1> QED
  BY <1>8, <1>10 DEF TInv

(* The innermost scope ends: no other one that is open began after it, and *)
(* what ended before is beside it or within it.                            *)
LEMMA CloseGuardScopes ==
  ASSUME TInv, NEW t \in Thread, CloseGuard(t)
  PROVE  TInv'
<1>1. PICK g, h, guard, n : /\ g = guards[t] /\ h = Front(g) /\ guard = Last(g)
                            /\ n = Len(g)
  OBVIOUS
<1>2. /\ g # <<>> /\ guards' = [guards EXCEPT ![t] = h]
      /\ Submit(t, <<IF guard = Null THEN duration_end(0, Null, clock) ELSE Finished(guard)>>)
  BY <1>1 DEF CloseGuard
<1>3. IsSeq(g) /\ DOMAIN g = 1 .. n /\ clock \in Nat
  BY <1>1, IsSeqFacts DEF TInv, ShapeOK, ClockOK
<1>4. /\ IsSeq(h) /\ Len(h) = n - 1 /\ \A i \in 1 .. n - 1 : h[i] = g[i]
      /\ guard = g[n] /\ n \in 1 .. n /\ n \in Nat
  BY <1>1, <1>2, <1>3, FrontAny, IsSeqFacts
<1>5. DOMAIN h = 1 .. n - 1
  BY <1>4, IsSeqFacts
<1>6. \A u \in Thread : guards'[u] = IF u = t THEN h ELSE guards[u]
  BY <1>2 DEF TInv, ShapeOK
<1>7. GuardsShaped(t)
  BY <1>2, <1>4, <1>6 DEF GuardsShaped, TInv, ShapeOK
<1>8. ASSUME NEW a, OpenScope(t, a)'
      PROVE  OpenScope(t, a) /\ guards'[t][a] = guards[t][a] /\ a < n
  <2>1. a \in 1 .. n - 1 /\ h[a] # Null
    BY <1>5, <1>6, <1>8 DEF OpenScope
  <2>2. a \in 1 .. n /\ a < n /\ h[a] = g[a]
    BY <1>4, <2>1
  <2> QED
    BY <1>1, <1>3, <1>6, <2>1, <2>2 DEF OpenScope
<1>9. GuardsKept(t)
  BY <1>8 DEF GuardsKept
<1>10. CASE guard = Null
  <2>1. PICK evt : evt = duration_end(0, Null, clock)
    OBVIOUS
  <2>2. Submit(t, <<evt>>) /\ evt.ph # "X"
    BY <1>2, <1>10, <2>1 DEF duration_end
  <2> QED
    BY <1>7, <1>9, <2>2, OtherEvent
<1>11. CASE guard # Null
  <2>1. PICK start : start = guard.start
    OBVIOUS
  <2>2. PICK evt : evt = complete(guard.categories, guard.desc, start, clock - start)
    OBVIOUS
  <2>3. Submit(t, <<evt>>)
    BY <1>2, <1>11, <2>1, <2>2 DEF Finished
  <2>4. OpenScope(t, n) /\ guards[t][n] = guard
    BY <1>1, <1>3, <1>4, <1>11 DEF OpenScope
  <2>5. /\ start \in Nat /\ start <= clock
        /\ \A x : Past(t, x) => Beside(x, start)
    BY <2>1, <2>4 DEF TInv, ThreadOK, GuardsOK
  <2>6. PICK x : x = Item(t, evt)
    OBVIOUS
  <2>7. x.thread_id = t /\ x.evt.ts = start /\ x.evt.duration_ns = clock - start /\ IsX(x)
    BY <2>2, <2>6 DEF Item, complete, IsX
  <2>8. Spans(x, clock) /\ Stop(x) = clock
    BY <1>3, <2>5, <2>7 DEF Spans, Stop
  <2>9. ASSUME NEW y, Past(t, y) PROVE Nest(y, x)
    <3>1. Beside(y, start) /\ Spans(y, clock)
      BY <2>5, <2>9 DEF TInv, ThreadOK, ItemsOK
    <3> QED
      BY <2>7, <2>8, <3>1 DEF Nest, Beside, Spans
  <2>10. Nest(x, x)
    BY <2>5, <2>7, <2>8, <1>3 DEF Nest
  <2>11. ASSUME NEW a, OpenScope(t, a)' PROVE Beside(x, guards'[t][a].start)
    <3>1. guards'[t][a].start <= start
      BY <1>8, <2>1, <2>4, <2>11 DEF TInv, ThreadOK, GuardsOK
    <3> QED
      BY <2>7, <3>1 DEF Beside
  <2>12. PICK evts : evts = <<evt>>
    OBVIOUS
  <2>13. Len(evts) = 1 /\ DOMAIN evts = 1 .. 1 /\ evts[1] = evt
    BY <2>12
  <2>14. {Item(t, evts[k]) : k \in 1 .. Len(evts)} = {x}
    BY <2>6, <2>13
  <2>15. Fits(t, {x})
    BY <2>7, <2>8, <2>9, <2>10, <2>11 DEF Fits
  <2> QED
    BY <1>7, <1>9, <2>3, <2>12, <2>13, <2>14, <2>15, SubmitScopes
<1> QED
  BY <1>10, <1>11

-----------------------------------------------------------------------------
(* What was submitted goes to the sink, behind what is there.              *)
LEMMA FlushScopes ==
  ASSUME TInv, NEW t \in Thread, Flush(t)
  PROVE  TInv'
<1>1. PICK d, q, s : d = thread_local_instance(t) /\ q = Events(t) /\ s = sink
  OBVIOUS
<1>2. PICK c : c = IF d.events = <<>> THEN d ELSE [d EXCEPT !.events = <<>>, !.room = 0]
  OBVIOUS
<1>3. Shaped(d) /\ d.events = q
  BY <1>1, CollectorShaped DEF TInv
<1>4. Shaped(c) /\ c.events = <<>>
  <2>1. CASE d.events = <<>>
    BY <1>2, <1>3, <2>1
  <2>2. CASE d.events # <<>>
    <3>1. c = [default_node_capacity |-> d.default_node_capacity, room |-> 0,
               events |-> <<>>, overrun |-> d.overrun]
      BY <1>2, <1>3, <2>2 DEF Shaped
    <3>2. <<>> \in Seq({})
      OBVIOUS
    <3> QED
      BY <3>1, <3>2 DEF Shaped, IsSeq
  <2> QED
    BY <2>1, <2>2
<1>5. /\ collector' = [collector EXCEPT ![t] = c] /\ properties' = instance
      /\ UNCHANGED <<clock, zero, guards>> /\ sink' = s \o q
  BY <1>1, <1>2, <1>3 DEF Flush
<1>6. /\ IsSeq(q) /\ Len(q) \in Nat /\ DOMAIN q = 1 .. Len(q)
      /\ IsSeq(s) /\ Len(s) \in Nat /\ DOMAIN s = 1 .. Len(s)
  BY <1>1, EventsShape DEF TInv, ShapeOK
<1>7. PICK r : r = s \o q
  OBVIOUS
<1>8. /\ IsSeq(r) /\ Len(r) = Len(s) + Len(q)
      /\ \A i \in 1 .. Len(s) : r[i] = s[i]
      /\ \A i \in Len(s) + 1 .. Len(s) + Len(q) : r[i] = q[i - Len(s)]
  BY <1>6, <1>7, ConcatAny
<1>9. DOMAIN r = 1 .. Len(s) + Len(q) /\ sink' = r
  BY <1>5, <1>7, <1>8, IsSeqFacts
<1>10. /\ ClockOK' /\ ShapeOK'
       /\ Events(t)' = <<>> \/ Events(t)' = c.events
       /\ \A u \in Thread \ {t} : Events(u)' = Events(u)
  BY <1>4, <1>5, <1>8, <1>9, ExchangeShaped DEF TInv, ShapeOK
<1>11. Events(t)' = <<>>
  BY <1>4, <1>10
<1>12. \A i \in DOMAIN q : q[i].thread_id = t
  BY <1>1 DEF TInv, ThreadOK, ItemsOK
<1>13. \A k \in DOMAIN r : \/ k \in DOMAIN s /\ r[k] = s[k]
                           \/ /\ k > Len(s) /\ k - Len(s) \in DOMAIN q
                              /\ r[k] = q[k - Len(s)] /\ r[k].thread_id = t
  <2> SUFFICES ASSUME NEW k \in 1 .. Len(s) + Len(q)
               PROVE  \/ k \in 1 .. Len(s) /\ r[k] = s[k]
                      \/ /\ k > Len(s) /\ k - Len(s) \in 1 .. Len(q)
                         /\ r[k] = q[k - Len(s)] /\ r[k].thread_id = t
    BY <1>6, <1>9
  <2>1. CASE k <= Len(s)
    BY <1>6, <1>8, <2>1
  <2>2. CASE k > Len(s)
    <3>1. k - Len(s) \in 1 .. Len(q) /\ k \in Len(s) + 1 .. Len(s) + Len(q)
      BY <1>6, <2>2
    <3> QED
      BY <1>6, <1>8, <1>12, <2>2, <3>1
  <2> QED
    BY <1>6, <2>1, <2>2
<1>14. ASSUME NEW u \in Thread PROVE ThreadOK(u)'
  <2>1. ASSUME NEW x, Past(u, x)' PROVE Past(u, x)
    <3>1. CASE \E i \in DOMAIN Events(u)' : x = Events(u)'[i]
      BY <1>10, <1>11, <3>1 DEF Past
    <3>2. CASE \E k \in DOMAIN r : x = r[k] /\ x.thread_id = u
      <4>1. PICK k \in DOMAIN r : x = r[k] /\ x.thread_id = u
        BY <3>2
      <4> QED
        BY <1>1, <1>13, <4>1 DEF Past
    <3> QED
      BY <1>9, <2>1, <3>1, <3>2 DEF Past
  <2>2. ItemsOK(u)'
    BY <1>5, <1>10, <1>11, <2>1 DEF TInv, ThreadOK, ItemsOK
  <2>3. GuardsOK(u)'
    <3>1. ASSUME NEW a PROVE OpenScope(u, a)' <=> OpenScope(u, a)
      BY <1>5 DEF OpenScope
    <3> QED
      BY <1>5, <2>1, <3>1 DEF TInv, ThreadOK, GuardsOK
  <2>4. NestOK(u)'
    <3>1. ASSUME NEW i \in DOMAIN Events(u)', NEW j \in DOMAIN Events(u)', i < j
          PROVE  Nest(Events(u)'[i], Events(u)'[j])
      BY <1>10, <1>11, <3>1 DEF TInv, ThreadOK, NestOK
    <3>2. ASSUME NEW k \in DOMAIN r, NEW j \in DOMAIN Events(u)', r[k].thread_id = u
          PROVE  Nest(r[k], Events(u)'[j])
      <4>1. u # t /\ Events(u)' = Events(u)
        BY <1>10, <1>11, <3>2
      <4>2. k \in DOMAIN s /\ r[k] = s[k]
        BY <1>13, <3>2, <4>1
      <4> QED
        BY <1>1, <3>2, <4>1, <4>2 DEF TInv, ThreadOK, NestOK
    <3>3. ASSUME NEW j \in DOMAIN r, NEW k \in DOMAIN r, j < k,
                 r[j].thread_id = u, r[k].thread_id = u
          PROVE  Nest(r[j], r[k])
      <4>1. NestOK(u)
        BY DEF TInv, ThreadOK
      <4>2. CASE k \in DOMAIN s /\ r[k] = s[k]
        <5>1. j \in DOMAIN s /\ r[j] = s[j]
          BY <1>6, <1>9, <1>13, <3>3, <4>2
        <5> QED
          BY <1>1, <3>3, <4>1, <4>2, <5>1 DEF NestOK
      <4>3. CASE k > Len(s) /\ k - Len(s) \in DOMAIN q /\ r[k] = q[k - Len(s)] /\ u = t
        <5>1. CASE j \in DOMAIN s /\ r[j] = s[j]
          BY <1>1, <3>3, <4>1, <4>3, <5>1 DEF NestOK
        <5>2. CASE j - Len(s) \in DOMAIN q /\ r[j] = q[j - Len(s)]
          <6>1. j - Len(s) < k - Len(s)
            BY <1>6, <1>9, <3>3
          <6> QED
            BY <1>1, <4>1, <4>3, <5>2, <6>1 DEF NestOK
        <5> QED
          BY <1>13, <5>1, <5>2
      <4> QED
        BY <1>13, <3>3, <4>2, <4>3
    <3> QED
      BY <1>9, <3>1, <3>2, <3>3 DEF NestOK
  <2> QED
    BY <2>2, <2>3, <2>4 DEF ThreadOK
<1> QED
  BY <1>10, <1>14 DEF TInv

LEMMA ReserveScopes ==
  ASSUME TInv, NEW t \in Thread, NEW n \in Request, Reserve(t, n)
  PROVE  TInv'
<1>1. PICK d, size : /\ d = thread_local_instance(t)
                     /\ size = IF n <= 0 THEN instance.default_list_node_capacity ELSE n
  OBVIOUS
<1>2. PICK e, c : e = [d EXCEPT !.default_node_capacity = size] /\ c = ReserveRoom(e, size)
  OBVIOUS
<1>3. Shaped(d) /\ d.events = Events(t)
  BY <1>1, CollectorShaped DEF TInv
<1>4. e = [default_node_capacity |-> size, room |-> d.room, events |-> d.events,
           overrun |-> d.overrun]
  BY <1>2, <1>3 DEF Shaped
<1>5. Shaped(e) /\ e.events = Events(t)
  BY <1>3, <1>4 DEF Shaped
<1>6. Shaped(c) /\ c.events = Events(t)
  BY <1>2, <1>5, ReserveRoomShaped
<1>7. /\ collector' = [collector EXCEPT ![t] = c] /\ properties' = instance
      /\ UNCHANGED <<clock, zero, guards, sink>>
  BY <1>1, <1>2 DEF Reserve, ReserveBlock
<1>8. /\ ClockOK' /\ ShapeOK'
      /\ Events(t)' = <<>> \/ Events(t)' = c.events
      /\ \A u \in Thread \ {t} : Events(u)' = Events(u)
  BY <1>6, <1>7, ExchangeShaped DEF TInv, ShapeOK
<1>9. Events(t)' = <<>> \/ Extends(Events(t), Events(t)', {})
  BY <1>6, <1>8, EventsShape DEF TInv, Extends
<1>10. GuardsKept(t) /\ Fits(t, {})
  BY <1>7, SameGuards DEF TInv, Fits
<1>11. ThreadOK(t)'
  BY <1>7, <1>9, <1>10, ThreadSubmits DEF TInv
<1>12. \A u \in Thread : ThreadOK(u)'
  BY <1>7, <1>8, <1>11, OthersLater DEF TInv
<1> QED
  BY <1>8, <1>12 DEF TInv

(* Every other marker submits events that are no scopes. *)
LEMMA MarkScopes ==
  ASSUME TInv, NEW t \in Thread, NEW cat, NEW p, Mark(t, cat, p)
  PROVE  TInv'
<1>1. UNCHANGED guards => GuardsShaped(t) /\ GuardsKept(t)
  BY SameGuards DEF TInv
<1>2. CASE Instant(t, cat, p, "p")
  <2>1. PICK evt : evt = instant(cat, p, "p", clock)
    OBVIOUS
  <2>2. Submit(t, <<evt>>) /\ UNCHANGED guards /\ evt.ph # "X"
    BY <1>2, <2>1 DEF Instant, Marker, instant
  <2> QED
    BY <1>1, <2>2, OtherEvent
<1>3. CASE DurationBegin(t, cat, p)
  <2>1. PICK evt : evt = duration_begin(cat, p, clock)
    OBVIOUS
  <2>2. Submit(t, <<evt>>) /\ UNCHANGED guards /\ evt.ph # "X"
    BY <1>3, <2>1 DEF DurationBegin, Marker, duration_begin
  <2> QED
    BY <1>1, <2>2, OtherEvent
<1>4. CASE DurationEnd(t, cat, p)
  <2>1. PICK evt : evt = duration_end(cat, p, clock)
    OBVIOUS
  <2>2. Submit(t, <<evt>>) /\ UNCHANGED guards /\ evt.ph # "X"
    BY <1>4, <2>1 DEF DurationEnd, Marker, duration_end
  <2> QED
    BY <1>1, <2>2, OtherEvent
<1>5. CASE Counter(t, cat, p)
  <2>1. PICK evt : evt = counter(cat, p, clock, 1)
    OBVIOUS
  <2>2. Submit(t, <<evt>>) /\ UNCHANGED guards /\ evt.ph # "X"
    BY <1>5, <2>1 DEF Counter, Marker, counter
  <2> QED
    BY <1>1, <2>2, OtherEvent
<1>6. CASE Counters(t, cat, p)
  <2>1. PICK q \in Pointer : Marker(t, <<counter(cat, p, clock, 1), counter(cat, q, clock, 2)>>)
    BY <1>6 DEF Counters
  <2>2. PICK evt, other : evt = counter(cat, p, clock, 1) /\ other = counter(cat, q, clock, 2)
    OBVIOUS
  <2>3. Submit(t, <<evt, other>>) /\ UNCHANGED guards /\ evt.ph # "X" /\ other.ph # "X"
    BY <2>1, <2>2 DEF Marker, counter
  <2> QED
    BY <1>1, <2>3, OtherEvents
<1>7. CASE Metadata(t, cat, p)
  <2>1. PICK type \in MetadataType :
          Marker(t, <<IF type \in SortIndex THEN metadata(cat, type, Null, 7)
                      ELSE metadata(cat, type, p, 0)>>)
    BY <1>7 DEF Metadata
  <2>2. PICK evt : evt = IF type \in SortIndex THEN metadata(cat, type, Null, 7)
                         ELSE metadata(cat, type, p, 0)
    OBVIOUS
  <2>3. evt.ph # "X"
    BY <2>2 DEF metadata
  <2>4. Submit(t, <<evt>>) /\ UNCHANGED guards
    BY <2>1, <2>2 DEF Marker
  <2> QED
    BY <1>1, <2>3, <2>4, OtherEvent
<1>8. CASE OpenComplete(t, cat, p)
  BY <1>8, OpenCompleteScopes
<1>9. CASE OpenDuration(t, cat, p)
  BY <1>9, OpenDurationScopes
<1> QED
  BY <1>2, <1>3, <1>4, <1>5, <1>6, <1>7, <1>8, <1>9 DEF Mark

(* The program goes on, or writes. *)
LEMMA TimeScopes ==
  ASSUME TInv, clock' \in Nat, clock <= clock', zero' \in Nat,
         UNCHANGED <<properties, collector, guards, sink>>
  PROVE  TInv'
<1>1. \A t \in Thread : Events(t)' = Events(t)
  BY DEF Events
<1>2. ClockOK' /\ ShapeOK'
  BY <1>1 DEF TInv, ClockOK, ShapeOK, Shaped
<1>3. \A t \in Thread : ThreadOK(t)'
  BY <1>1, ThreadLater DEF TInv, ClockOK
<1> QED
  BY <1>2, <1>3 DEF TInv

(* One step of a thread or of the clock. *)
LEMMA TInvStep ==
  ASSUME TInv, Next
  PROVE  TInv'
<1>1. clock \in Nat /\ zero \in Nat
  BY DEF TInv, ClockOK
<1>2. CASE Tick
  BY <1>1, <1>2, TimeScopes, MarkersAssumption DEF Tick
<1>3. CASE InitialiseZero
  BY <1>1, <1>3, TimeScopes DEF InitialiseZero
<1>4. CASE Write
  BY <1>1, <1>4, TimeScopes DEF Write
<1>5. ASSUME NEW p \in Pointer, Rewrite(p) PROVE TInv'
  BY <1>1, <1>5, TimeScopes DEF Rewrite
<1>6. ASSUME NEW t \in Thread, NEW cat, Instant(t, cat, Null, "t") PROVE TInv'
  <2>1. PICK evt : evt = instant(cat, Null, "t", clock)
    OBVIOUS
  <2>2. Submit(t, <<evt>>) /\ UNCHANGED guards /\ evt.ph # "X"
    BY <1>6, <2>1 DEF Instant, Marker, instant
  <2> QED
    BY <2>2, SameGuards, OtherEvent DEF TInv
<1> QED
  BY <1>2, <1>3, <1>4, <1>5, <1>6, CloseGuardScopes, FlushScopes, ReserveScopes, MarkScopes
  DEF Next

-----------------------------------------------------------------------------
(* The text of a complete event.                                           *)

(* Microseconds, a point, zeros and nanoseconds are what they stand for. *)
LEMMA FractionRead ==
  ASSUME NEW n \in Nat
  PROVE  ReadStamp(FractionUs(n)) = n
<1>1. PICK us, frac : us = n \div 1000 /\ frac = n - 1000 * us
  OBVIOUS
<1>2. us \in Nat /\ frac \in Nat /\ frac < 1000
  BY <1>1
<1>3. PICK zeros, f : /\ zeros = (IF frac < 100 THEN 1 ELSE 0) + (IF frac < 10 THEN 1 ELSE 0)
                      /\ f = [us |-> us, frac |-> frac, zeros |-> zeros]
  OBVIOUS
<1>4. FractionUs(n) = f
  <2>1. QuotTrunc(n, 1000) = us /\ RemTrunc(n, 1000) = frac
    BY <1>1, <1>2 DEF QuotTrunc, RemTrunc
  <2> QED
    BY <1>3, <2>1 DEF FractionUs
<1>5. PICK digits : digits = IF frac < 10 THEN 1 ELSE IF frac < 100 THEN 2 ELSE 3
  OBVIOUS
<1>6. zeros + digits = 3
  BY <1>2, <1>3, <1>5
<1>7. f.us = us /\ f.frac = frac /\ f.zeros = zeros
  BY <1>3
<1>8. <<100, 10, 1>>[3] = 1
  OBVIOUS
<1>9. ReadStamp(f) = us * 1000 + frac * <<100, 10, 1>>[zeros + digits]
  BY <1>2, <1>5, <1>7 DEF ReadStamp
<1>10. us * 1000 + frac * 1 = n
  BY <1>1, <1>2
<1> QED
  BY <1>4, <1>6, <1>8, <1>9, <1>10

(* The fields of the shortest objects. *)
LEMMA ShortSequences ==
  ASSUME NEW x, NEW y
  PROVE  /\ IsSeq(<<>>) /\ IsSeq(<<x>>) /\ IsSeq(<<x, y>>)
         /\ ElementsOf(<<>>) = {} /\ ElementsOf(<<x>>) = {x} /\ ElementsOf(<<x, y>>) = {x, y}
<1>1. PICK S : S = {x, y}
  OBVIOUS
<1>2. <<>> \in Seq(S) /\ <<x>> \in Seq(S) /\ <<x, y>> \in Seq(S)
  BY <1>1
<1>3. IsSeq(<<>>) /\ IsSeq(<<x>>) /\ IsSeq(<<x, y>>)
  BY <1>2 DEF IsSeq
<1>4. ElementsOf(<<>>) = {}
  BY DEF ElementsOf
<1>5. ElementsOf(<<x>>) = {x}
  BY DEF ElementsOf
<1>6. ElementsOf(<<x, y>>) = {x, y}
  <2>1. 1 .. 2 = {1, 2}
    OBVIOUS
  <2> QED
    BY <2>1 DEF ElementsOf
<1> QED
  BY <1>3, <1>4, <1>5, <1>6

LEMMA ElementsAppend ==
  ASSUME NEW q, IsSeq(q), NEW x
  PROVE  ElementsOf(Append(q, x)) = ElementsOf(q) \cup {x}
<1>1. PICK c, m : c = Append(q, x) /\ m = Len(q)
  OBVIOUS
<1>2. /\ m \in Nat /\ Len(c) = m + 1 /\ c[m + 1] = x
      /\ \A i \in 1 .. m : c[i] = q[i]
  BY <1>1, AppendAny, IsSeqFacts
<1>3. 1 .. m + 1 = (1 .. m) \cup {m + 1}
  BY <1>2
<1>4. ElementsOf(c) = {c[k] : k \in (1 .. m) \cup {m + 1}}
  BY <1>2, <1>3 DEF ElementsOf
<1>5. ElementsOf(q) = {q[k] : k \in 1 .. m}
  BY <1>1 DEF ElementsOf
<1> QED
  BY <1>1, <1>2, <1>4, <1>5

LEMMA ElementsConcat ==
  ASSUME NEW q, IsSeq(q), NEW r, IsSeq(r)
  PROVE  ElementsOf(q \o r) = ElementsOf(q) \cup ElementsOf(r)
<1>1. PICK c, m, n : c = q \o r /\ m = Len(q) /\ n = Len(r)
  OBVIOUS
<1>2. /\ m \in Nat /\ n \in Nat /\ Len(c) = m + n
      /\ \A i \in 1 .. m : c[i] = q[i]
      /\ \A i \in m + 1 .. m + n : c[i] = r[i - m]
  BY <1>1, ConcatAny, IsSeqFacts
<1>3. ASSUME NEW x \in ElementsOf(c) PROVE x \in ElementsOf(q) \cup ElementsOf(r)
  <2>1. PICK i \in 1 .. m + n : x = c[i]
    BY <1>2 DEF ElementsOf
  <2>2. CASE i <= m
    BY <1>1, <1>2, <2>1, <2>2 DEF ElementsOf
  <2>3. CASE i > m
    <3>1. i - m \in 1 .. n /\ x = r[i - m]
      BY <1>2, <2>1, <2>3
    <3> QED
      BY <1>1, <3>1 DEF ElementsOf
  <2> QED
    BY <1>2, <2>1, <2>2, <2>3
<1>4. ASSUME NEW x \in ElementsOf(q) PROVE x \in ElementsOf(c)
  <2>1. PICK i \in 1 .. m : x = q[i]
    BY <1>1 DEF ElementsOf
  <2>2. i \in 1 .. m + n /\ x = c[i]
    BY <1>2, <2>1
  <2> QED
    BY <1>2, <2>2 DEF ElementsOf
<1>5. ASSUME NEW x \in ElementsOf(r) PROVE x \in ElementsOf(c)
  <2>1. PICK i \in 1 .. n : x = r[i]
    BY <1>1 DEF ElementsOf
  <2>2. i + m \in m + 1 .. m + n /\ (i + m) - m = i
    BY <1>2
  <2>3. i + m \in 1 .. m + n /\ x = c[i + m]
    BY <1>2, <2>1, <2>2
  <2> QED
    BY <1>2, <2>3 DEF ElementsOf
<1> QED
  BY <1>1, <1>3, <1>4, <1>5

(* A key that is there once finds its value. *)
LEMMA FieldFound ==
  ASSUME NEW object, IsSeq(object), NEW key, NEW value,
         <<key, value>> \in ElementsOf(object),
         \A e \in ElementsOf(object) : e[1] = key => e = <<key, value>>
  PROVE  Field(object, key) = value
<1>1. DOMAIN object = 1 .. Len(object)
  BY IsSeqFacts
<1>2. \E k \in DOMAIN object : object[k][1] = key
  BY <1>1 DEF ElementsOf
<1>3. PICK k : k = CHOOSE i \in DOMAIN object : object[i][1] = key
  OBVIOUS
<1>4. k \in DOMAIN object /\ object[k][1] = key
  BY <1>2, <1>3
<1>5. object[k] = <<key, value>>
  BY <1>1, <1>4 DEF ElementsOf
<1> QED
  BY <1>3, <1>5 DEF Field

(* The fields of an object, whatever the kind of its event.                *)

(* Among these fields, the key has this value only. *)
Holds(fields, key, value) ==
  /\ <<key, value>> \in fields
  /\ \A e \in fields : e[1] = key => e = <<key, value>>

LEMMA HeldIsFound ==
  ASSUME NEW object, IsSeq(object), NEW key, NEW value,
         Holds(ElementsOf(object), key, value)
  PROVE  Field(object, key) = value
  BY FieldFound DEF Holds

Kinds == {"B", "E", "X", "i", "C", "M"}

KindKeys == {"ts", "dur", "s", "args"}

(* What the kind of an event adds to its object. *)
LEMMA KindAdds ==
  ASSUME NEW evt, evt.ph \in Kinds, NEW chars, NEW since
  PROVE  LET kind == KindFields(evt, chars, since)
         IN  /\ IsSeq(kind) /\ \A e \in ElementsOf(kind) : e[1] \in KindKeys
             /\ evt.ph # "M" => Holds(ElementsOf(kind), "ts", FractionUs(evt.ts - since))
             /\ evt.ph = "X" => Holds(ElementsOf(kind), "dur", FractionUs(evt.duration_ns))
             /\ evt.ph = "C" =>
                  Holds(ElementsOf(kind), "args", <<escape_json_string(chars), evt.value>>)
             /\ evt.ph = "M" =>
                  \E name : Holds(ElementsOf(kind), "args",
                              <<name, IF evt.type \in SortIndex THEN evt.sort_index
                                      ELSE escape_json_string(chars)>>)
<1>1. PICK kind, x : kind = KindFields(evt, chars, since)
                     /\ x = <<"ts", FractionUs(evt.ts - since)>>
  OBVIOUS
<1>2. PICK one : one = <<x>>
  OBVIOUS
<1>3. IsSeq(one) /\ ElementsOf(one) = {x} /\ x[1] = "ts"
  BY <1>1, <1>2, ShortSequences
<1>4. ASSUME NEW y
      PROVE  IsSeq(Append(one, y)) /\ ElementsOf(Append(one, y)) = {x, y}
  BY <1>3, AppendAny, ElementsAppend
<1>5. CASE evt.ph \in {"B", "E"}
  <2>1. kind = one
    BY <1>1, <1>2, <1>5 DEF KindFields
  <2>2. IsSeq(kind) /\ ElementsOf(kind) = {x}
    BY <1>3, <2>1
  <2> QED
    BY <1>1, <1>3, <1>5, <2>2 DEF Holds, KindKeys
<1>6. CASE evt.ph = "X"
  <2>1. PICK y : y = <<"dur", FractionUs(evt.duration_ns)>>
    OBVIOUS
  <2>2. kind = Append(one, y)
    BY <1>1, <1>2, <1>6, <2>1 DEF KindFields
  <2>3. IsSeq(kind) /\ ElementsOf(kind) = {x, y} /\ y[1] = "dur"
    BY <1>4, <2>1, <2>2
  <2> QED
    BY <1>1, <1>3, <1>6, <2>1, <2>3 DEF Holds, KindKeys
<1>7. CASE evt.ph = "i"
  <2>1. PICK y : y = <<"s", evt.scope>>
    OBVIOUS
  <2>2. kind = Append(one, y)
    BY <1>1, <1>2, <1>7, <2>1 DEF KindFields
  <2>3. IsSeq(kind) /\ ElementsOf(kind) = {x, y} /\ y[1] = "s"
    BY <1>4, <2>1, <2>2
  <2> QED
    BY <1>1, <1>3, <1>7, <2>3 DEF Holds, KindKeys
<1>8. CASE evt.ph = "C"
  <2>1. PICK y, two : /\ y = <<"args", <<escape_json_string(chars), evt.value>>>>
                      /\ two = <<y>>
    OBVIOUS
  <2>2. kind = one \o two
    BY <1>1, <1>2, <1>8, <2>1 DEF KindFields, Args
  <2>3. IsSeq(two) /\ ElementsOf(two) = {y} /\ y[1] = "args"
    BY <2>1, ShortSequences
  <2>4. IsSeq(kind) /\ ElementsOf(kind) = {x} \cup {y}
    <3>1. IsSeq(one \o two) /\ ElementsOf(one \o two) = ElementsOf(one) \cup ElementsOf(two)
      BY <1>3, <2>3, ConcatAny, ElementsConcat
    <3> QED
      BY <1>3, <2>2, <2>3, <3>1
  <2> QED
    BY <1>1, <1>3, <1>8, <2>1, <2>3, <2>4 DEF Holds, KindKeys
<1>9. CASE evt.ph = "M"
  <2>1. PICK name, value :
          /\ name = <<"quote", ArgName[evt.type], "quote">>
          /\ value = IF evt.type \in SortIndex THEN evt.sort_index ELSE escape_json_string(chars)
    OBVIOUS
  <2>2. PICK y : y = <<"args", <<name, value>>>>
    OBVIOUS
  <2>3. kind = <<y>>
    BY <1>1, <1>9, <2>1, <2>2 DEF KindFields, Args
  <2>4. IsSeq(kind) /\ ElementsOf(kind) = {y} /\ y[1] = "args"
    BY <2>2, <2>3, ShortSequences
  <2> QED
    BY <1>1, <1>9, <2>1, <2>2, <2>4 DEF Holds, KindKeys
<1> QED
  BY <1>5, <1>6, <1>7, <1>8, <1>9 DEF Kinds

Chars(evt, behind) == IF evt.desc = Null THEN Null ELSE behind[evt.desc]

(* Each field of an object is there once, with what the writer gives it. *)
LEMMA ObjectFields ==
  ASSUME NEW item, item.evt.ph \in Kinds, NEW behind, NEW since
  PROVE  LET object == Object(item, behind, since)
             evt == item.evt
             category == CategoryName[evt.categories]
             chars == Chars(evt, behind)
         IN  /\ Field(object, "name") = escape_json_string(get_name(evt, chars))
             /\ Field(object, "ph") = evt.ph
             /\ Field(object, "tid") = item.thread_id
             /\ Has(object, "cat") <=> category # <<>>
             /\ category # <<>> => Field(object, "cat") = escape_json_string(category)
             /\ evt.ph # "M" => Field(object, "ts") = FractionUs(evt.ts - since)
             /\ evt.ph = "X" => Field(object, "dur") = FractionUs(evt.duration_ns)
             /\ evt.ph = "C" => Field(object, "args")[1] = escape_json_string(chars)
             /\ evt.ph = "M" /\ evt.type \notin SortIndex =>
                  Field(object, "args")[2] = escape_json_string(chars)
<1>1. PICK object, evt, category, chars :
        /\ object = Object(item, behind, since) /\ evt = item.evt
        /\ category = CategoryName[evt.categories] /\ chars = Chars(evt, behind)
  OBVIOUS
<1>2. PICK name, pair, kind :
        /\ name = escape_json_string(get_name(evt, chars))
        /\ pair = <<"cat", escape_json_string(category)>>
        /\ kind = KindFields(evt, chars, since)
  OBVIOUS
<1>3. PICK first, cat, end :
        /\ first = <<<<"name", name>>, <<"ph", evt.ph>>>>
        /\ cat = (IF category = <<>> THEN <<>> ELSE <<pair>>)
        /\ end = <<<<"tid", item.thread_id>>>>
  OBVIOUS
<1>4. object = first \o cat \o kind \o end
  BY <1>1, <1>2, <1>3 DEF Object, Chars
<1>5. /\ IsSeq(first) /\ ElementsOf(first) = {<<"name", name>>, <<"ph", evt.ph>>}
      /\ IsSeq(end) /\ ElementsOf(end) = {<<"tid", item.thread_id>>}
  BY <1>3, ShortSequences
<1>6. IsSeq(cat) /\ ElementsOf(cat) = IF category = <<>> THEN {} ELSE {pair}
  <2>1. IsSeq(<<>>) /\ ElementsOf(<<>>) = {} /\ IsSeq(<<pair>>) /\ ElementsOf(<<pair>>) = {pair}
    BY ShortSequences
  <2> QED
    BY <1>3, <2>1
<1>7. IsSeq(kind) /\ \A e \in ElementsOf(kind) : e[1] \in KindKeys
  BY <1>1, <1>2, KindAdds
<1>8. PICK p, q : p = first \o cat /\ q = p \o kind
  OBVIOUS
<1>9. IsSeq(p) /\ ElementsOf(p) = ElementsOf(first) \cup ElementsOf(cat)
  BY <1>5, <1>6, <1>8, ConcatAny, ElementsConcat
<1>10. IsSeq(q) /\ ElementsOf(q) = ElementsOf(p) \cup ElementsOf(kind)
  BY <1>7, <1>8, <1>9, ConcatAny, ElementsConcat
<1>11. IsSeq(object) /\ ElementsOf(object) = ElementsOf(q) \cup ElementsOf(end)
  BY <1>4, <1>5, <1>8, <1>10, ConcatAny, ElementsConcat
<1>12. PICK all, mine : all = ElementsOf(object) /\ mine = ElementsOf(kind)
  OBVIOUS
<1>13. all = {<<"name", name>>, <<"ph", evt.ph>>} \cup (IF category = <<>> THEN {} ELSE {pair})
             \cup mine \cup {<<"tid", item.thread_id>>}
  BY <1>5, <1>6, <1>9, <1>10, <1>11, <1>12
<1>14. pair[1] = "cat" /\ \A e \in mine : e[1] \in KindKeys
  BY <1>2, <1>7, <1>12
<1>15. ASSUME NEW e \in all
       PROVE  /\ e[1] = "name" => e = <<"name", name>>
              /\ e[1] = "ph" => e = <<"ph", evt.ph>>
              /\ e[1] = "tid" => e = <<"tid", item.thread_id>>
              /\ e[1] = "cat" => e = pair /\ category # <<>>
              /\ e[1] \in KindKeys => e \in mine
  BY <1>13, <1>14 DEF KindKeys
<1>16. Field(object, "name") = name /\ Field(object, "ph") = evt.ph
       /\ Field(object, "tid") = item.thread_id
  <2>1. /\ Holds(all, "name", name) /\ Holds(all, "ph", evt.ph)
        /\ Holds(all, "tid", item.thread_id)
    BY <1>13, <1>15 DEF Holds
  <2> QED
    BY <1>11, <1>12, <2>1, HeldIsFound
<1>17. Has(object, "cat") <=> category # <<>>
  <2>1. Has(object, "cat") <=> \E e \in all : e[1] = "cat"
    BY <1>11, <1>12, IsSeqFacts DEF Has, ElementsOf
  <2> QED
    BY <1>13, <1>14, <1>15, <2>1
<1>18. ASSUME category # <<>> PROVE Field(object, "cat") = escape_json_string(category)
  <2>1. Holds(all, "cat", escape_json_string(category))
    BY <1>2, <1>13, <1>15, <1>18 DEF Holds
  <2> QED
    BY <1>11, <1>12, <2>1, HeldIsFound
<1>19. ASSUME NEW key \in KindKeys, NEW value, Holds(mine, key, value)
       PROVE  Field(object, key) = value
  <2>1. Holds(all, key, value)
    BY <1>13, <1>15, <1>19 DEF Holds
  <2> QED
    BY <1>11, <1>12, <2>1, HeldIsFound
<1>20. /\ evt.ph # "M" => Field(object, "ts") = FractionUs(evt.ts - since)
       /\ evt.ph = "X" => Field(object, "dur") = FractionUs(evt.duration_ns)
  <2>1. /\ evt.ph # "M" => Holds(mine, "ts", FractionUs(evt.ts - since))
        /\ evt.ph = "X" => Holds(mine, "dur", FractionUs(evt.duration_ns))
    BY <1>1, <1>2, <1>12, KindAdds
  <2>2. "ts" \in KindKeys /\ "dur" \in KindKeys
    BY DEF KindKeys
  <2> QED
    BY <1>19, <2>1, <2>2
<1>21. ASSUME evt.ph = "C" PROVE Field(object, "args")[1] = escape_json_string(chars)
  <2>1. PICK value : value = <<escape_json_string(chars), evt.value>>
    OBVIOUS
  <2>2. Holds(mine, "args", value)
    BY <1>1, <1>2, <1>12, <1>21, <2>1, KindAdds
  <2>3. "args" \in KindKeys
    BY DEF KindKeys
  <2>4. Field(object, "args") = value
    BY <1>19, <2>2, <2>3
  <2> QED
    BY <2>1, <2>4
<1>22. ASSUME evt.ph = "M", evt.type \notin SortIndex
       PROVE  Field(object, "args")[2] = escape_json_string(chars)
  <2>1. PICK key : Holds(mine, "args", <<key, IF evt.type \in SortIndex THEN evt.sort_index
                                              ELSE escape_json_string(chars)>>)
    BY <1>1, <1>2, <1>12, <1>22, KindAdds
  <2>2. PICK value : value = <<key, escape_json_string(chars)>>
    OBVIOUS
  <2>3. Holds(mine, "args", value) /\ "args" \in KindKeys
    BY <1>22, <2>1, <2>2 DEF KindKeys
  <2>4. Field(object, "args") = value
    BY <1>19, <2>3
  <2> QED
    BY <2>2, <2>4
<1> QED
  BY <1>1, <1>2, <1>16, <1>17, <1>18, <1>20, <1>21, <1>22

(* A complete event that did not begin before time point zero is read as   *)
(* the scope it is of.                                                     *)
LEMMA ScopeRead ==
  ASSUME NEW item, IsX(item), NEW chars, NEW since \in Nat,
         item.evt.ts \in Nat, item.evt.duration_ns \in Nat, since <= item.evt.ts
  PROVE  LET object == Object(item, chars, since)
         IN  /\ Begin(object) = item.evt.ts - since
             /\ End(object) = Stop(item) - since
<1>1. PICK object, from, dur : /\ object = Object(item, chars, since)
                               /\ from = item.evt.ts - since /\ dur = item.evt.duration_ns
  OBVIOUS
<1>2. Field(object, "ts") = FractionUs(from) /\ Field(object, "dur") = FractionUs(dur)
  <2>1. item.evt.ph = "X" /\ item.evt.ph \in Kinds
    BY DEF IsX, Kinds
  <2> QED
    BY <1>1, <2>1, ObjectFields
<1>3. from \in Nat /\ dur \in Nat
  BY <1>1
<1>4. Begin(object) = from /\ End(object) = from + dur
  BY <1>2, <1>3, FractionRead DEF Begin, End
<1> QED
  BY <1>1, <1>4 DEF Stop

-----------------------------------------------------------------------------
(* Scopes that nest in the sink nest in the text that is read back. *)
LEMMA WriteScopes ==
  ASSUME TInv, Write
  PROVE  ScopesNest'
<1>1. PICK since, s : since = properties.time_point_zero_ns /\ s = sink
  OBVIOUS
<1>2. since \in Nat
  BY <1>1 DEF Write, TInv, ClockOK
<1>3. /\ file' = [k \in DOMAIN s |-> Object(s[k], text, since)]
      /\ properties' = properties /\ sink' = s
  BY <1>1 DEF Write, in_trace_event_format
<1> SUFFICES ASSUME NEW t \in Thread, NEW j \in CompletesOf(t)', NEW k \in CompletesOf(t)', j < k
             PROVE  /\ End(file'[j]) <= End(file'[k])
                    /\ \/ Begin(file'[k]) <= Begin(file'[j])
                       \/ End(file'[j]) <= Begin(file'[k])
  BY DEF ScopesNest, Begin, End
<1>4. ASSUME NEW i \in CompletesOf(t)'
      PROVE  /\ i \in DOMAIN s /\ s[i].thread_id = t /\ IsX(s[i])
             /\ s[i].evt.ts \in Nat /\ s[i].evt.duration_ns \in Nat
             /\ Begin(file'[i]) = s[i].evt.ts - since
             /\ End(file'[i]) = Stop(s[i]) - since
  <2>1. i \in DOMAIN s /\ s[i].thread_id = t /\ IsX(s[i]) /\ s[i].evt.ts >= since
    BY <1>1, <1>3 DEF CompletesOf, IsX
  <2>2. Past(t, s[i])
    BY <1>1, <2>1 DEF Past
  <2>3. s[i].evt.ts \in Nat /\ s[i].evt.duration_ns \in Nat
    BY <2>1, <2>2 DEF TInv, ThreadOK, ItemsOK, Spans
  <2>4. file'[i] = Object(s[i], text, since)
    BY <1>3, <2>1
  <2>5. PICK item : item = s[i]
    OBVIOUS
  <2>6. Begin(file'[i]) = item.evt.ts - since /\ End(file'[i]) = Stop(item) - since
    BY <1>2, <2>1, <2>3, <2>4, <2>5, ScopeRead
  <2> QED
    BY <2>1, <2>3, <2>5, <2>6
<1>5. Nest(s[j], s[k])
  BY <1>1, <1>4 DEF TInv, ThreadOK, NestOK
<1>6. Stop(s[j]) <= Stop(s[k]) /\ (s[k].evt.ts <= s[j].evt.ts \/ Stop(s[j]) <= s[k].evt.ts)
  BY <1>4, <1>5 DEF Nest
<1> QED
  BY <1>2, <1>4, <1>6 DEF Stop

LEMMA InitScopes ==
  ASSUME Init
  PROVE  SInv
<1>1. clock \in Nat /\ zero \in Nat
  <2>1. PICK n \in Time : TRUE
    BY MarkersAssumption
  <2>2. Time \in SUBSET Nat
    BY MarkersAssumption
  <2>3. \E k \in Time : \A j \in Time : k <= j
    BY <2>1, <2>2, LeastNumber
  <2>4. Min(Time) \in Time
    BY <2>3 DEF Min
  <2> QED
    BY <2>2, <2>4 DEF Init
<1>2. \A t \in Thread : Events(t) = <<>>
  BY DEF Init, Events
<1>3. ClockOK
  BY <1>1, <1>2 DEF Init, ClockOK
<1>4. ShapeOK
  BY ShortSequences DEF Init, ShapeOK
<1>5. ASSUME NEW t \in Thread PROVE ThreadOK(t)
  <2>1. \A x : ~Past(t, x)
    BY <1>2 DEF Past, Init
  <2>2. \A a : ~OpenScope(t, a)
    BY DEF OpenScope, Init
  <2>3. DOMAIN Events(t) = {} /\ DOMAIN sink = {}
    BY <1>2 DEF Init
  <2> QED
    BY <2>1, <2>2, <2>3 DEF ThreadOK, ItemsOK, GuardsOK, NestOK
<1>6. ScopesNest
  BY DEF Init, ScopesNest
<1> QED
  BY <1>3, <1>4, <1>5, <1>6 DEF SInv

(* The file is written once, at the end. *)
LEMMA FileKept ==
  ASSUME Next, ~Write
  PROVE  file = Null /\ file' = Null
<1>1. file = Null
  BY DEF Next
<1>2. ASSUME Tick \/ InitialiseZero \/ \E p \in Pointer : Rewrite(p)
      PROVE  file' = file
  BY <1>2 DEF Tick, InitialiseZero, Rewrite
<1>3. ASSUME NEW t \in Thread, CloseGuard(t) \/ Flush(t) \/ \E n \in Request : Reserve(t, n)
      PROVE  file' = file
  BY <1>3 DEF CloseGuard, Flush, Reserve, Submit
<1>4. ASSUME NEW t \in Thread, NEW cat, NEW p, Mark(t, cat, p) PROVE file' = file
  BY <1>4 DEF Mark, Instant, DurationBegin, DurationEnd, Counter, Counters, Metadata,
     OpenComplete, OpenDuration, Marker, Submit
<1>5. ASSUME NEW t \in Thread, NEW cat, Instant(t, cat, Null, "t") PROVE file' = file
  BY <1>5 DEF Instant, Marker, Submit
<1> QED
  BY <1>1, <1>2, <1>3, <1>4, <1>5 DEF Next

(* What is in files nests because everything before did: what a thread     *)
(* submitted, wherever it is, and the scopes that are still open.          *)
THEOREM ScopesInvariance == Spec => []SInv
<1>1. SInv /\ [Next]_vars => SInv'
  <2> SUFFICES ASSUME SInv, [Next]_vars PROVE SInv'
    OBVIOUS
  <2>1. TInv
    BY DEF SInv, TInv
  <2>2. CASE UNCHANGED vars
    <3>1. TInv'
      BY <2>1, <2>2, TimeScopes DEF vars, TInv, ClockOK
    <3>2. ScopesNest'
      <4>1. UNCHANGED <<file, sink, properties>> /\ ScopesNest
        BY <2>2 DEF vars, SInv
      <4> QED
        BY <4>1 DEF ScopesNest, CompletesOf, Begin, End
    <3> QED
      BY <3>1, <3>2 DEF SInv, TInv
  <2>3. CASE Next
    <3>1. TInv'
      BY <2>1, <2>3, TInvStep
    <3>2. CASE Write
      BY <2>1, <3>1, <3>2, WriteScopes DEF SInv, TInv
    <3>3. CASE ~Write
      <4>1. file' = Null
        BY <2>3, <3>3, FileKept
      <4> QED
        BY <3>1, <4>1 DEF SInv, TInv, ScopesNest
    <3> QED
      BY <3>2, <3>3
  <2> QED
    BY <2>2, <2>3
<1> QED
  BY <1>1, InitScopes, PTL DEF Spec

(* The complete events of a thread are written inner scopes first, and any *)
(* two of them lie within or beside each other, as scopes do, whenever     *)
(* threads flush, whatever time point zero is and whichever blocks had no  *)
(* room.                                                                   *)
THEOREM ScopesAreNested == Spec => []ScopesNest
<1>1. SInv => ScopesNest
  BY DEF SInv
<1> QED
  BY <1>1, ScopesInvariance, PTL

-----------------------------------------------------------------------------
(* A string is read back: the reader of TraceFormat undoes the escapes.    *)

Special == {"quote", "backslash", "newline", "bell"}

(* Escapes begin with a backslash, and their second characters differ.     *)
LEMMA Escapes ==
  /\ DOMAIN EscapeOf = Special
  /\ \A c \in Special : /\ Len(EscapeOf[c]) \in Nat /\ Len(EscapeOf[c]) >= 2
                        /\ DOMAIN EscapeOf[c] = 1 .. Len(EscapeOf[c])
                        /\ EscapeOf[c][1] = "backslash"
  /\ \A c, d \in Special : EscapeOf[c][2] = EscapeOf[d][2] => c = d
<1>1. DOMAIN EscapeOf = Special
  BY DEF EscapeOf, Special
<1>2. /\ EscapeOf["quote"] = <<"backslash", "quote">>
      /\ EscapeOf["backslash"] = <<"backslash", "backslash">>
      /\ EscapeOf["newline"] = <<"backslash", "n">>
      /\ EscapeOf["bell"] = <<"backslash", "u", "0", "0", "0", "7">>
  BY DEF EscapeOf
<1>3. ASSUME NEW c \in Special
      PROVE  /\ Len(EscapeOf[c]) \in Nat /\ Len(EscapeOf[c]) >= 2
             /\ DOMAIN EscapeOf[c] = 1 .. Len(EscapeOf[c])
             /\ EscapeOf[c][1] = "backslash"
  BY <1>2 DEF Special
<1>4. ASSUME NEW c \in Special, NEW d \in Special, EscapeOf[c][2] = EscapeOf[d][2]
      PROVE  c = d
  BY <1>2, <1>4 DEF Special
<1> QED
  BY <1>1, <1>3, <1>4

(* The function the reader is defined with. *)
Rests(s, m, f) == f = [n \in 0 .. m |-> ReadLast(s, n, f)]

(* It looks at what fewer characters give only. *)
LEMMA RestLooksBack ==
  ASSUME NEW s, Len(s) \in Nat, NEW f, NEW g, NEW n \in Nat, n <= Len(s),
         \A k \in 0 .. n - 1 : f[k] = g[k]
  PROVE  ReadLast(s, n, f) = ReadLast(s, n, g)
<1>1. PICK k, c : k = Len(s) + 1 - n /\ c = CHOOSE e \in EscapesIn(s, k) : TRUE
  OBVIOUS
<1>2. ASSUME EscapesIn(s, k) # {}
      PROVE  f[n - Len(EscapeOf[c])] = g[n - Len(EscapeOf[c])]
  <2>1. c \in EscapesIn(s, k)
    BY <1>1, <1>2
  <2>2. PICK m : m = Len(EscapeOf[c])
    OBVIOUS
  <2>3. m \in Nat /\ m >= 2 /\ m \in DOMAIN EscapeOf[c]
    BY <2>1, <2>2, Escapes DEF EscapesIn
  <2>4. k + m - 1 <= Len(s)
    BY <2>1, <2>3 DEF EscapesIn
  <2>5. n - m \in 0 .. n - 1
    BY <1>1, <2>3, <2>4
  <2> QED
    BY <2>2, <2>5
<1>3. n > 1 => n - 1 \in 0 .. n - 1
  OBVIOUS
<1>4. /\ ReadLast(s, n, f) = CASE n = 0 -> Unreadable
        [] n = 1 -> IF s[k] = "quote" THEN <<>> ELSE Unreadable
        [] n > 1 /\ EscapesIn(s, k) # {} -> <<c>> \o f[n - Len(EscapeOf[c])]
        [] n > 1 /\ EscapesIn(s, k) = {} ->
             IF s[k] \in DOMAIN EscapeOf THEN Unreadable ELSE <<s[k]>> \o f[n - 1]
      /\ ReadLast(s, n, g) = CASE n = 0 -> Unreadable
        [] n = 1 -> IF s[k] = "quote" THEN <<>> ELSE Unreadable
        [] n > 1 /\ EscapesIn(s, k) # {} -> <<c>> \o g[n - Len(EscapeOf[c])]
        [] n > 1 /\ EscapesIn(s, k) = {} ->
             IF s[k] \in DOMAIN EscapeOf THEN Unreadable ELSE <<s[k]>> \o g[n - 1]
  BY <1>1 DEF ReadLast
<1>5. n = 0 \/ n = 1 \/ n > 1
  OBVIOUS
<1>6. CASE n > 1
  BY <1>2, <1>3, <1>4, <1>6
<1> QED
  BY <1>4, <1>5, <1>6

LEMMA RestsExist ==
  ASSUME NEW s, Len(s) \in Nat
  PROVE  \E f : Rests(s, Len(s), f)
<1> DEFINE S == {m \in Nat : m <= Len(s) => \E f : Rests(s, m, f)}
<1>1. 0 \in S
  <2>1. PICK f : f = [n \in 0 .. 0 |-> Unreadable]
    OBVIOUS
  <2>2. ASSUME NEW n \in 0 .. 0 PROVE ReadLast(s, n, f) = Unreadable
    BY DEF ReadLast
  <2>3. Rests(s, 0, f)
    BY <2>1, <2>2 DEF Rests
  <2> QED
    BY <2>3
<1>2. ASSUME NEW m \in S PROVE m + 1 \in S
  <2>1. m \in Nat
    BY <1>2
  <2>2. SUFFICES ASSUME m + 1 <= Len(s) PROVE \E g : Rests(s, m + 1, g)
    BY <2>1
  <2>3. PICK f : Rests(s, m, f)
    BY <1>2, <2>1, <2>2
  <2>4. PICK g : g = [n \in 0 .. m + 1 |-> ReadLast(s, n, f)]
    OBVIOUS
  <2>5. \A n \in 0 .. m : f[n] = g[n]
    BY <2>1, <2>3, <2>4 DEF Rests
  <2>6. ASSUME NEW n \in 0 .. m + 1 PROVE ReadLast(s, n, f) = ReadLast(s, n, g)
    <3>1. n \in Nat /\ n <= Len(s) /\ \A k \in 0 .. n - 1 : f[k] = g[k]
      BY <2>1, <2>2, <2>5
    <3> QED
      BY <3>1, RestLooksBack
  <2>7. Rests(s, m + 1, g)
    BY <2>4, <2>6 DEF Rests
  <2> QED
    BY <2>7
<1> HIDE DEF S
<1>3. S \in SUBSET Nat
  BY DEF S
<1>4. S = Nat
  BY <1>1, <1>2, <1>3, AllNaturals
<1> QED
  BY <1>4 DEF S

LEMMA ReadStringUnfolds ==
  ASSUME NEW s, Len(s) \in Nat, s # <<"null">>, s # <<>>, s[1] = "quote"
  PROVE  \E f : Rests(s, Len(s), f) /\ ReadString(s) = f[Len(s) - 1]
<1>1. PICK f : f = CHOOSE g : Rests(s, Len(s), g)
  OBVIOUS
<1>2. Rests(s, Len(s), f)
  BY <1>1, RestsExist
<1>3. ReadString(s) = f[Len(s) - 1]
  <2> DEFINE h == CHOOSE g : Rests(s, Len(s), g)
  <2>1. ReadString(s) = IF s = <<"null">> THEN Null
                        ELSE IF s = <<>> \/ s[1] # "quote" THEN Unreadable ELSE h[Len(s) - 1]
    BY DEF ReadString, Rests
  <2> QED
    BY <1>1, <2>1
<1> QED
  BY <1>2, <1>3

(* What escapes make of the first characters of a string. *)
Written(str, n, F) ==
  /\ F[0] = <<>>
  /\ \A i \in 0 .. n : IsSeq(F[i])
  /\ \A i \in 1 .. n : F[i] = F[i - 1] \o Escaped(str[i])

LEMMA EscapedIsSeq ==
  ASSUME NEW T, Special \cup {"n", "u", "0", "7"} \subseteq T, NEW c \in T
  PROVE  Escaped(c) \in Seq(T)
<1>1. CASE c \in Special
  <2>1. EscapeOf["quote"] \in Seq(T) /\ EscapeOf["backslash"] \in Seq(T)
        /\ EscapeOf["newline"] \in Seq(T) /\ EscapeOf["bell"] \in Seq(T)
    BY DEF EscapeOf, Special
  <2>2. Escaped(c) = EscapeOf[c]
    BY <1>1, Escapes DEF Escaped
  <2> QED
    BY <1>1, <2>1, <2>2 DEF Special
<1>2. CASE c \notin Special
  BY <1>2, Escapes DEF Escaped
<1> QED
  BY <1>1, <1>2

LEMMA BodyWritten ==
  ASSUME NEW S, NEW str \in Seq(S)
  PROVE  \E F : /\ Written(str, Len(str), F)
                /\ FlattenSeq([i \in DOMAIN str |-> Escaped(str[i])]) = F[Len(str)]
<1>1. PICK T, n, q : /\ T = S \cup Special \cup {"n", "u", "0", "7"} /\ n = Len(str)
                     /\ q = [i \in DOMAIN str |-> Escaped(str[i])]
  OBVIOUS
<1>2. n \in Nat /\ DOMAIN str = 1 .. n /\ \A i \in 1 .. n : str[i] \in T
  BY <1>1
<1>3. \A i \in 1 .. n : Escaped(str[i]) \in Seq(T)
  BY <1>1, <1>2, EscapedIsSeq
<1>4. q \in [1 .. n -> Seq(T)] /\ \A i \in 1 .. n : q[i] = Escaped(str[i])
  BY <1>1, <1>2, <1>3
<1>5. PICK Q : Q = Seq(T)
  OBVIOUS
<1>6. PICK steps : steps = [k \in Nat |-> [p \in Q |-> IF k \in 1 .. n THEN p \o q[k] ELSE p]]
  OBVIOUS
<1>7. steps \in [Nat -> [Q -> Q]]
  <2>1. ASSUME NEW k \in Nat, NEW p \in Q
        PROVE  (IF k \in 1 .. n THEN p \o q[k] ELSE p) \in Q
    <3>1. CASE k \in 1 .. n
      <4>1. p \in Seq(T) /\ q[k] \in Seq(T)
        BY <1>4, <1>5, <3>1
      <4> QED
        BY <1>5, <3>1, <4>1
    <3> QED
      BY <3>1
  <2> QED
    BY <1>6, <2>1
<1>8. <<>> \in Q
  BY <1>5
<1>9. PICK F : Follows(Q, steps, <<>>, n, F)
  BY <1>2, <1>7, <1>8, FollowsExist
<1>10. F \in [0 .. n -> Seq(T)] /\ F[0] = <<>>
  BY <1>5, <1>9 DEF Follows
<1>11. ASSUME NEW k \in 1 .. n PROVE F[k] = F[k - 1] \o q[k]
  <2>1. k \in Nat /\ k - 1 \in 0 .. n
    BY <1>2
  <2>2. F[k] = steps[k][F[k - 1]] /\ F[k - 1] \in Q
    BY <1>5, <1>9, <1>10, <2>1 DEF Follows
  <2> QED
    BY <1>6, <2>1, <2>2
<1>12. FlattenSeq(q) = F[n]
  <2>1. n \in Nat /\ q \in [1 .. n -> Seq(T)]
    BY <1>2, <1>4
  <2> QED
    BY <1>10, <1>11, <2>1, Flattened, Zenon
<1>13. Written(str, n, F)
  <2>1. \A i \in 0 .. n : IsSeq(F[i])
    BY <1>10 DEF IsSeq
  <2> QED
    BY <1>4, <1>10, <1>11, <2>1 DEF Written
<1> QED
  BY <1>1, <1>12, <1>13

(* What is written does not change any more. *)
LEMMA WrittenStays ==
  ASSUME NEW str, NEW n \in Nat, NEW F, Written(str, n, F), \A i \in 1 .. n : IsSeq(Escaped(str[i]))
  PROVE  \A i \in 0 .. n : /\ Len(F[i]) \in Nat /\ Len(F[n]) \in Nat /\ Len(F[i]) <= Len(F[n])
                           /\ \A j \in 1 .. Len(F[i]) : F[n][j] = F[i][j]
<1> DEFINE Keeps(i, m) == /\ Len(F[i]) <= Len(F[m])
                          /\ \A j \in 1 .. Len(F[i]) : F[m][j] = F[i][j]
           S == {m \in Nat : m <= n => \A i \in 0 .. m : Keeps(i, m)}
<1>1. \A i \in 0 .. n : IsSeq(F[i]) /\ Len(F[i]) \in Nat
  BY IsSeqFacts DEF Written
<1>2. 0 \in S
  <2>1. Keeps(0, 0)
    BY <1>1
  <2> QED
    BY <2>1
<1>3. ASSUME NEW m \in S PROVE m + 1 \in S
  <2>1. m \in Nat
    BY <1>3
  <2>2. SUFFICES ASSUME m + 1 <= n, NEW i \in 0 .. m + 1 PROVE Keeps(i, m + 1)
    BY <2>1
  <2>3. PICK k : k = m + 1
    OBVIOUS
  <2>4. k \in 1 .. n /\ k - 1 = m /\ m \in 0 .. n
    BY <2>1, <2>2, <2>3
  <2>5. F[k] = F[m] \o Escaped(str[k]) /\ IsSeq(F[m]) /\ IsSeq(Escaped(str[k]))
    BY <1>1, <2>4 DEF Written
  <2>6. /\ Len(F[m]) <= Len(F[k])
        /\ \A j \in 1 .. Len(F[m]) : F[k][j] = F[m][j]
    <3>1. PICK p, e, r : p = F[m] /\ e = Escaped(str[k]) /\ r = F[k]
      OBVIOUS
    <3>2. IsSeq(p) /\ IsSeq(e) /\ r = p \o e
      BY <2>5, <3>1
    <3>3. /\ Len(p) \in Nat /\ Len(e) \in Nat /\ Len(r) = Len(p) + Len(e)
          /\ \A j \in 1 .. Len(p) : r[j] = p[j]
      BY <3>2, ConcatAny, IsSeqFacts
    <3>4. Len(p) <= Len(r)
      BY <3>3
    <3> QED
      BY <3>1, <3>3, <3>4
  <2>7. CASE i = k
    BY <1>1, <2>2, <2>3, <2>7
  <2>8. CASE i # k
    <3>1. i \in 0 .. m /\ i \in 0 .. n
      BY <2>1, <2>2, <2>3, <2>8
    <3>2. Keeps(i, m)
      BY <1>3, <2>4, <3>1
    <3>3. Len(F[i]) \in Nat /\ Len(F[m]) \in Nat /\ Len(F[k]) \in Nat
      BY <1>1, <2>4, <3>1
    <3> QED
      BY <2>3, <2>6, <3>2, <3>3
  <2> QED
    BY <2>7, <2>8
<1> HIDE DEF S
<1>4. S \in SUBSET Nat
  BY DEF S
<1>5. S = Nat
  BY <1>2, <1>3, <1>4, AllNaturals
<1>6. \A i \in 0 .. n : Keeps(i, n)
  BY <1>5 DEF S
<1> QED
  BY <1>1, <1>6

(* What stands for one character is read as that one. *)
StandsAt(s, k, e) ==
  \A j \in 1 .. Len(e) : k + j - 1 <= Len(s) /\ s[k + j - 1] = e[j]
ReadFirst(s, n, f, c, m) == ReadLast(s, n, f) = <<c>> \o f[n - m]

LEMMA OneRead ==
  ASSUME NEW s, Len(s) \in Nat, NEW f, NEW n \in Nat, n > 1, n <= Len(s),
         NEW c, StandsAt(s, Len(s) + 1 - n, Escaped(c))
  PROVE  ReadFirst(s, n, f, c, Len(Escaped(c)))
<1> USE DEF ReadFirst
<1>0. PICK k, e : k = Len(s) + 1 - n /\ e = Escaped(c)
  OBVIOUS
<1>1. k = Len(s) + 1 - n /\ e = Escaped(c)
  BY <1>0
<1>2. k \in Nat /\ \A j \in 1 .. Len(e) : k + j - 1 <= Len(s) /\ s[k + j - 1] = e[j]
  BY <1>1 DEF StandsAt
<1>3. CASE c \in Special
  <2>1. /\ e = EscapeOf[c] /\ DOMAIN e = 1 .. Len(e) /\ Len(e) \in Nat /\ Len(e) >= 2
        /\ e[1] = "backslash"
    BY <1>1, <1>3, Escapes DEF Escaped
  <2>2. c \in EscapesIn(s, k)
    BY <1>2, <1>3, <2>1, Escapes DEF EscapesIn
  <2>3. ASSUME NEW d \in EscapesIn(s, k) PROVE d = c
    <3>1. d \in Special /\ 2 \in DOMAIN EscapeOf[d]
      BY Escapes DEF EscapesIn
    <3>2. s[k + 2 - 1] = EscapeOf[d][2]
      BY <3>1 DEF EscapesIn
    <3>3. s[k + 2 - 1] = e[2]
      BY <1>2, <2>1
    <3> QED
      BY <1>3, <2>1, <3>1, <3>2, <3>3, Escapes
  <2>4. EscapesIn(s, k) # {}
    BY <2>2
  <2>5. PICK d : d = CHOOSE x \in EscapesIn(s, k) : TRUE
    OBVIOUS
  <2>6. d = c
    BY <2>3, <2>4, <2>5
  <2>7. ReadLast(s, n, f) = <<d>> \o f[n - Len(EscapeOf[d])]
    BY <1>1, <2>4, <2>5 DEF ReadLast
  <2> QED
    BY <1>1, <2>1, <2>6, <2>7
<1>4. CASE c \notin Special
  <2>1. e = <<c>> /\ Len(e) = 1 /\ e[1] = c
    BY <1>1, <1>4, Escapes DEF Escaped
  <2>2. s[k] = c
    <3>1. k + 1 - 1 = k /\ 1 \in 1 .. Len(e)
      BY <1>2, <2>1
    <3> QED
      BY <1>2, <2>1, <3>1
  <2>3. EscapesIn(s, k) = {}
    <3> SUFFICES ASSUME NEW d \in EscapesIn(s, k) PROVE FALSE
      OBVIOUS
    <3>1. d \in Special /\ 1 \in DOMAIN EscapeOf[d] /\ EscapeOf[d][1] = "backslash"
      BY Escapes DEF EscapesIn
    <3>2. s[k + 1 - 1] = "backslash"
      BY <3>1 DEF EscapesIn
    <3> QED
      BY <1>2, <1>4, <2>2, <3>2 DEF Special
  <2> QED
    BY <1>1, <1>4, <2>1, <2>2, <2>3, Escapes DEF ReadLast
<1> QED
  BY <1>3, <1>4

(* What a reader finds in the place of a string is that string. *)
LEMMA StringRead ==
  ASSUME NEW S, NEW str, str \in Seq(S) \cup {Null}
  PROVE  ReadString(escape_json_string(str)) = str
<1>1. CASE str = Null
  BY <1>1 DEF ReadString, escape_json_string
<1>2. CASE str # Null
  <2>1. str \in Seq(S)
    BY <1>2
  <2>2. PICK n : n = Len(str)
    OBVIOUS
  <2>3. PICK F : /\ Written(str, n, F)
                 /\ FlattenSeq([i \in DOMAIN str |-> Escaped(str[i])]) = F[n]
    BY <2>1, <2>2, BodyWritten
  <2>4. n \in Nat /\ DOMAIN str = 1 .. n
    BY <2>1, <2>2
  <2>5. \A i \in 1 .. n : IsSeq(Escaped(str[i]))
    <3>1. PICK T : T = S \cup Special \cup {"n", "u", "0", "7"}
      OBVIOUS
    <3>2. ASSUME NEW i \in 1 .. n PROVE Escaped(str[i]) \in Seq(T)
      <4>1. str[i] \in T
        BY <2>1, <2>2, <3>1
      <4> QED
        BY <3>1, <4>1, EscapedIsSeq
    <3> QED
      BY <3>2 DEF IsSeq
  <2>6. \A i \in 0 .. n : /\ IsSeq(F[i]) /\ Len(F[i]) \in Nat /\ Len(F[i]) <= Len(F[n])
                          /\ \A j \in 1 .. Len(F[i]) : F[n][j] = F[i][j]
    <3>1. \A i \in 0 .. n : /\ Len(F[i]) \in Nat /\ Len(F[i]) <= Len(F[n])
                            /\ \A j \in 1 .. Len(F[i]) : F[n][j] = F[i][j]
      BY <2>3, <2>4, <2>5, WrittenStays
    <3>2. \A i \in 0 .. n : IsSeq(F[i])
      BY <2>3 DEF Written
    <3> QED
      BY <3>1, <3>2
  <2>7. PICK s, B, L : s = escape_json_string(str) /\ B = F[n] /\ L = Len(B)
    OBVIOUS
  <2>8. L \in Nat /\ IsSeq(B)
    BY <2>4, <2>6, <2>7
  <2>9. /\ Len(s) = L + 2 /\ s[1] = "quote" /\ s[L + 2] = "quote"
        /\ \A j \in 1 .. L : s[j + 1] = B[j]
    <3>1. PICK q : q = <<"quote">>
      OBVIOUS
    <3>2. s = q \o B \o q
      BY <1>2, <2>3, <2>7, <3>1 DEF escape_json_string
    <3>3. IsSeq(q) /\ Len(q) = 1 /\ q[1] = "quote"
      BY <3>1, ShortSequences
    <3>4. PICK p : p = q \o B
      OBVIOUS
    <3>5. /\ IsSeq(p) /\ Len(p) = 1 + L /\ p[1] = "quote"
          /\ \A j \in 2 .. 1 + L : p[j] = B[j - 1]
      <4>1. /\ IsSeq(p) /\ Len(p) = Len(q) + Len(B)
            /\ \A j \in 1 .. Len(q) : p[j] = q[j]
            /\ \A j \in Len(q) + 1 .. Len(q) + Len(B) : p[j] = B[j - Len(q)]
        BY <2>8, <3>3, <3>4, ConcatAny
      <4> QED
        BY <2>7, <2>8, <3>3, <4>1
    <3>6. /\ Len(s) = (1 + L) + 1
          /\ \A j \in 1 .. 1 + L : s[j] = p[j]
          /\ \A j \in (1 + L) + 1 .. (1 + L) + 1 : s[j] = q[j - (1 + L)]
      <4>1. s = p \o q
        BY <3>2, <3>4
      <4>2. /\ Len(s) = Len(p) + Len(q)
            /\ \A j \in 1 .. Len(p) : s[j] = p[j]
            /\ \A j \in Len(p) + 1 .. Len(p) + Len(q) : s[j] = q[j - Len(p)]
        BY <3>3, <3>5, <4>1, ConcatAny
      <4> QED
        BY <2>8, <3>3, <3>5, <4>2
    <3>7. \A j \in 1 .. L : j + 1 \in 2 .. 1 + L /\ (j + 1) - 1 = j
      BY <2>8
    <3>8. \A j \in 1 .. L : s[j + 1] = B[j]
      BY <2>8, <3>5, <3>6, <3>7
    <3>9. s[L + 2] = q[1]
      <4>1. L + 2 \in (1 + L) + 1 .. (1 + L) + 1 /\ (L + 2) - (1 + L) = 1
        BY <2>8
      <4> QED
        BY <3>6, <4>1
    <3> QED
      BY <2>8, <3>3, <3>5, <3>6, <3>8, <3>9
  <2>10. s # <<"null">> /\ s # <<>>
    BY <2>8, <2>9
  <2>11. PICK f : Rests(s, Len(s), f) /\ ReadString(s) = f[Len(s) - 1]
    BY <2>8, <2>9, <2>10, ReadStringUnfolds
  <2>12. \A k \in 0 .. L + 2 : f[k] = ReadLast(s, k, f)
    BY <2>9, <2>11 DEF Rests
  <2> DEFINE Suffix(i) == [j \in 1 .. n - i |-> str[i + j]]
             R == {m \in Nat : m <= n =>
                     f[L + 1 - Len(F[n - m])] = Suffix(n - m)}
  <2>13. 0 \in R
    <3>1. n - 0 = n /\ L + 1 - Len(F[n]) = 1
      BY <2>4, <2>7, <2>8
    <3>2. f[1] = <<>>
      <4>1. f[1] = ReadLast(s, 1, f)
        BY <2>8, <2>12
      <4>2. Len(s) + 1 - 1 = L + 2
        BY <2>8, <2>9
      <4> QED
        BY <2>9, <4>1, <4>2 DEF ReadLast
    <3>3. Suffix(n) = <<>>
      BY <2>4
    <3> QED
      BY <3>1, <3>2, <3>3
  <2>14. ASSUME NEW m \in R PROVE m + 1 \in R
    <3>1. m \in Nat
      BY <2>14
    <3>2. SUFFICES ASSUME m + 1 <= n
                   PROVE  f[L + 1 - Len(F[n - (m + 1)])] = Suffix(n - (m + 1))
      BY <3>1
    <3>3. PICK h, i : h = n - (m + 1) /\ i = n - m
      OBVIOUS
    <3>4. i \in 1 .. n /\ h = i - 1 /\ h \in 0 .. n /\ i \in 0 .. n
      BY <2>4, <3>1, <3>2, <3>3
    <3>5. PICK c, e, p, r : c = str[i] /\ e = Escaped(str[i]) /\ p = F[h] /\ r = F[i]
      OBVIOUS
    <3>6. r = p \o e /\ IsSeq(p) /\ IsSeq(e) /\ Len(r) <= L
          /\ \A j \in 1 .. Len(r) : B[j] = r[j]
      BY <2>3, <2>5, <2>6, <2>7, <3>4, <3>5 DEF Written
    <3>7. /\ Len(p) \in Nat /\ Len(e) \in Nat /\ Len(r) = Len(p) + Len(e)
          /\ \A j \in Len(p) + 1 .. Len(p) + Len(e) : r[j] = e[j - Len(p)]
      BY <3>6, ConcatAny, IsSeqFacts
    <3>8. Len(e) >= 1
      <4>1. CASE c \in Special
        BY <3>5, <4>1, Escapes DEF Escaped
      <4>2. CASE c \notin Special
        BY <3>5, <4>2, Escapes DEF Escaped
      <4> QED
        BY <4>1, <4>2
    <3>9. PICK k : k = L + 1 - Len(p)
      OBVIOUS
    <3>10. k \in Nat /\ k > 1 /\ k <= Len(s) /\ k \in 0 .. L + 2
      BY <2>8, <2>9, <3>6, <3>7, <3>8, <3>9
    <3>11. PICK at : at = Len(s) + 1 - k
      OBVIOUS
    <3>12. f[k] = <<c>> \o f[k - Len(e)]
      <4>1. ASSUME NEW j \in 1 .. Len(e)
            PROVE  at + j - 1 <= Len(s) /\ s[at + j - 1] = e[j]
        <5>1. PICK a : a = Len(p) + j
          OBVIOUS
        <5>2. a \in 1 .. Len(r) /\ a \in 1 .. L /\ a \in Len(p) + 1 .. Len(p) + Len(e)
              /\ a - Len(p) = j
          BY <2>8, <3>6, <3>7, <5>1
        <5>3. s[a + 1] = e[j]
          BY <2>9, <3>6, <3>7, <5>2
        <5>4. at + j - 1 = a + 1
          BY <2>8, <2>9, <3>7, <3>9, <3>11, <5>1
        <5> QED
          BY <2>8, <2>9, <5>2, <5>3, <5>4
      <4>2. Len(s) \in Nat /\ e = Escaped(c) /\ k \in Nat /\ k > 1 /\ k <= Len(s)
        BY <2>8, <2>9, <3>5, <3>10
      <4>3. StandsAt(s, Len(s) + 1 - k, Escaped(c))
        BY <3>11, <4>1, <4>2 DEF StandsAt
      <4>4. ReadFirst(s, k, f, c, Len(Escaped(c)))
        BY <4>2, <4>3, OneRead
      <4>5. ReadLast(s, k, f) = <<c>> \o f[k - Len(e)]
        BY <4>2, <4>4 DEF ReadFirst
      <4> QED
        BY <2>12, <3>10, <4>5
    <3>13. k - Len(e) = L + 1 - Len(r)
      BY <2>8, <3>7, <3>9
    <3>14. f[k - Len(e)] = Suffix(i)
      BY <2>14, <3>2, <3>3, <3>1, <2>4, <3>5, <3>13
    <3>15. <<c>> \o Suffix(i) = Suffix(h)
      <4>1. PICK one, x, y : one = <<c>> /\ x = Suffix(i) /\ y = one \o x
        OBVIOUS
      <4>2. x \in Seq(S) /\ Len(x) = n - i
        <5>1. PICK m0 : m0 = n - i
          OBVIOUS
        <5>2. m0 \in Nat /\ \A j \in 1 .. m0 : i + j \in 1 .. n
          BY <2>4, <3>4, <5>1
        <5>3. x \in [1 .. m0 -> S]
          BY <2>1, <2>2, <4>1, <5>1, <5>2
        <5> QED
          BY <5>1, <5>2, <5>3
      <4>3. \A j \in 1 .. n - i : x[j] = str[i + j]
        BY <4>1
      <4>4. IsSeq(one) /\ Len(one) = 1 /\ one[1] = c /\ IsSeq(x)
        BY <4>1, <4>2, ShortSequences DEF IsSeq
      <4>5. /\ IsSeq(y) /\ Len(y) = 1 + (n - i) /\ y[1] = c
            /\ \A j \in 2 .. 1 + (n - i) : y[j] = x[j - 1]
        <5>1. /\ IsSeq(y) /\ Len(y) = Len(one) + Len(x)
              /\ \A j \in 1 .. Len(one) : y[j] = one[j]
              /\ \A j \in Len(one) + 1 .. Len(one) + Len(x) : y[j] = x[j - Len(one)]
          <6>1. /\ IsSeq(one \o x) /\ Len(one \o x) = Len(one) + Len(x)
                /\ \A j \in 1 .. Len(one) : (one \o x)[j] = one[j]
                /\ \A j \in Len(one) + 1 .. Len(one) + Len(x) : (one \o x)[j] = x[j - Len(one)]
            BY <4>4, ConcatAny
          <6> QED
            BY <4>1, <6>1
        <5> QED
          BY <2>4, <3>4, <4>2, <4>4, <5>1
      <4>6. ASSUME NEW j \in 1 .. n - h PROVE y[j] = str[h + j]
        <5>1. CASE j = 1
          BY <3>4, <3>5, <4>5, <5>1
        <5>2. CASE j # 1
          <6>1. j \in 2 .. 1 + (n - i) /\ j - 1 \in 1 .. n - i /\ i + (j - 1) = h + j
            BY <2>4, <3>4, <5>2
          <6> QED
            BY <4>3, <4>5, <6>1
        <5> QED
          BY <5>1, <5>2
      <4>7. DOMAIN y = 1 .. n - h
        BY <2>4, <3>4, <4>5, IsSeqFacts
      <4>8. y = [j \in 1 .. n - h |-> y[j]]
        <5>1. y = [j \in DOMAIN y |-> y[j]]
          BY <4>5 DEF IsSeq
        <5> QED
          BY <4>7, <5>1
      <4> QED
        BY <4>1, <4>6, <4>8
    <3> QED
      BY <3>3, <3>5, <3>9, <3>12, <3>14, <3>15
  <2>15. R \in SUBSET Nat
    OBVIOUS
  <2> HIDE DEF R
  <2>16. R = Nat
    BY <2>13, <2>14, <2>15, AllNaturals
  <2>17. f[L + 1 - Len(F[n - n])] = Suffix(n - n)
    BY <2>4, <2>16 DEF R
  <2>18. n - n = 0 /\ Len(F[0]) = 0 /\ L + 1 - 0 = Len(s) - 1
    <3>1. F[0] = <<>>
      BY <2>3 DEF Written
    <3> QED
      BY <2>4, <2>8, <2>9, <3>1
  <2>19. Suffix(0) = str
    <3>1. str = [j \in 1 .. n |-> str[j]]
      BY <2>1, <2>2
    <3> QED
      BY <2>4, <3>1
  <2> QED
    BY <2>7, <2>11, <2>17, <2>18, <2>19
<1> QED
  BY <1>1, <1>2

-----------------------------------------------------------------------------
(* What is known of the items on their way to the file.                    *)
Behind(p) == IF p = Null THEN Null ELSE text[p]

EventOK(evt) ==
  /\ evt.ph \in Kinds
  /\ evt.categories \in DOMAIN CategoryName
  /\ evt.desc \in Pointer \cup {Null}
  /\ evt.ph # "M" => evt.ts \in Nat
  /\ evt.ph = "X" => evt.duration_ns \in Nat

(* An item says what is behind its pointer still, if nobody changed that. *)
SaysText(item) == Kept(item) => item.said = Behind(item.evt.desc)

KnownItems == ElementsOf(sink) \cup UNION {ElementsOf(Events(t)) : t \in Thread}

GuardsNamed(t) ==
  \A a : OpenScope(t, a) => /\ guards[t][a].categories \in DOMAIN CategoryName
                            /\ guards[t][a].desc \in Pointer

KInv ==
  /\ text \in [Pointer -> Text]
  /\ \A item \in KnownItems : EventOK(item.evt) /\ SaysText(item)
  /\ \A t \in Thread : GuardsNamed(t)

LEMMA ElementsExtend ==
  ASSUME NEW q, NEW r, NEW New, Extends(q, r, New)
  PROVE  ElementsOf(r) \subseteq ElementsOf(q) \cup New
<1>1. Len(q) \in Nat /\ Len(r) \in Nat
  BY IsSeqFacts DEF Extends
<1> SUFFICES ASSUME NEW i \in 1 .. Len(r) PROVE r[i] \in ElementsOf(q) \cup New
  BY DEF ElementsOf
<1>2. CASE i \in 1 .. Len(q)
  BY <1>2 DEF Extends, ElementsOf
<1>3. CASE i \in Len(q) + 1 .. Len(r)
  BY <1>3 DEF Extends
<1> QED
  BY <1>1, <1>2, <1>3

(* Nothing but New becomes known when one thread changes its events. *)
LEMMA KnownExchanged ==
  ASSUME NEW t \in Thread, NEW New,
         ElementsOf(Events(t)') \subseteq ElementsOf(Events(t)) \cup New,
         ElementsOf(sink') \subseteq ElementsOf(sink) \cup ElementsOf(Events(t)),
         \A u \in Thread \ {t} : Events(u)' = Events(u)
  PROVE  KnownItems' \subseteq KnownItems \cup New
<1> SUFFICES ASSUME NEW x \in KnownItems' PROVE x \in KnownItems \cup New
  OBVIOUS
<1>1. CASE x \in ElementsOf(sink')
  BY <1>1 DEF KnownItems
<1>2. ASSUME NEW u \in Thread, x \in ElementsOf(Events(u)')
      PROVE  x \in KnownItems \cup New
  BY <1>2 DEF KnownItems
<1> QED
  BY <1>1, <1>2 DEF KnownItems

(* Steps that leave the texts and put good items behind the known ones. *)
LEMMA KnownStep ==
  ASSUME KInv, UNCHANGED <<text, rewritten>>,
         NEW New, KnownItems' \subseteq KnownItems \cup New,
         \A item \in New : EventOK(item.evt) /\ item.said = Behind(item.evt.desc),
         \A t \in Thread : GuardsNamed(t)'
  PROVE  KInv'
<1>1. \A item : SaysText(item)' <=> SaysText(item)
  BY DEF SaysText, Kept, Behind
<1>2. \A item \in New : SaysText(item)
  BY DEF SaysText
<1> QED
  BY <1>1, <1>2 DEF KInv, EventOK

LEMMA KnownLess ==
  ASSUME KInv, UNCHANGED <<text, rewritten>>, KnownItems' \subseteq KnownItems,
         \A t \in Thread : GuardsNamed(t)'
  PROVE  KInv'
<1>1. PICK New : New = {}
  OBVIOUS
<1>2. KnownItems' \subseteq KnownItems \cup New
  OBVIOUS
<1> QED
  BY <1>1, <1>2, KnownStep

ItemsOf(t, evts) == {Item(t, evts[k]) : k \in 1 .. Len(evts)}

LEMMA SubmitKnown ==
  ASSUME TInv, NEW t \in Thread, NEW evts, Len(evts) \in {1, 2},
         DOMAIN evts = 1 .. Len(evts), Submit(t, evts)
  PROVE  KnownItems' \subseteq KnownItems \cup ItemsOf(t, evts)
<1>1. PICK d, items, New : /\ d = thread_local_instance(t)
                           /\ items = [k \in DOMAIN evts |-> Item(t, evts[k])]
                           /\ New = ItemsOf(t, evts)
  OBVIOUS
<1>2. Shaped(d) /\ d.events = Events(t)
  BY <1>1, CollectorShaped DEF TInv
<1>3. Len(items) \in {1, 2} /\ New = ElementsOf(items)
  BY <1>1 DEF ElementsOf, ItemsOf
<1>4. PICK c : c = Appended(d, items)
  OBVIOUS
<1>5. Extends(Events(t), c.events, New)
  BY <1>2, <1>3, <1>4, AppendedShaped
<1>6. collector' = [collector EXCEPT ![t] = c] /\ sink' = sink
  BY <1>1, <1>4 DEF Submit
<1>7. /\ Events(t)' = <<>> \/ Events(t)' = c.events
      /\ \A u \in Thread \ {t} : Events(u)' = Events(u)
  BY <1>6, ExchangeEvents DEF TInv
<1>8. ElementsOf(Events(t)') \subseteq ElementsOf(Events(t)) \cup New
  <2>1. ElementsOf(<<>>) = {}
    BY ShortSequences
  <2>2. PICK q, r : q = Events(t) /\ r = c.events
    OBVIOUS
  <2>3. ElementsOf(r) \subseteq ElementsOf(q) \cup New
    BY <1>5, <2>2, ElementsExtend
  <2> QED
    BY <1>7, <2>1, <2>2, <2>3
<1>9. ElementsOf(sink') \subseteq ElementsOf(sink) \cup ElementsOf(Events(t))
  BY <1>6
<1>10. KnownItems' \subseteq KnownItems \cup New
  BY <1>7, <1>8, <1>9, KnownExchanged
<1> QED
  BY <1>1, <1>10

(* A marker that submits one event, or two, of what it knows. *)
LEMMA OneKnown ==
  ASSUME TInv, KInv, NEW t \in Thread, NEW evt, EventOK(evt), Submit(t, <<evt>>),
         \A u \in Thread : GuardsNamed(u)'
  PROVE  KInv'
<1>1. PICK evts : evts = <<evt>>
  OBVIOUS
<1>2. Len(evts) = 1 /\ DOMAIN evts = 1 .. 1 /\ evts[1] = evt
  BY <1>1
<1>3. KnownItems' \subseteq KnownItems \cup ItemsOf(t, evts)
  BY <1>1, <1>2, SubmitKnown
<1>4. \A item \in ItemsOf(t, evts) : EventOK(item.evt) /\ item.said = Behind(item.evt.desc)
  BY <1>2 DEF ItemsOf, Item, Behind
<1>5. UNCHANGED <<text, rewritten>>
  BY DEF Submit
<1> QED
  BY <1>3, <1>4, <1>5, KnownStep

LEMMA TwoKnown ==
  ASSUME TInv, KInv, NEW t \in Thread, NEW evt, EventOK(evt), NEW other, EventOK(other),
         Submit(t, <<evt, other>>), \A u \in Thread : GuardsNamed(u)'
  PROVE  KInv'
<1>1. PICK evts : evts = <<evt, other>>
  OBVIOUS
<1>2. Len(evts) = 2 /\ DOMAIN evts = 1 .. 2 /\ evts[1] = evt /\ evts[2] = other
  BY <1>1
<1>3. KnownItems' \subseteq KnownItems \cup ItemsOf(t, evts)
  BY <1>1, <1>2, SubmitKnown
<1>4. \A item \in ItemsOf(t, evts) : EventOK(item.evt) /\ item.said = Behind(item.evt.desc)
  BY <1>2 DEF ItemsOf, Item, Behind
<1>5. UNCHANGED <<text, rewritten>>
  BY DEF Submit
<1> QED
  BY <1>3, <1>4, <1>5, KnownStep

LEMMA NamedGuards ==
  ASSUME KInv, UNCHANGED guards
  PROVE  \A u \in Thread : GuardsNamed(u)'
  BY DEF KInv, GuardsNamed, OpenScope

(* Guards that are kept are named as they were. *)
LEMMA NamedKept ==
  ASSUME KInv, NEW t \in Thread, GuardsKept(t), \A u \in Thread \ {t} : guards'[u] = guards[u]
  PROVE  \A u \in Thread : GuardsNamed(u)'
<1> SUFFICES ASSUME NEW u \in Thread, NEW a, OpenScope(u, a)'
             PROVE  /\ guards'[u][a].categories \in DOMAIN CategoryName
                    /\ guards'[u][a].desc \in Pointer
  BY DEF GuardsNamed
<1>1. OpenScope(u, a) /\ guards'[u][a] = guards[u][a]
  BY DEF GuardsKept, OpenScope
<1> QED
  BY <1>1 DEF KInv, GuardsNamed

LEMMA OpenDurationKnown ==
  ASSUME TInv, KInv, NEW t \in Thread, NEW cat \in Flag, NEW p \in Pointer,
         OpenDuration(t, cat, p)
  PROVE  KInv'
<1>1. PICK g, h, evt : g = guards[t] /\ h = Append(g, Null) /\ evt = duration_begin(cat, p, clock)
  OBVIOUS
<1>2. Submit(t, <<evt>>) /\ guards' = [guards EXCEPT ![t] = h] /\ EventOK(evt)
  BY <1>1, MarkersAssumption
  DEF OpenDuration, duration_begin, EventOK, Kinds, TInv, ClockOK
<1>3. IsSeq(g) /\ Len(g) \in Nat /\ DOMAIN g = 1 .. Len(g)
  BY <1>1, IsSeqFacts DEF TInv, ShapeOK
<1>4. /\ IsSeq(h) /\ Len(h) = Len(g) + 1 /\ h[Len(g) + 1] = Null
      /\ \A i \in 1 .. Len(g) : h[i] = g[i]
  BY <1>1, <1>3, AppendAny
<1>5. DOMAIN h = 1 .. Len(g) + 1
  BY <1>4, IsSeqFacts
<1>6. \A u \in Thread : guards'[u] = IF u = t THEN h ELSE guards[u]
  BY <1>2 DEF TInv, ShapeOK
<1>7. GuardsKept(t)
  <2>1. ASSUME NEW a, a \in DOMAIN h, h[a] # Null PROVE a \in DOMAIN g /\ h[a] = g[a]
    BY <1>3, <1>4, <1>5, <2>1
  <2> QED
    BY <1>1, <1>6, <2>1 DEF GuardsKept, OpenScope
<1>8. \A u \in Thread : GuardsNamed(u)'
  BY <1>6, <1>7, NamedKept
<1> QED
  BY <1>2, <1>8, OneKnown

LEMMA OpenCompleteKnown ==
  ASSUME TInv, KInv, NEW t \in Thread, NEW cat \in Flag, NEW p \in Pointer,
         OpenComplete(t, cat, p)
  PROVE  KInv'
<1>1. PICK g, guard, h : /\ g = guards[t] /\ h = Append(g, guard)
                         /\ guard = [categories |-> cat, desc |-> p, start |-> clock]
  OBVIOUS
<1>2. /\ guards' = [guards EXCEPT ![t] = h]
      /\ UNCHANGED <<collector, text, rewritten, sink>>
  BY <1>1 DEF OpenComplete
<1>3. IsSeq(g) /\ Len(g) \in Nat /\ DOMAIN g = 1 .. Len(g)
  BY <1>1, IsSeqFacts DEF TInv, ShapeOK
<1>4. /\ IsSeq(h) /\ Len(h) = Len(g) + 1 /\ h[Len(g) + 1] = guard
      /\ \A i \in 1 .. Len(g) : h[i] = g[i]
  BY <1>1, <1>3, AppendAny
<1>5. DOMAIN h = 1 .. Len(g) + 1
  BY <1>4, IsSeqFacts
<1>6. \A u \in Thread : guards'[u] = IF u = t THEN h ELSE guards[u]
  BY <1>2 DEF TInv, ShapeOK
<1>7. guard.categories \in DOMAIN CategoryName /\ guard.desc \in Pointer
  BY <1>1, MarkersAssumption
<1>8. ASSUME NEW a, a \in DOMAIN h, h[a] # Null
      PROVE  h[a].categories \in DOMAIN CategoryName /\ h[a].desc \in Pointer
  <2>1. CASE a = Len(g) + 1
    BY <1>4, <1>7, <2>1
  <2>2. CASE a \in 1 .. Len(g)
    <3>1. OpenScope(t, a) /\ h[a] = guards[t][a]
      BY <1>1, <1>3, <1>4, <1>8, <2>2 DEF OpenScope
    <3> QED
      BY <3>1 DEF KInv, GuardsNamed
  <2> QED
    BY <1>3, <1>5, <1>8, <2>1, <2>2
<1>9. ASSUME NEW u \in Thread PROVE GuardsNamed(u)'
  <2>1. CASE u = t
    BY <1>6, <1>8, <2>1 DEF GuardsNamed, OpenScope
  <2>2. CASE u # t
    BY <1>6, <2>2 DEF KInv, GuardsNamed, OpenScope
  <2> QED
    BY <2>1, <2>2
<1>10. KnownItems' \subseteq KnownItems
  BY <1>2 DEF KnownItems, Events
<1> QED
  BY <1>2, <1>9, <1>10, KnownLess

LEMMA CloseGuardKnown ==
  ASSUME TInv, KInv, NEW t \in Thread, CloseGuard(t)
  PROVE  KInv'
<1>1. PICK g, h, guard, n : /\ g = guards[t] /\ h = Front(g) /\ guard = Last(g)
                            /\ n = Len(g)
  OBVIOUS
<1>2. /\ g # <<>> /\ guards' = [guards EXCEPT ![t] = h]
      /\ Submit(t, <<IF guard = Null THEN duration_end(0, Null, clock) ELSE Finished(guard)>>)
  BY <1>1 DEF CloseGuard
<1>3. IsSeq(g) /\ DOMAIN g = 1 .. n /\ clock \in Nat
  BY <1>1, IsSeqFacts DEF TInv, ShapeOK, ClockOK
<1>4. /\ IsSeq(h) /\ Len(h) = n - 1 /\ \A i \in 1 .. n - 1 : h[i] = g[i]
      /\ guard = g[n] /\ n \in 1 .. n /\ n \in Nat
  BY <1>1, <1>2, <1>3, FrontAny, IsSeqFacts
<1>5. DOMAIN h = 1 .. n - 1
  BY <1>4, IsSeqFacts
<1>6. \A u \in Thread : guards'[u] = IF u = t THEN h ELSE guards[u]
  BY <1>2 DEF TInv, ShapeOK
<1>7. GuardsKept(t)
  <2>1. ASSUME NEW a, a \in DOMAIN h PROVE a \in DOMAIN g /\ h[a] = g[a]
    BY <1>3, <1>4, <1>5, <2>1
  <2> QED
    BY <1>1, <1>6, <2>1 DEF GuardsKept, OpenScope
<1>8. \A u \in Thread : GuardsNamed(u)'
  BY <1>6, <1>7, NamedKept
<1>9. PICK evt : evt = IF guard = Null THEN duration_end(0, Null, clock) ELSE Finished(guard)
  OBVIOUS
<1>10. CASE guard = Null
  <2>1. EventOK(evt)
    BY <1>3, <1>9, <1>10, MarkersAssumption DEF duration_end, EventOK, Kinds
  <2> QED
    BY <1>2, <1>8, <1>9, <2>1, OneKnown
<1>11. CASE guard # Null
  <2>1. OpenScope(t, n) /\ guards[t][n] = guard
    BY <1>1, <1>3, <1>4, <1>11 DEF OpenScope
  <2>2. guard.start \in Nat /\ guard.start <= clock
    BY <2>1 DEF TInv, ThreadOK, GuardsOK
  <2>3. guard.categories \in DOMAIN CategoryName /\ guard.desc \in Pointer
    BY <2>1 DEF KInv, GuardsNamed
  <2>4. clock - guard.start \in Nat
    BY <1>3, <2>2
  <2>5. EventOK(evt)
    BY <1>9, <1>11, <2>2, <2>3, <2>4 DEF Finished, complete, EventOK, Kinds
  <2> QED
    BY <1>2, <1>8, <1>9, <2>5, OneKnown
<1> QED
  BY <1>10, <1>11

LEMMA FlushKnown ==
  ASSUME TInv, KInv, NEW t \in Thread, Flush(t)
  PROVE  KInv'
<1>1. PICK d, q, s : d = thread_local_instance(t) /\ q = Events(t) /\ s = sink
  OBVIOUS
<1>2. PICK c : c = IF d.events = <<>> THEN d ELSE [d EXCEPT !.events = <<>>, !.room = 0]
  OBVIOUS
<1>3. Shaped(d) /\ d.events = q
  BY <1>1, CollectorShaped DEF TInv
<1>4. c.events = <<>>
  <2>1. CASE d.events = <<>>
    BY <1>2, <2>1
  <2>2. CASE d.events # <<>>
    <3>1. c = [default_node_capacity |-> d.default_node_capacity, room |-> 0,
               events |-> <<>>, overrun |-> d.overrun]
      BY <1>2, <1>3, <2>2 DEF Shaped
    <3> QED
      BY <3>1
  <2> QED
    BY <2>1, <2>2
<1>5. /\ collector' = [collector EXCEPT ![t] = c]
      /\ UNCHANGED <<guards, text, rewritten>> /\ sink' = s \o q
  BY <1>1, <1>2, <1>3 DEF Flush
<1>6. IsSeq(q) /\ IsSeq(s)
  BY <1>1, EventsShape DEF TInv, ShapeOK
<1>7. /\ Events(t)' = <<>>
      /\ \A u \in Thread \ {t} : Events(u)' = Events(u)
  BY <1>4, <1>5, ExchangeEvents DEF TInv
<1>8. ElementsOf(Events(t)') \subseteq ElementsOf(Events(t)) \cup {}
  <2>1. ElementsOf(<<>>) = {}
    BY ShortSequences
  <2> QED
    BY <1>7, <2>1
<1>9. ElementsOf(sink') \subseteq ElementsOf(sink) \cup ElementsOf(Events(t))
  BY <1>1, <1>5, <1>6, ElementsConcat
<1>10. KnownItems' \subseteq KnownItems \cup {}
  BY <1>7, <1>8, <1>9, KnownExchanged
<1> QED
  BY <1>5, <1>10, KnownLess, NamedGuards

LEMMA ReserveKnown ==
  ASSUME TInv, KInv, NEW t \in Thread, NEW n \in Request, Reserve(t, n)
  PROVE  KInv'
<1>1. PICK d, size : /\ d = thread_local_instance(t)
                     /\ size = IF n <= 0 THEN instance.default_list_node_capacity ELSE n
  OBVIOUS
<1>2. PICK e, c : e = [d EXCEPT !.default_node_capacity = size] /\ c = ReserveRoom(e, size)
  OBVIOUS
<1>3. Shaped(d) /\ d.events = Events(t)
  BY <1>1, CollectorShaped DEF TInv
<1>4. e = [default_node_capacity |-> size, room |-> d.room, events |-> d.events,
           overrun |-> d.overrun]
  BY <1>2, <1>3 DEF Shaped
<1>5. Shaped(e) /\ e.events = Events(t)
  BY <1>3, <1>4 DEF Shaped
<1>6. c.events = Events(t)
  BY <1>2, <1>5, ReserveRoomShaped
<1>7. /\ collector' = [collector EXCEPT ![t] = c]
      /\ UNCHANGED <<guards, text, rewritten, sink>>
  BY <1>1, <1>2 DEF Reserve, ReserveBlock
<1>8. /\ Events(t)' = <<>> \/ Events(t)' = Events(t)
      /\ \A u \in Thread \ {t} : Events(u)' = Events(u)
  BY <1>6, <1>7, ExchangeEvents DEF TInv
<1>9. ElementsOf(Events(t)') \subseteq ElementsOf(Events(t)) \cup {}
  <2>1. ElementsOf(<<>>) = {}
    BY ShortSequences
  <2> QED
    BY <1>8, <2>1
<1>10. ElementsOf(sink') \subseteq ElementsOf(sink) \cup ElementsOf(Events(t))
  BY <1>7
<1>11. KnownItems' \subseteq KnownItems \cup {}
  BY <1>8, <1>9, <1>10, KnownExchanged
<1> QED
  BY <1>7, <1>11, KnownLess, NamedGuards

(* Markers are given categories that have names, and pointers to text. *)
LEMMA MarkKnown ==
  ASSUME TInv, KInv, NEW t \in Thread, NEW cat \in Flag, NEW p \in Pointer, Mark(t, cat, p)
  PROVE  KInv'
<1> USE MarkersAssumption DEF EventOK, Kinds
<1>1. UNCHANGED guards => \A u \in Thread : GuardsNamed(u)'
  BY NamedGuards
<1>2. clock \in Nat
  BY DEF TInv, ClockOK
<1>3. CASE Instant(t, cat, p, "p")
  <2>1. PICK evt : evt = instant(cat, p, "p", clock)
    OBVIOUS
  <2>2. Submit(t, <<evt>>) /\ UNCHANGED guards /\ EventOK(evt)
    BY <1>2, <1>3, <2>1 DEF Instant, Marker, instant
  <2> QED
    BY <1>1, <2>2, OneKnown
<1>4. CASE DurationBegin(t, cat, p)
  <2>1. PICK evt : evt = duration_begin(cat, p, clock)
    OBVIOUS
  <2>2. Submit(t, <<evt>>) /\ UNCHANGED guards /\ EventOK(evt)
    BY <1>2, <1>4, <2>1 DEF DurationBegin, Marker, duration_begin
  <2> QED
    BY <1>1, <2>2, OneKnown
<1>5. CASE DurationEnd(t, cat, p)
  <2>1. PICK evt : evt = duration_end(cat, p, clock)
    OBVIOUS
  <2>2. Submit(t, <<evt>>) /\ UNCHANGED guards /\ EventOK(evt)
    BY <1>2, <1>5, <2>1 DEF DurationEnd, Marker, duration_end
  <2> QED
    BY <1>1, <2>2, OneKnown
<1>6. CASE Counter(t, cat, p)
  <2>1. PICK evt : evt = counter(cat, p, clock, 1)
    OBVIOUS
  <2>2. Submit(t, <<evt>>) /\ UNCHANGED guards /\ EventOK(evt)
    BY <1>2, <1>6, <2>1 DEF Counter, Marker, counter
  <2> QED
    BY <1>1, <2>2, OneKnown
<1>7. CASE Counters(t, cat, p)
  <2>1. PICK q \in Pointer : Marker(t, <<counter(cat, p, clock, 1), counter(cat, q, clock, 2)>>)
    BY <1>7 DEF Counters
  <2>2. PICK evt, other : evt = counter(cat, p, clock, 1) /\ other = counter(cat, q, clock, 2)
    OBVIOUS
  <2>3. Submit(t, <<evt, other>>) /\ UNCHANGED guards
    BY <2>1, <2>2 DEF Marker
  <2>4. EventOK(evt) /\ EventOK(other)
    BY <1>2, <2>2 DEF counter
  <2> QED
    BY <1>1, <2>3, <2>4, TwoKnown
<1>8. CASE Metadata(t, cat, p)
  <2>1. PICK type \in MetadataType :
          Marker(t, <<IF type \in SortIndex THEN metadata(cat, type, Null, 7)
                      ELSE metadata(cat, type, p, 0)>>)
    BY <1>8 DEF Metadata
  <2>2. PICK evt : evt = IF type \in SortIndex THEN metadata(cat, type, Null, 7)
                         ELSE metadata(cat, type, p, 0)
    OBVIOUS
  <2>3. EventOK(evt)
    BY <2>2 DEF metadata
  <2>4. Submit(t, <<evt>>) /\ UNCHANGED guards
    BY <2>1, <2>2 DEF Marker
  <2> QED
    BY <1>1, <2>3, <2>4, OneKnown
<1>9. CASE OpenComplete(t, cat, p)
  BY <1>9, OpenCompleteKnown
<1>10. CASE OpenDuration(t, cat, p)
  BY <1>10, OpenDurationKnown
<1> QED
  BY <1>3, <1>4, <1>5, <1>6, <1>7, <1>8, <1>9, <1>10 DEF Mark

(* Who changes characters tells so, and changes no others. *)
LEMMA RewriteKnown ==
  ASSUME KInv, NEW p \in Pointer, Rewrite(p)
  PROVE  KInv'
<1>1. PICK chars \in Text : text' = [text EXCEPT ![p] = chars]
  BY DEF Rewrite
<1>2. rewritten' = rewritten \cup {p} /\ UNCHANGED <<collector, guards, sink>>
  BY DEF Rewrite
<1>3. text' \in [Pointer -> Text] /\ \A q \in Pointer \ {p} : text'[q] = text[q]
  BY <1>1 DEF KInv
<1>4. KnownItems' = KnownItems
  BY <1>2 DEF KnownItems, Events
<1>5. ASSUME NEW item \in KnownItems, Kept(item)'
      PROVE  item.said = Behind(item.evt.desc)'
  <2>1. PICK q : q = item.evt.desc
    OBVIOUS
  <2>2. q \notin rewritten /\ q # p /\ Kept(item)
    BY <1>2, <1>5, <2>1 DEF Kept
  <2>3. q \in Pointer \cup {Null} /\ item.said = Behind(q)
    BY <2>1, <2>2 DEF KInv, EventOK, SaysText
  <2>4. Behind(q)' = Behind(q)
    BY <1>3, <2>2, <2>3 DEF Behind
  <2> QED
    BY <2>1, <2>3, <2>4
<1>6. \A item \in KnownItems' : SaysText(item)'
  BY <1>4, <1>5 DEF SaysText
<1>7. \A item \in KnownItems' : EventOK(item.evt)
  BY <1>4 DEF KInv
<1>8. \A t \in Thread : GuardsNamed(t)'
  BY <1>2, NamedGuards
<1> QED
  BY <1>3, <1>6, <1>7, <1>8 DEF KInv, EventOK

LEMMA KnownFrame ==
  ASSUME KInv, UNCHANGED <<collector, guards, text, rewritten, sink>>
  PROVE  KInv'
<1>1. KnownItems' \subseteq KnownItems
  BY DEF KnownItems, Events
<1> QED
  BY <1>1, KnownLess, NamedGuards

LEMMA KnownNext ==
  ASSUME TInv, KInv, Next
  PROVE  KInv'
<1>1. CASE Tick
  BY <1>1, KnownFrame DEF Tick
<1>2. CASE InitialiseZero
  BY <1>2, KnownFrame DEF InitialiseZero
<1>3. CASE Write
  BY <1>3, KnownFrame DEF Write
<1>4. ASSUME NEW t \in Thread, NEW cat \in Flag, Instant(t, cat, Null, "t") PROVE KInv'
  <2>1. PICK evt : evt = instant(cat, Null, "t", clock)
    OBVIOUS
  <2>2. clock \in Nat
    BY DEF TInv, ClockOK
  <2>3. Submit(t, <<evt>>) /\ UNCHANGED guards /\ EventOK(evt)
    BY <1>4, <2>1, <2>2, MarkersAssumption DEF Instant, Marker, instant, EventOK, Kinds
  <2> QED
    BY <2>3, NamedGuards, OneKnown
<1> QED
  BY <1>1, <1>2, <1>3, <1>4, RewriteKnown, CloseGuardKnown, FlushKnown, ReserveKnown, MarkKnown
  DEF Next

LEMMA KnownInit ==
  ASSUME Init
  PROVE  KInv
<1>1. text \in [Pointer -> Text]
  BY MarkersAssumption DEF Init
<1>2. KnownItems = {}
  <2>1. ElementsOf(<<>>) = {}
    BY ShortSequences
  <2> QED
    BY <2>1 DEF Init, KnownItems, Events
<1>3. \A t \in Thread : GuardsNamed(t)
  BY DEF Init, GuardsNamed, OpenScope
<1> QED
  BY <1>1, <1>2, <1>3 DEF KInv

-----------------------------------------------------------------------------
LEMMA ThreeTogether ==
  ASSUME NEW a, NEW b, NEW c
  PROVE  <<a>> \o <<b>> \o <<c>> = <<a, b, c>>
<1>1. PICK p, q, r, u : p = <<a>> /\ q = <<b>> /\ r = <<c>> /\ u = <<a, b, c>>
  OBVIOUS
<1>2. PICK v, w : v = p \o q /\ w = v \o r
  OBVIOUS
<1>3. /\ IsSeq(p) /\ Len(p) = 1 /\ p[1] = a
      /\ IsSeq(q) /\ Len(q) = 1 /\ q[1] = b
      /\ IsSeq(r) /\ Len(r) = 1 /\ r[1] = c
  BY <1>1, ShortSequences
<1>4. IsSeq(v) /\ Len(v) = 2 /\ v[1] = a /\ v[2] = b
  <2>1. /\ IsSeq(v) /\ Len(v) = Len(p) + Len(q)
        /\ \A i \in 1 .. Len(p) : v[i] = p[i]
        /\ \A i \in Len(p) + 1 .. Len(p) + Len(q) : v[i] = q[i - Len(p)]
    BY <1>2, <1>3, ConcatAny
  <2> QED
    BY <1>3, <2>1
<1>5. IsSeq(w) /\ Len(w) = 3 /\ w[1] = a /\ w[2] = b /\ w[3] = c
  <2>1. /\ IsSeq(w) /\ Len(w) = Len(v) + Len(r)
        /\ \A i \in 1 .. Len(v) : w[i] = v[i]
        /\ \A i \in Len(v) + 1 .. Len(v) + Len(r) : w[i] = r[i - Len(v)]
    BY <1>2, <1>3, <1>4, ConcatAny
  <2> QED
    BY <1>3, <1>4, <2>1
<1>6. w = [i \in 1 .. 3 |-> w[i]]
  <2>1. w = [i \in DOMAIN w |-> w[i]] /\ DOMAIN w = 1 .. 3
    BY <1>5, IsSeqFacts DEF IsSeq
  <2> QED
    BY <2>1
<1>7. u = [i \in 1 .. 3 |-> u[i]] /\ u[1] = a /\ u[2] = b /\ u[3] = c
  BY <1>1
<1>8. \A i \in 1 .. 3 : w[i] = u[i]
  BY <1>5, <1>7
<1>9. w = u
  BY <1>6, <1>7, <1>8
<1> QED
  BY <1>1, <1>2, <1>9

(* A counter's name is that word, which has no escapes. *)
LEMMA CounterWord ==
  escape_json_string(<<"Counter">>) = <<"quote", "Counter", "quote">>
<1>1. PICK str, n, w, S : /\ str = <<"Counter">> /\ n = Len(str) /\ w = <<"Counter">>
                          /\ S = {"Counter"}
  OBVIOUS
<1>2. str \in Seq(S) /\ n = 1 /\ str[1] = "Counter"
  BY <1>1
<1>3. PICK F : /\ Written(str, n, F)
               /\ FlattenSeq([i \in DOMAIN str |-> Escaped(str[i])]) = F[n]
  BY <1>1, <1>2, BodyWritten
<1>4. Escaped("Counter") = w
  BY <1>1, Escapes DEF Escaped, Special
<1>5. F[1] = <<>> \o w
  <2>1. 1 \in 1 .. n /\ 1 - 1 = 0
    BY <1>2
  <2>2. F[1] = F[0] \o Escaped(str[1]) /\ F[0] = <<>>
    BY <1>3, <2>1 DEF Written
  <2> QED
    BY <1>2, <1>4, <2>2
<1>6. <<>> \o w = w
  BY <1>1
<1>7. str # Null
  BY <1>1, MarkersAssumption
<1>8. escape_json_string(str) = <<"quote">> \o w \o <<"quote">>
  BY <1>2, <1>3, <1>5, <1>6, <1>7 DEF escape_json_string
<1>9. <<"quote">> \o w \o <<"quote">> = <<"quote", "Counter", "quote">>
  BY <1>1, ThreeTogether
<1> QED
  BY <1>1, <1>8, <1>9

(* Whoever reads the object of an item finds the item. *)
LEMMA ItemRead ==
  ASSUME NEW item, EventOK(item.evt), SaysText(item), text \in [Pointer -> Text],
         NEW since \in Nat
  PROVE  LET object == Object(item, text, since)
             evt == item.evt
         IN  /\ Kept(item) => NameRead(object, item)
             /\ Field(object, "ph") = evt.ph
             /\ Reads(object, "cat", ReadString) =
                  IF CategoryName[evt.categories] = <<>> THEN Null
                  ELSE CategoryName[evt.categories]
             /\ Field(object, "tid") = item.thread_id
             /\ evt.ph # "M" /\ evt.ts >= since =>
                  ReadStamp(Field(object, "ts")) = evt.ts - since
             /\ evt.ph = "X" => ReadStamp(Field(object, "dur")) = evt.duration_ns
<1>1. PICK object, evt, category, chars :
        /\ object = Object(item, text, since) /\ evt = item.evt
        /\ category = CategoryName[evt.categories] /\ chars = Chars(evt, text)
  OBVIOUS
<1>2. evt.ph \in Kinds
  BY <1>1 DEF EventOK
<1>3. /\ Field(object, "name") = escape_json_string(get_name(evt, chars))
      /\ Field(object, "ph") = evt.ph
      /\ Field(object, "tid") = item.thread_id
      /\ Has(object, "cat") <=> category # <<>>
      /\ category # <<>> => Field(object, "cat") = escape_json_string(category)
      /\ evt.ph # "M" => Field(object, "ts") = FractionUs(evt.ts - since)
      /\ evt.ph = "X" => Field(object, "dur") = FractionUs(evt.duration_ns)
      /\ evt.ph = "C" => Field(object, "args")[1] = escape_json_string(chars)
      /\ evt.ph = "M" /\ evt.type \notin SortIndex =>
           Field(object, "args")[2] = escape_json_string(chars)
  BY <1>1, <1>2, ObjectFields
<1>4. chars \in Seq(STRING) \cup {Null} /\ category \in Seq(STRING)
  BY <1>1, MarkersAssumption DEF Chars, EventOK
<1>5. ASSUME Kept(item) PROVE NameRead(object, item)
  <2>1. item.said = chars
    BY <1>1, <1>5 DEF SaysText, Behind, Chars
  <2>2. ReadString(escape_json_string(chars)) = chars
    BY <1>4, StringRead
  <2>3. CASE evt.ph = "C"
    <3>1. get_name(evt, chars) = <<"Counter">>
      BY <2>3 DEF get_name
    <3> QED
      BY <1>1, <1>3, <2>1, <2>2, <2>3, <3>1, CounterWord DEF NameRead
  <2>4. CASE evt.ph = "M"
    BY <1>1, <1>3, <2>1, <2>2, <2>4 DEF NameRead
  <2>5. CASE evt.ph = "E" /\ chars = Null
    <3>1. PICK none : none = <<>>
      OBVIOUS
    <3>2. none \in Seq(STRING) \cup {Null} /\ get_name(evt, chars) = none
      BY <2>5, <3>1 DEF get_name
    <3>3. ReadString(escape_json_string(none)) = none
      BY <3>2, StringRead
    <3> QED
      BY <1>1, <1>3, <2>1, <2>5, <3>1, <3>2, <3>3 DEF NameRead
  <2>6. CASE evt.ph \notin {"C", "M"} /\ ~(evt.ph = "E" /\ chars = Null)
    <3>1. get_name(evt, chars) = chars
      BY <2>6 DEF get_name
    <3> QED
      BY <1>1, <1>3, <2>1, <2>2, <2>6, <3>1 DEF NameRead
  <2> QED
    BY <2>3, <2>4, <2>5, <2>6
<1>6. Reads(object, "cat", ReadString) = IF category = <<>> THEN Null ELSE category
  <2>1. ReadString(escape_json_string(category)) = category
    BY <1>4, StringRead
  <2>2. Reads(object, "cat", ReadString) =
          IF Has(object, "cat") THEN ReadString(Field(object, "cat")) ELSE Null
    BY DEF Reads
  <2> QED
    BY <1>3, <2>1, <2>2
<1>7. ASSUME evt.ph # "M", evt.ts >= since
      PROVE  ReadStamp(Field(object, "ts")) = evt.ts - since
  <2>1. PICK n : n = evt.ts - since
    OBVIOUS
  <2>2. n \in Nat
    BY <1>1, <1>7, <2>1 DEF EventOK
  <2> QED
    BY <1>3, <1>7, <2>1, <2>2, FractionRead
<1>8. ASSUME evt.ph = "X" PROVE ReadStamp(Field(object, "dur")) = evt.duration_ns
  <2>1. evt.duration_ns \in Nat
    BY <1>1, <1>8 DEF EventOK
  <2> QED
    BY <1>3, <1>8, <2>1, FractionRead
<1> QED
  BY <1>1, <1>3, <1>5, <1>6, <1>7, <1>8

LEMMA WriteRead ==
  ASSUME TInv, KInv, Write
  PROVE  RoundTrip'
<1>1. PICK since, s : since = properties.time_point_zero_ns /\ s = sink
  OBVIOUS
<1>2. since \in Nat /\ IsSeq(s) /\ DOMAIN s = 1 .. Len(s) /\ Len(s) \in Nat
  BY <1>1, IsSeqFacts DEF Write, TInv, ClockOK, ShapeOK
<1>3. /\ file' = [k \in DOMAIN s |-> Object(s[k], text, since)]
      /\ UNCHANGED <<properties, sink, text, rewritten>>
  BY <1>1 DEF Write, in_trace_event_format
<1>4. Len(file') = Len(s) /\ DOMAIN file' = DOMAIN s
  BY <1>2, <1>3
<1>5. ASSUME NEW k \in DOMAIN s
      PROVE  /\ Kept(s[k]) => NameRead(file'[k], s[k])
             /\ Field(file'[k], "ph") = s[k].evt.ph
             /\ Reads(file'[k], "cat", ReadString) =
                  IF CategoryName[s[k].evt.categories] = <<>> THEN Null
                  ELSE CategoryName[s[k].evt.categories]
             /\ Field(file'[k], "tid") = s[k].thread_id
             /\ s[k].evt.ph # "M" /\ s[k].evt.ts >= since =>
                  ReadStamp(Field(file'[k], "ts")) = s[k].evt.ts - since
             /\ s[k].evt.ph = "X" =>
                  ReadStamp(Field(file'[k], "dur")) = s[k].evt.duration_ns
  <2>1. PICK item : item = s[k]
    OBVIOUS
  <2>2. item \in KnownItems
    BY <1>1, <1>2, <2>1 DEF KnownItems, ElementsOf
  <2>3. EventOK(item.evt) /\ SaysText(item) /\ text \in [Pointer -> Text]
    BY <2>2 DEF KInv
  <2>4. PICK object : object = Object(item, text, since)
    OBVIOUS
  <2>5. file'[k] = object
    BY <1>3, <2>1, <2>4
  <2>6. /\ Kept(item) => NameRead(object, item)
        /\ Field(object, "ph") = item.evt.ph
        /\ Reads(object, "cat", ReadString) =
             IF CategoryName[item.evt.categories] = <<>> THEN Null
             ELSE CategoryName[item.evt.categories]
        /\ Field(object, "tid") = item.thread_id
        /\ item.evt.ph # "M" /\ item.evt.ts >= since =>
             ReadStamp(Field(object, "ts")) = item.evt.ts - since
        /\ item.evt.ph = "X" => ReadStamp(Field(object, "dur")) = item.evt.duration_ns
    BY <1>2, <2>3, <2>4, ItemRead
  <2> QED
    BY <2>1, <2>5, <2>6
<1> QED
  BY <1>1, <1>3, <1>4, <1>5 DEF RoundTrip, TimesRead, Kept, NameRead

RInv == KInv /\ RoundTrip

(* Items name kinds, categories and texts there are, and say what is behind *)
(* their pointers until somebody changes it.                                *)
THEOREM ReadingInvariance == Spec => []RInv
<1>1. SInv /\ RInv /\ [Next]_vars => RInv'
  <2> SUFFICES ASSUME SInv, RInv, [Next]_vars PROVE RInv'
    OBVIOUS
  <2>1. TInv
    BY DEF SInv, TInv
  <2>2. CASE UNCHANGED vars
    <3>1. KInv'
      BY <2>2, KnownFrame DEF vars, RInv
    <3>2. RoundTrip'
      BY <2>2 DEF vars, RInv, RoundTrip, NameRead, TimesRead, Kept
    <3> QED
      BY <3>1, <3>2 DEF RInv
  <2>3. CASE Next
    <3>1. KInv'
      BY <2>1, <2>3, KnownNext DEF RInv
    <3>2. CASE Write
      BY <2>1, <3>1, <3>2, WriteRead DEF RInv
    <3>3. CASE ~Write
      <4>1. file' = Null
        BY <2>3, <3>3, FileKept
      <4> QED
        BY <3>1, <4>1 DEF RInv, RoundTrip
    <3> QED
      BY <3>2, <3>3
  <2> QED
    BY <2>2, <2>3
<1>2. Init => RInv
  <2>1. Init => RoundTrip
    BY DEF Init, RoundTrip
  <2> QED
    BY <2>1, KnownInit DEF RInv
<1> QED
  BY <1>1, <1>2, ScopesInvariance, PTL DEF Spec

(* Whoever reads the file finds, event by event in the order of the        *)
(* flushes, what was marked: the name as it was then, unless the program   *)
(* changed it meanwhile; the category; the thread; and the very nanosecond *)
(* since time point zero.  What is written escapes what it must, no key is *)
(* there twice, and an item says of its name what is behind its pointer.   *)
THEOREM MarkersAreReadBack == Spec => []RoundTrip
<1>1. RInv => RoundTrip
  BY DEF RInv
<1> QED
  BY <1>1, ReadingInvariance, PTL
=============================================================================
