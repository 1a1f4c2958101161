------------------------------- MODULE Markers -------------------------------
(***************************************************************************)
(* From a marker in the program to the text in the file: the static and    *)
(* lazy initialisation of what markers need (time point zero, properties,  *)
(* the thread-local event_collector), the events the markers make of the   *)
(* clock and of names they only point to, the blocks they go into, and the *)
(* file the global sink writes at the end (TraceFormat).                   *)
(*                                                                         *)
(* Nothing orders the initialisation of static_time_point_zero_ns before   *)
(* that of other translation units, which may already contain markers.     *)
(***************************************************************************)
EXTENDS TraceFormat

CONSTANTS
  Thread,
  Pointer,       (* What char const * arguments point to.                  *)
  Text,          (* Sequences of characters that may be there.             *)
  Time,          (* Values of CLOCK_MONOTONIC_RAW, in ns (a bound).        *)
  BlockSizeEnv,  (* Values of CXXET_DEFAULT_BLOCK_SIZE: Null if not set,   *)
                 (* else [number, trailing]: the number strtol finds, Null *)
                 (* if none, and whether characters follow it.             *)
  INT_MAX, LONG_MAX,    (* Of limits.h: INT_MAX + 1 is 2 ^ 31.             *)
  Request,       (* Arguments of sink_thread_reserve.                      *)
  Flag,          (* Categories markers are given (0: none).                *)
  MetadataType,  (* Kinds of metadata markers used (a bound).              *)
  MaxMarks       (* Markers the threads execute together (a bound).        *)

ASSUME MarkersAssumption ==
  /\ Time \subseteq Nat \ {0} /\ Time # {}
  /\ INT_MAX \in Nat /\ LONG_MAX \in Nat /\ INT_MAX <= LONG_MAX
  /\ \A str \in BlockSizeEnv \ {Null} :
       str.number \in Int \cup {Null} /\ str.trailing \in BOOLEAN
  /\ Request \subseteq Int
  /\ Null \notin Pointer /\ Null \notin Thread /\ Null # <<"Counter">>
  /\ Text \subseteq Seq(STRING)
  /\ \A flag \in DOMAIN CategoryName : CategoryName[flag] \in Seq(STRING)
  /\ Flag \cup {0} \subseteq DOMAIN CategoryName
  /\ MetadataType \subseteq DOMAIN ArgName

VARIABLES
  clock,       (* The time now.                                            *)
  zero,        (* static_time_point_zero_ns, 0 before its initialisation.  *)
  env,         (* CXXET_DEFAULT_BLOCK_SIZE, the same all the time.         *)
  properties,  (* properties::instance(), Null before its first use.       *)
  collector,   (* thread_local_instance(), Null before its first use.      *)
  guards,      (* The complete and duration objects in scope, per thread.  *)
  text,        (* What is behind each pointer.                             *)
  rewritten,   (* Pointers whose text changed while events refer to it.    *)
  sink,        (* The list of the global file sink.                        *)
  file         (* What its destructor wrote, Null before.                  *)

vars == <<clock, zero, env, properties, collector, guards, text, rewritten,
          sink, file>>

Init ==
  /\ clock = Min(Time)
  /\ zero = 0
  /\ env \in BlockSizeEnv
  /\ properties = Null
  /\ collector = [t \in Thread |-> Null]
  /\ guards = [t \in Thread |-> <<>>]
  /\ text \in [Pointer -> Text]
  /\ rewritten = {}
  /\ sink = <<>>
  /\ file = Null

-----------------------------------------------------------------------------
Saturated(n) ==
  IF n < -LONG_MAX - 1 THEN -LONG_MAX - 1 ELSE IF n > LONG_MAX THEN LONG_MAX ELSE n
Narrowed(n) ==
  LET low == n % (2 * (INT_MAX + 1))
  IN  IF low > INT_MAX THEN low - 2 * (INT_MAX + 1) ELSE low

(* parse_int throws, or returns the long that strtol found, cast to int. *)
parse_int_throws(str) == str.number = Null \/ str.trailing
parse_int(str) == Narrowed(Saturated(str.number))

(* parse_env_variable: what cannot be parsed leaves the default. *)
parse_env_variable(str, default) ==
  IF str = Null THEN default
  ELSE IF parse_int_throws(str) THEN default ELSE parse_int(str)

(* The constructor of properties, called when they are first asked for. *)
instance ==
  IF properties # Null THEN properties
  ELSE [time_point_zero_ns |-> zero,
        default_list_node_capacity |-> parse_env_variable(env, 64)]

(* thread_local_instance: also makes the global file sink, and with it     *)
(* the properties.                                                         *)
thread_local_instance(t) ==
  IF collector[t] # Null THEN collector[t]
  ELSE [default_node_capacity |-> instance.default_list_node_capacity,
        room |-> 0, events |-> <<>>, overrun |-> FALSE]

(* list::reserve: the room in the last block; a request that is not        *)
(* positive is always met.                                                 *)
ReserveRoom(c, capacity) ==
  IF c.room >= capacity THEN c ELSE [c EXCEPT !.room = capacity]

MutantReserve(c, minimum) ==
  LET capacity == IF minimum < 0 THEN instance.default_list_node_capacity
                  ELSE minimum
  IN  ReserveRoom([c EXCEPT !.default_node_capacity = capacity], capacity)

(* event_collector::reserve *)
ReserveBlock(c, minimum_free_capacity) ==
  LET capacity == IF minimum_free_capacity <= 0
                  THEN instance.default_list_node_capacity
                  ELSE minimum_free_capacity
  IN  ReserveRoom([c EXCEPT !.default_node_capacity = capacity], capacity)

(* list::safe_append, without its assert: when the block that reserve      *)
(* returns with has no room, push_any writes behind it, or through null.   *)
append_event(c, item) ==
  LET r == IF c.room >= 1 THEN c ELSE ReserveRoom(c, c.default_node_capacity)
  IN  IF r.room < 1 THEN [r EXCEPT !.overrun = TRUE]
      ELSE [r EXCEPT !.room = @ - 1, !.events = Append(@, item)]

-----------------------------------------------------------------------------
Marks == Len(sink) + FoldLeft(LAMBDA n, t : n +
           (IF collector[t] = Null THEN 0 ELSE Len(collector[t].events))
           + Len(guards[t]), 0, SetToSeq(Thread))

(* An item of a list: the event, the thread of its node, and, for the      *)
(* properties, the characters its name had when the marker was reached.    *)
Item(t, evt) ==
  [evt |-> evt, thread_id |-> t,
   said |-> IF evt.desc = Null THEN Null ELSE text[evt.desc]]

(* thread_local_sink_submit_event, for the events of one marker. *)
Appended(c, items) ==
  LET after[k \in 0 .. Len(items)] ==
        IF k = 0 THEN c ELSE append_event(after[k - 1], items[k])
  IN  after[Len(items)]

Submit(t, evts) ==
  /\ collector' = [collector EXCEPT ![t] =
       Appended(thread_local_instance(t), [k \in DOMAIN evts |-> Item(t, evts[k])])]
  /\ properties' = instance
  /\ UNCHANGED <<clock, zero, env, text, rewritten, sink, file>>

Marker(t, evts) == Submit(t, evts) /\ UNCHANGED guards

(* mark::instant, its scope given or not, and manual durations. *)
Instant(t, cat, p, scope) == Marker(t, <<instant(cat, p, scope, clock)>>)
DurationBegin(t, cat, p) == Marker(t, <<duration_begin(cat, p, clock)>>)
DurationEnd(t, cat, p) == Marker(t, <<duration_end(cat, p, clock)>>)

(* do_submit_counter, do_submit_counters: one time stamp for all of them.  *)
(* Callers give names where a null pointer would not be one (a counter's   *)
(* is a key of "args").  An instant event's shows what null becomes.        *)
Counter(t, cat, p) == Marker(t, <<counter(cat, p, clock, 1)>>)
Counters(t, cat, p) ==
  \E q \in Pointer :
    Marker(t, <<counter(cat, p, clock, 1), counter(cat, q, clock, 2)>>)

(* mark::process_name ... thread_sort_index *)
Metadata(t, cat, p) ==
  \E type \in MetadataType :
    Marker(t, <<IF type \in SortIndex THEN metadata(cat, type, Null, 7)
                ELSE metadata(cat, type, p, 0)>>)

(* A complete object only remembers; its destructor submits. *)
OpenComplete(t, cat, p) ==
  /\ guards' = [guards EXCEPT ![t] = Append(@,
       [categories |-> cat, desc |-> p, start |-> clock])]
  /\ UNCHANGED <<clock, zero, env, properties, collector, text, rewritten,
                 sink, file>>

MutantFinished(guard) ==
  complete(guard.categories, guard.desc, guard.start, clock)

(* complete::submit *)
Finished(guard) ==
  complete(guard.categories, guard.desc, guard.start, clock - guard.start)

(* A duration object begins at once, and its destructor gives no name. *)
OpenDuration(t, cat, p) ==
  /\ Submit(t, <<duration_begin(cat, p, clock)>>)
  /\ guards' = [guards EXCEPT ![t] = Append(@, Null)]

(* The innermost scope is left. *)
CloseGuard(t) ==
  LET guard == Last(guards[t])
  IN  /\ guards[t] # <<>>
      /\ Submit(t, <<IF guard = Null THEN duration_end(0, Null, clock)
                     ELSE Finished(guard)>>)
      /\ guards' = [guards EXCEPT ![t] = Front(@)]

(* sink_thread_reserve: best before the first marker, as the header says,  *)
(* but possible at any time, also between markers and after a flush.       *)
Reserve(t, minimum_free_capacity) ==
  /\ collector' = [collector EXCEPT ![t] =
       ReserveBlock(thread_local_instance(t), minimum_free_capacity)]
  /\ properties' = instance
  /\ UNCHANGED <<clock, zero, env, guards, text, rewritten, sink, file>>

(* sink_thread_flush_now: the blocks go to the sink, events or none stay. *)
Flush(t) ==
  LET c == thread_local_instance(t)
  IN  /\ collector' = [collector EXCEPT ![t] =
           IF c.events = <<>> THEN c ELSE [c EXCEPT !.events = <<>>, !.room = 0]]
      /\ sink' = sink \o c.events
      /\ properties' = instance
      /\ UNCHANGED <<clock, zero, env, guards, text, rewritten, file>>

-----------------------------------------------------------------------------
Tick ==
  /\ \E now \in Time : now > clock /\ clock' = now
  /\ UNCHANGED <<zero, env, properties, collector, guards, text, rewritten,
                 sink, file>>

(* The static initialisation of properties.cxx. *)
InitialiseZero ==
  /\ zero = 0
  /\ zero' = clock
  /\ UNCHANGED <<clock, env, properties, collector, guards, text, rewritten,
                 sink, file>>

(* The program changes characters it passed to a marker (once: a bound). *)
Rewrite(p) ==
  /\ p \notin rewritten
  /\ \E chars \in Text \ {text[p]} : text' = [text EXCEPT ![p] = chars]
  /\ rewritten' = rewritten \cup {p}
  /\ UNCHANGED <<clock, zero, env, properties, collector, guards, sink, file>>

(* The destructor of the global file sink, when the threads are gone: they *)
(* have flushed, and static initialisation is over.                        *)
Write ==
  /\ sink # <<>> /\ zero # 0
  /\ \A t \in Thread : collector[t] # Null => collector[t].events = <<>>
  /\ file' = in_trace_event_format(properties.time_point_zero_ns, sink, text)
  /\ UNCHANGED <<clock, zero, env, properties, collector, guards, text,
                 rewritten, sink>>

Mark(t, cat, p) ==
  \/ Instant(t, cat, p, "p") \/ DurationBegin(t, cat, p) \/ DurationEnd(t, cat, p)
  \/ Counter(t, cat, p) \/ Counters(t, cat, p) \/ Metadata(t, cat, p)
  \/ OpenComplete(t, cat, p) \/ OpenDuration(t, cat, p)

(* Nothing is said of a program after it wrote outside of a block. *)
Overrun == \E t \in Thread : collector[t] # Null /\ collector[t].overrun

Next ==
  /\ file = Null /\ ~Overrun
  /\ \/ Tick \/ InitialiseZero \/ Write
     \/ \E p \in Pointer : Rewrite(p)
     \/ \E t \in Thread :
          \/ CloseGuard(t)
          \/ Flush(t)
          \/ \E n \in Request : Reserve(t, n)
          \/ /\ Marks < MaxMarks
             /\ \E cat \in Flag :
                  \/ \E p \in Pointer : Mark(t, cat, p)
                  \/ Instant(t, cat, Null, "t")

Spec == Init /\ [][Next]_vars


-----------------------------------------------------------------------------
(* Whoever reads the file finds, event by event in the order of the        *)
(* flushes, what was marked: the name as it was then, unless the program   *)
(* changed it meanwhile; the category; the thread; and the very nanosecond *)
(* since time point zero, unless the marker began before that.             *)
Kept(item) == item.evt.desc \notin rewritten

NameRead(object, item) ==
  CASE item.evt.ph = "C" ->
         Field(object, "name") = <<"quote", "Counter", "quote">>
         /\ ReadString(Field(object, "args")[1]) = item.said
    [] item.evt.ph = "M" ->
         item.evt.type \notin SortIndex =>
           ReadString(Field(object, "args")[2]) = item.said
    [] item.evt.ph = "E" /\ item.said = Null -> ReadString(Field(object, "name")) = <<>>
    [] OTHER -> ReadString(Field(object, "name")) = item.said

TimesRead(object, evt) ==
  LET since == properties.time_point_zero_ns
  IN  /\ evt.ph # "M" /\ evt.ts >= since =>
           ReadStamp(Field(object, "ts")) = evt.ts - since
      /\ evt.ph = "X" => ReadStamp(Field(object, "dur")) = evt.duration_ns

RoundTrip ==
  file # Null =>
    /\ Len(file) = Len(sink)
    /\ \A k \in DOMAIN file :
         LET item == sink[k]
         IN  /\ Kept(item) => NameRead(file[k], item)
             /\ Field(file[k], "ph") = item.evt.ph
             /\ Reads(file[k], "cat", ReadString) =
                  IF CategoryName[item.evt.categories] = <<>> THEN Null
                  ELSE CategoryName[item.evt.categories]
             /\ Field(file[k], "tid") = item.thread_id
             /\ TimesRead(file[k], item.evt)

(* The complete events of a thread are written inner scopes first, and any *)
(* two of them lie within or beside each other, as scopes do: with one     *)
(* clock reading per object at the wrong end they would not.               *)
Begin(object) == ReadStamp(Field(object, "ts"))
End(object) == Begin(object) + ReadStamp(Field(object, "dur"))

CompletesOf(t) ==
  {k \in DOMAIN sink : sink[k].thread_id = t /\ sink[k].evt.ph = "X"
                       /\ sink[k].evt.ts >= properties.time_point_zero_ns}

ScopesNest ==
  file # Null =>
    \A t \in Thread : \A j, k \in CompletesOf(t) :
      j < k => /\ End(file[j]) <= End(file[k])
               /\ \/ Begin(file[k]) <= Begin(file[j])
                  \/ End(file[j]) <= Begin(file[k])

(* No value of CXXET_DEFAULT_BLOCK_SIZE but a whole number that is not a   *)
(* positive int makes an event land outside of the blocks, whatever the    *)
(* program reserves and flushes, and whenever it does.                     *)
NamesNoBlockSize ==
  /\ env # Null /\ env.number # Null /\ ~env.trailing
  /\ env.number \notin 1 .. INT_MAX

EventsLandInBlocks == Overrun => NamesNoBlockSize
=============================================================================
