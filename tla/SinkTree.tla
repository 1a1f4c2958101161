------------------------------- MODULE SinkTree -------------------------------
(***************************************************************************)
(* The sinks of a process and the threads that use them.  Every thread has *)
(* a thread-local event_collector; collectors and cascades hand their      *)
(* events to a parent when they are flushed or destroyed; the chain of     *)
(* parents ends at a file_sink, whose destructor writes its events out.    *)
(* The lists are sequences here (EventList implements those); the steps    *)
(* are those between two accesses to shared memory: taking and releasing a *)
(* mutex, looking at a list, splicing it.                                  *)
(*                                                                         *)
(* A caller has obligations C++ and the documentation leave to him: sinks  *)
(* made with thread_safe = false are not used by two calls at a time, and  *)
(* a sink outlives the calls, the cascades and the pending events that     *)
(* refer to it.  Usable, MayFlush, MayDestroy and MayExit state them.      *)
(***************************************************************************)
EXTENDS Naturals, Sequences

CONSTANTS
  Thread,             (* Threads; t also names the collector of thread t.  *)
  FileSink, Cascade,  (* The sink objects of a run (a bound).              *)
  Global,             (* file_sink_global_instance().                      *)
  ThreadSafe,         (* Sinks instantiated with thread_safe_v = true.     *)
  Null,               (* No thread, no sink.                               *)
  Careful,            (* Threads that flush before they divert, as docu-   *)
                      (* mented; the others may divert with events left.   *)
  MaxEvents,          (* Events recorded per thread (a bound).             *)
  MaxSwitches         (* divert calls per thread (a bound).                *)

Sink == FileSink \cup Cascade
Holder == Thread \cup Sink   (* Whatever has an event list. *)

ASSUME SinkAssumption ==
  /\ Thread \cap Sink = {}
  /\ FileSink \cap Cascade = {}
  /\ Global \in FileSink
  /\ ThreadSafe \subseteq Sink
  /\ Global \in ThreadSafe
  /\ Null \notin Holder
  /\ Careful \subseteq Thread
  /\ MaxEvents \in Nat
  /\ MaxSwitches \in Nat

VARIABLES
  events,    (* sink_base::events of every holder.                         *)
  parent,    (* cascade::parent of every collector and cascade.            *)
  life,      (* Lifetime of every holder.                                  *)
  mutex,     (* The thread that holds thread_safe::mtx, or Null.           *)
  call,      (* What each thread is inside of.                             *)
  recorded,  (* How many events each thread has recorded.                  *)
  switches,  (* How often each thread called divert.                       *)
  root,      (* The file sink at the end of a sink's chain of parents.     *)
  depth,     (* The length of that chain (root and depth are history).     *)
  written    (* What each file sink passed to write_out_events.            *)

vars == <<events, parent, life, mutex, call, recorded, switches, root, depth,
          written>>

(* An event: who recorded it, its number, and the sink the thread was      *)
(* diverted to at that time.                                               *)
Event == [by : Thread, nr : Nat \ {0}, to : Sink]

(* A call in flight: do_flush with its lock ("flush"), a destructor        *)
(* ("destroy"), on behalf of holder self, about to do step at.             *)
Idle == [op |-> "none", self |-> Null, at |-> "idle"]

(* The objects that exist when the first thread starts are given by lives. *)
InitWith(lives) ==
  /\ events = [h \in Holder |-> <<>>]
  /\ parent = [h \in Thread \cup Cascade |-> IF h \in Thread THEN Global ELSE Null]
  /\ life = lives
  /\ mutex = [s \in Sink |-> Null]
  /\ call = [t \in Thread |-> Idle]
  /\ recorded = [t \in Thread |-> 0]
  /\ switches = [t \in Thread |-> 0]
  /\ root = [s \in Sink |-> IF s \in FileSink THEN s ELSE Null]
  /\ depth = [s \in Sink |-> 0]
  /\ written = [f \in FileSink |-> <<>>]

Init ==
  InitWith([h \in Holder |->
              IF h \in Thread \/ h = Global THEN "alive" ELSE "unborn"])

At(t, at) == call[t].at = at

-----------------------------------------------------------------------------
(* The caller's obligations. *)

(* The sinks a call in flight accesses or may yet access: a cascade can    *)
(* receive events until its flush has its lock, a collector cannot.        *)
NeedsParent(t) ==
  \/ call[t].self \in Cascade
  \/ call[t].self \in Thread /\ (events[call[t].self] # <<>> \/ At(t, "unlock parent"))

Touches(t) ==
  IF call[t] = Idle THEN {}
  ELSE {call[t].self} \cup (IF NeedsParent(t) THEN {parent[call[t].self]} ELSE {})

(* Thread t may start a call that accesses sink s. *)
Usable(t, s) ==
  /\ life[s] = "alive"
  /\ s \in ThreadSafe \/ \A u \in Thread \ {t} : s \notin Touches(u)

MayFlush(t, h) ==
  /\ h \in Sink => Usable(t, h)
  /\ h \in Sink \/ events[h] # <<>> => Usable(t, parent[h])

(* A collector without events does not look at its parent any more. *)
MayDestroy(t, s) ==
  /\ life[s] = "alive"
  /\ \A u \in Thread : s \notin Touches(u)
  /\ \A u \in Thread : parent[u] = s => events[u] = <<>>
  /\ \A c \in Cascade : life[c] \in {"alive", "dying"} => parent[c] # s
  /\ s \in Cascade => Usable(t, parent[s])

(* The handles of all local sinks are gone before the last thread ends. *)
MayExit(t) ==
  /\ MayFlush(t, t)
  /\ \/ \E u \in Thread \ {t} : life[u] = "alive"
     \/ \A s \in Sink \ {Global} : life[s] \in {"unborn", "dead"}

Running(t) == life[t] = "alive" /\ call[t] = Idle

-----------------------------------------------------------------------------
(* Calls that touch nothing but the caller's own objects. *)

(* Any marker: event_collector::append_event. *)
Record(t) ==
  /\ Running(t)
  /\ life[parent[t]] = "alive"
  /\ recorded[t] < MaxEvents
  /\ recorded' = [recorded EXCEPT ![t] = @ + 1]
  /\ events' = [events EXCEPT ![t] =
                  Append(@, [by |-> t, nr |-> recorded[t] + 1, to |-> parent[t]])]
  /\ UNCHANGED <<parent, life, mutex, call, switches, root, depth, written>>

(* divert_thread_sink_to_this, sink_thread_divert_to_sink_global:          *)
(* set_parent of the calling thread's collector.                           *)
Divert(t, s) ==
  /\ Running(t)
  /\ life[s] = "alive"
  /\ switches[t] < MaxSwitches
  /\ t \in Careful => events[t] = <<>>
  /\ switches' = [switches EXCEPT ![t] = @ + 1]
  /\ parent' = [parent EXCEPT ![t] = s]
  /\ UNCHANGED <<events, life, mutex, call, recorded, root, depth, written>>

MakeFileSink(t, f) ==
  /\ Running(t)
  /\ life[f] = "unborn"
  /\ life' = [life EXCEPT ![f] = "alive"]
  /\ UNCHANGED <<events, parent, mutex, call, recorded, switches, root, depth,
                 written>>

(* Leaves the parent a null pointer. *)
MutantMakeCascade(t, c, p) ==
  /\ Running(t)
  /\ life[c] = "unborn"
  /\ life[p] = "alive"
  /\ life' = [life EXCEPT ![c] = "alive"]
  /\ root' = [root EXCEPT ![c] = root[p]]
  /\ depth' = [depth EXCEPT ![c] = depth[p] + 1]
  /\ UNCHANGED <<events, parent, mutex, call, recorded, switches, written>>

(* cascade_sink_handle::make: the parent is given once and for all. *)
MakeCascade(t, c, p) ==
  /\ Running(t)
  /\ life[c] = "unborn"
  /\ life[p] = "alive"
  /\ life' = [life EXCEPT ![c] = "alive"]
  /\ parent' = [parent EXCEPT ![c] = p]
  /\ root' = [root EXCEPT ![c] = root[p]]
  /\ depth' = [depth EXCEPT ![c] = depth[p] + 1]
  /\ UNCHANGED <<events, mutex, call, recorded, switches, written>>

-----------------------------------------------------------------------------
(* cascade::do_flush and sink_base::drain, step by step. *)

Enter(t, op, h, at) ==
  /\ call' = [call EXCEPT ![t] = [op |-> op, self |-> h, at |-> at]]
  /\ UNCHANGED <<events, parent, mutex, recorded, switches, root, depth, written>>

(* sink_thread_flush_now (h = t) and cascade_sink_handle::flush_now.  To   *)
(* flush what is empty when the call starts is left out: it is a call with *)
(* no effect (a bound).                                                    *)
BeginFlush(t, h) ==
  /\ Running(t)
  /\ h \in Cascade \cup {t}
  /\ MayFlush(t, h)
  /\ events[h] # <<>>
  /\ Enter(t, "flush", h, "lock")
  /\ UNCHANGED life

Goto(t, at) ==
  call' = [call EXCEPT ![t] = [op |-> @.op, self |-> @.self, at |-> at]]

(* lock() of a thread_safe sink waits; that of the others does nothing. *)
Acquire(t, s) ==
  IF s \in ThreadSafe
  THEN mutex[s] = Null /\ mutex' = [mutex EXCEPT ![s] = t]
  ELSE UNCHANGED mutex

Release(s) ==
  IF s \in ThreadSafe THEN mutex' = [mutex EXCEPT ![s] = Null] ELSE UNCHANGED mutex

LockSelf(t) ==
  /\ At(t, "lock")
  /\ Acquire(t, call[t].self)
  /\ Goto(t, "check")
  /\ UNCHANGED <<events, parent, life, recorded, switches, root, depth, written>>

(* Without the has_events() half of the condition. *)
MutantCheckParentOnly(t) ==
  /\ At(t, "check")
  /\ Goto(t, "lock parent")
  /\ UNCHANGED <<events, parent, life, mutex, recorded, switches, root, depth,
                 written>>

(* A destructor that does not flush. *)
MutantCheckNotInDestructor(t) ==
  /\ At(t, "check")
  /\ \/ call[t].op = "flush" /\ Goto(t, "lock parent")
     \/ call[t].op = "destroy" /\ Goto(t, "unlock")
  /\ UNCHANGED <<events, parent, life, mutex, recorded, switches, root, depth,
                 written>>

(* if (parent && has_events()) *)
Check(t) ==
  /\ At(t, "check")
  /\ \/ events[call[t].self] # <<>> /\ Goto(t, "lock parent")
     \/ events[call[t].self] = <<>> /\ Goto(t, "unlock")
  /\ UNCHANGED <<events, parent, life, mutex, recorded, switches, root, depth,
                 written>>

(* drain() without its lock_guard. *)
MutantLockParent(t) ==
  /\ At(t, "lock parent")
  /\ Goto(t, "splice")
  /\ UNCHANGED <<events, parent, life, mutex, recorded, switches, root, depth,
                 written>>

LockParent(t) ==
  /\ At(t, "lock parent")
  /\ Acquire(t, parent[call[t].self])
  /\ Goto(t, "splice")
  /\ UNCHANGED <<events, parent, life, recorded, switches, root, depth, written>>

(* Puts the drained events first. *)
MutantSpliceInFront(t) ==
  LET self == call[t].self
      to == parent[self]
  IN  /\ At(t, "splice")
      /\ events' = [events EXCEPT ![to] = events[self] \o @, ![self] = <<>>]
      /\ Goto(t, "unlock parent")
      /\ UNCHANGED <<parent, life, mutex, recorded, switches, root, depth, written>>

(* Always hands on to the global sink. *)
MutantSpliceIntoGlobal(t) ==
  LET self == call[t].self
  IN  /\ At(t, "splice")
      /\ events' = [events EXCEPT ![Global] = @ \o events[self], ![self] = <<>>]
      /\ Goto(t, "unlock parent")
      /\ UNCHANGED <<parent, life, mutex, recorded, switches, root, depth, written>>

(* do_drain: events.drain_other(other.events) *)
Splice(t) ==
  LET self == call[t].self
      to == parent[self]
  IN  /\ At(t, "splice")
      /\ events' = [events EXCEPT ![to] = @ \o events[self], ![self] = <<>>]
      /\ Goto(t, "unlock parent")
      /\ UNCHANGED <<parent, life, mutex, recorded, switches, root, depth, written>>

(* Leaves the parent locked. *)
MutantUnlockParent(t) ==
  /\ At(t, "unlock parent")
  /\ Goto(t, "unlock")
  /\ UNCHANGED <<events, parent, life, mutex, recorded, switches, root, depth,
                 written>>

UnlockParent(t) ==
  /\ At(t, "unlock parent")
  /\ Release(parent[call[t].self])
  /\ Goto(t, "unlock")
  /\ UNCHANGED <<events, parent, life, recorded, switches, root, depth, written>>

(* The end of do_flush; a destructor never locked and ends the object. *)
UnlockSelf(t) ==
  /\ At(t, "unlock")
  /\ \/ /\ call[t].op = "flush"
        /\ Release(call[t].self)
        /\ UNCHANGED life
     \/ /\ call[t].op = "destroy"
        /\ life' = [life EXCEPT ![call[t].self] = "dead"]
        /\ UNCHANGED mutex
  /\ call' = [call EXCEPT ![t] = Idle]
  /\ UNCHANGED <<events, parent, recorded, switches, root, depth, written>>

-----------------------------------------------------------------------------
(* The end of threads and sinks. *)

(* ~event_collector at the end of a thread: do_flush<false>. *)
ExitThread(t) ==
  /\ Running(t)
  /\ MayExit(t)
  /\ life' = [life EXCEPT ![t] = "dying"]
  /\ Enter(t, "destroy", t, "check")

DestroyCascade(t, c) ==
  /\ Running(t)
  /\ MayDestroy(t, c)
  /\ life' = [life EXCEPT ![c] = "dying"]
  /\ Enter(t, "destroy", c, "check")

DestroyFileSink(t, f) ==
  /\ Running(t)
  /\ f # Global
  /\ MayDestroy(t, f)
  /\ life' = [life EXCEPT ![f] = "dying"]
  /\ Enter(t, "destroy", f, "write")

(* write_out_events reads the whole list and then destroys it. *)
WrittenOut(f) ==
  /\ written' = [written EXCEPT ![f] = events[f]]
  /\ events' = [events EXCEPT ![f] = <<>>]

WriteOut(t) ==
  /\ At(t, "write")
  /\ WrittenOut(call[t].self)
  /\ Goto(t, "unlock")
  /\ UNCHANGED <<parent, life, mutex, recorded, switches, root, depth>>

(* Statics destroyed while threads still run. *)
MutantDestroyGlobal ==
  /\ life[Global] = "alive"
  /\ WrittenOut(Global)
  /\ life' = [life EXCEPT ![Global] = "dead"]
  /\ UNCHANGED <<parent, mutex, call, recorded, switches, root, depth>>

(* The global sink is destroyed with the statics, after the last thread's  *)
(* thread-local collector.                                                 *)
DestroyGlobal ==
  /\ life[Global] = "alive"
  /\ \A t \in Thread : life[t] = "dead"
  /\ WrittenOut(Global)
  /\ life' = [life EXCEPT ![Global] = "dead"]
  /\ UNCHANGED <<parent, mutex, call, recorded, switches, root, depth>>

Terminated == life[Global] = "dead" /\ UNCHANGED vars

(* The rest of a call that has begun. *)
Continue(t) ==
  \/ LockSelf(t)
  \/ Check(t)
  \/ LockParent(t)
  \/ Splice(t)
  \/ UnlockParent(t)
  \/ UnlockSelf(t)
  \/ WriteOut(t)

ThreadNext(t) ==
  \/ Record(t)
  \/ \E s \in Sink : Divert(t, s)
  \/ \E f \in FileSink : MakeFileSink(t, f)
  \/ \E c \in Cascade, p \in Sink : MakeCascade(t, c, p)
  \/ \E h \in Holder : BeginFlush(t, h)
  \/ ExitThread(t)
  \/ \E c \in Cascade : DestroyCascade(t, c)
  \/ \E f \in FileSink : DestroyFileSink(t, f)
  \/ Continue(t)

Next ==
  \/ \E t \in Thread : ThreadNext(t)
  \/ DestroyGlobal
  \/ Terminated

Spec == Init /\ [][Next]_vars

(* A thread inside a call is scheduled again; a caller flushes what is     *)
(* pending, the scopes of local sinks end, and so do threads.              *)
Fairness ==
  /\ \A t \in Thread :
       WF_vars(Continue(t)) /\ WF_vars(BeginFlush(t, t)) /\ WF_vars(ExitThread(t))
  /\ \A c \in Cascade : WF_vars(\E t \in Thread : DestroyCascade(t, c))
  /\ \A f \in FileSink : WF_vars(\E t \in Thread : DestroyFileSink(t, f))
  /\ WF_vars(DestroyGlobal)

FairSpec == Spec /\ Fairness
-----------------------------------------------------------------------------
(* Every variable has its type. *)
Steps == {"idle", "lock", "check", "lock parent", "splice", "unlock parent",
          "unlock", "write"}

TypeOK ==
  /\ events \in [Holder -> Seq(Event)]
  /\ parent \in [Thread \cup Cascade -> Sink \cup {Null}]
  /\ \A h \in Thread \cup Cascade : life[h] # "unborn" => parent[h] \in Sink
  /\ life \in [Holder -> {"unborn", "alive", "dying", "dead"}]
  /\ mutex \in [Sink -> Thread \cup {Null}]
  /\ call \in [Thread -> [op : {"none", "flush", "destroy"},
                         self : Holder \cup {Null}, at : Steps]]
  /\ recorded \in [Thread -> 0..MaxEvents]
  /\ switches \in [Thread -> 0..MaxSwitches]
  /\ root \in [Sink -> FileSink \cup {Null}]
  /\ depth \in [Sink -> Nat]
  /\ written \in [FileSink -> Seq(Event)]

(* The lists the next step of a thread reads or writes. *)
Accesses(t) ==
  {h \in Holder :
     \/ call[t].at \in {"check", "splice", "write"} /\ h = call[t].self
     \/ At(t, "splice") /\ h = parent[call[t].self]}

(* No data race: no two threads are about to look at, splice or write out  *)
(* the same event list.  For sinks made thread safe this rests on who      *)
(* holds which mutex, with no obligation on the callers.                   *)
NoRace ==
  \A t, u \in Thread : t # u => Accesses(t) \cap Accesses(u) = {}

(* No thread locks, splices into or unlocks a sink that was destroyed or   *)
(* does not exist yet, although parent pointers to dead sinks do remain.   *)
NoUseAfterDestroy ==
  \A t \in Thread :
    /\ At(t, "lock") => life[call[t].self] = "alive"
    /\ call[t].at \in {"lock parent", "splice", "unlock parent"} =>
         life[parent[call[t].self]] = "alive"

(* A thread waits for another one that holds the mutex it wants. *)
WaitsFor(t) ==
  {u \in Thread :
     \/ At(t, "lock") /\ call[t].self \in ThreadSafe
        /\ mutex[call[t].self] = u
     \/ At(t, "lock parent") /\ parent[call[t].self] \in ThreadSafe
        /\ mutex[parent[call[t].self]] = u}

(* No deadlock of some threads: threads holding a cascade's mutex while    *)
(* they wait for its parent's never wait for each other in a circle.       *)
NoWaitCycle ==
  \A W \in (SUBSET Thread) \ {{}} :
    \E t \in W : WaitsFor(t) \cap W = {}

(* Where an event can be found: in a list, or in what was written out. *)
Places == [list : Holder] \cup [file : FileSink]

Content(p) == IF "list" \in DOMAIN p THEN events[p.list] ELSE written[p.file]

(* The events a thread that flushes before it switches recorded while      *)
(* diverted to one sink stay in the order it recorded them, in every sink  *)
(* on their way and in the output, whatever the other threads do.          *)
RouteOrder ==
  \A p \in Places : \A i, j \in DOMAIN Content(p) :
    LET former == Content(p)[i]
        latter == Content(p)[j]
    IN  /\ i < j
        /\ former.by = latter.by /\ former.by \in Careful
        /\ former.to = latter.to
        => former.nr < latter.nr

(* Every event of a thread that flushes before it switches ends in the     *)
(* file of the sink its thread was diverted to when it was recorded.       *)
ChosenFile ==
  \A f \in FileSink : \A i \in DOMAIN written[f] :
    written[f][i].by \in Careful => root[written[f][i].to] = f

(* Every flush and every destructor returns. *)
CallsReturn == \A t \in Thread : call[t] # Idle ~> call[t] = Idle

(* Every event recorded is in the end handed to write_out_events. *)
EventuallyWritten ==
  \A t \in Thread : \A k \in 1..MaxEvents :
    recorded[t] >= k ~>
      \E f \in FileSink : \E i \in DOMAIN written[f] :
        written[f][i].by = t /\ written[f][i].nr = k

(* The tree of sinks implements EventDelivery: to its users it is a set of *)
(* pending events that every file sink takes some of.                      *)
Delivery ==
  INSTANCE EventDelivery WITH
    pending <- UNION {{events[h][i] : i \in DOMAIN events[h]} : h \in Holder},
    closed <- life[Global] = "dead",
    Ordered <- Careful

ImplementsDelivery == Delivery!Spec
=============================================================================
