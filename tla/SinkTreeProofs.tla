---------------------------- MODULE SinkTreeProofs ----------------------------
(***************************************************************************)
(* Proofs about SinkTree, for any number of threads and sinks, any tree of *)
(* parents and any mix of thread-safe and thread-unsafe sinks: no call     *)
(* meets a dead sink, another call inside a list, or a circle of waiting   *)
(* threads; and where the events are, in which order, and that all of them *)
(* are written once.                                                       *)
(***************************************************************************)
EXTENDS SinkTree, TLAPS, SequenceTheorems, WellFoundedInduction

USE SinkAssumption DEF Sink, Holder

(* What a thread inside a call may be doing, and to which object. *)
FlushSteps == {"lock", "check", "lock parent", "splice", "unlock parent", "unlock"}

InCall(t) ==
  \/ call[t] = Idle /\ life[t] \in {"alive", "dead"}
  \/ /\ call[t].op = "flush"
     /\ call[t].self \in Cascade \cup {t}
     /\ life[call[t].self] = "alive"
     /\ life[t] = "alive"
     /\ call[t].at \in FlushSteps
  \/ /\ call[t].op = "destroy"
     /\ call[t].self \in Cascade \cup {t}
     /\ life[call[t].self] = "dying"
     /\ call[t].self # t => life[t] = "alive"
     /\ call[t].at \in FlushSteps \ {"lock"}
  \/ /\ call[t].op = "destroy"
     /\ call[t].self \in FileSink
     /\ life[call[t].self] = "dying"
     /\ life[t] = "alive"
     /\ call[t].at \in {"write", "unlock"}

CallOK == \A t \in Thread : InCall(t)

(* A parent was made before its child, and is nearer to the file. *)
TreeOK ==
  \A c \in Cascade : life[c] # "unborn" =>
    life[parent[c]] # "unborn" /\ depth[c] = depth[parent[c]] + 1

(* Whoever has something to hand on has a living parent. *)
LiveThread(t) ==
  /\ life[t] # "unborn" /\ life[parent[t]] # "unborn"
  /\ life[t] # "dead" /\ events[t] # <<>> => life[parent[t]] = "alive"
  /\ At(t, "unlock parent") => life[parent[call[t].self]] = "alive"
  /\ call[t].at \in {"lock parent", "splice"} /\ call[t].self = t => events[t] # <<>>

LiveOK ==
  /\ \A c \in Cascade : life[c] \in {"alive", "dying"} => life[parent[c]] = "alive"
  /\ \A t \in Thread : LiveThread(t)
  /\ \/ \E t \in Thread : life[t] = "alive"
     \/ \A s \in Sink \ {Global} : life[s] \in {"unborn", "dead"}

Destroys(t, s) == call[t].op = "destroy" /\ call[t].self = s

(* What two calls in flight have in common is thread safe, and alive. *)
ExclOK ==
  \A t, u \in Thread : t # u =>
    \A s \in Touches(t) \cap Touches(u) : s \in ThreadSafe /\ ~Destroys(t, s)

Holds(t, s) ==
  \/ /\ call[t].op = "flush"
     /\ call[t].self = s
     /\ call[t].at \in FlushSteps \ {"lock"}
  \/ call[t].at \in {"splice", "unlock parent"} /\ parent[call[t].self] = s

MutexOK == \A s \in ThreadSafe : \A t \in Thread : mutex[s] = t <=> Holds(t, s)

IInv == TypeOK /\ CallOK /\ TreeOK /\ LiveOK /\ ExclOK /\ MutexOK

-----------------------------------------------------------------------------
(* A step within a call keeps the type of call. *)
LEMMA GotoType ==
  ASSUME TypeOK, NEW t \in Thread, NEW at \in Steps, Goto(t, at)
  PROVE  call' \in [Thread -> [op : {"none", "flush", "destroy"},
                              self : Holder \cup {Null}, at : Steps]]
  BY DEF TypeOK, Goto

(* Which object a thread at a given step works on. *)
LEMMA CallKinds ==
  ASSUME CallOK, NEW t \in Thread
  PROVE  /\ call[t].at \in FlushSteps \ {"unlock"} => call[t].self \in Cascade \cup {t}
         /\ call[t].at = "write" =>
              call[t].self \in FileSink /\ call[t].op = "destroy"
         /\ call[t].at \in FlushSteps \cup {"write"} =>
              /\ call[t] # Idle
              /\ call[t].op \in {"flush", "destroy"}
              /\ call[t].op = "flush" => /\ call[t].self \in Cascade \cup {t}
                                        /\ life[call[t].self] = "alive"
              /\ call[t].op = "destroy" => life[call[t].self] = "dying"
         /\ call[t].at = "lock" => call[t].op = "flush"
         /\ call[t] # Idle => call[t].self \in Sink \cup {t}
  <1>1. call[t] = Idle => call[t].at = "idle"
    BY DEF Idle
  <1>2. InCall(t)
    BY DEF CallOK
  <1> QED
    BY <1>1, <1>2 DEF InCall, FlushSteps

LEMMA AcquireType ==
  ASSUME TypeOK, NEW t \in Thread, NEW s, Acquire(t, s)
  PROVE  mutex' \in [Sink -> Thread \cup {Null}]
  <1>1. CASE s \in ThreadSafe
    <2>1. mutex' = [mutex EXCEPT ![s] = t]
      BY <1>1 DEF Acquire
    <2> QED
      BY <2>1 DEF TypeOK
  <1>2. CASE s \notin ThreadSafe
    BY <1>2 DEF Acquire, TypeOK
  <1> QED
    BY <1>1, <1>2

LEMMA NoEvents == <<>> \in Seq(Event)
  OBVIOUS

LEMMA InitType == Init => TypeOK /\ CallOK /\ TreeOK
  <1> SUFFICES ASSUME Init PROVE TypeOK /\ CallOK /\ TreeOK
    OBVIOUS
  <1>1. TypeOK
    <2>1. call \in [Thread -> [op : {"none", "flush", "destroy"},
                              self : Holder \cup {Null}, at : Steps]]
      BY DEF Init, InitWith, Idle, Steps
    <2>2. events \in [Holder -> Seq(Event)] /\ written \in [FileSink -> Seq(Event)]
      BY NoEvents DEF Init, InitWith
    <2>3. root \in [Sink -> FileSink \cup {Null}] /\ depth \in [Sink -> Nat]
      BY DEF Init, InitWith
    <2>4. parent \in [Thread \cup Cascade -> Sink \cup {Null}]
      BY DEF Init, InitWith
    <2>5. \A h \in Thread \cup Cascade : life[h] # "unborn" => parent[h] \in Sink
      BY DEF Init, InitWith
    <2>6. life \in [Holder -> {"unborn", "alive", "dying", "dead"}]
      BY DEF Init, InitWith
    <2>7. mutex \in [Sink -> Thread \cup {Null}]
      BY DEF Init, InitWith
    <2>8. recorded \in [Thread -> 0..MaxEvents] /\ switches \in [Thread -> 0..MaxSwitches]
      BY DEF Init, InitWith
    <2> QED
      BY <2>1, <2>2, <2>3, <2>4, <2>5, <2>6, <2>7, <2>8 DEF TypeOK
  <1>2. CallOK /\ TreeOK
    BY DEF Init, InitWith, CallOK, InCall, TreeOK
  <1> QED
    BY <1>1, <1>2

LEMMA TypeStep ==
  ASSUME TypeOK, CallOK, LiveOK, [Next]_vars
  PROVE  TypeOK'
  <1>1. ASSUME NEW t \in Thread, Record(t) PROVE TypeOK'
    <2> DEFINE e == [by |-> t, nr |-> recorded[t] + 1, to |-> parent[t]]
    <2>1. e \in Event
      BY <1>1 DEF Record, Running, Event, TypeOK
    <2>2. Append(events[t], e) \in Seq(Event)
      BY <2>1 DEF TypeOK
    <2>3. events' \in [Holder -> Seq(Event)]
      BY <1>1, <2>2 DEF Record, TypeOK
    <2>4. recorded' \in [Thread -> 0..MaxEvents]
      BY <1>1 DEF Record, TypeOK
    <2> QED
      BY <1>1, <2>3, <2>4 DEF Record, TypeOK
  <1>2. ASSUME NEW t \in Thread, NEW s \in Sink, Divert(t, s) PROVE TypeOK'
    BY <1>2 DEF Divert, TypeOK
  <1>3. ASSUME NEW t \in Thread, NEW f \in FileSink, MakeFileSink(t, f) PROVE TypeOK'
    BY <1>3 DEF MakeFileSink, TypeOK
  <1>4. ASSUME NEW t \in Thread, NEW c \in Cascade, NEW p \in Sink, MakeCascade(t, c, p)
        PROVE TypeOK'
    <2>1. parent' \in [Thread \cup Cascade -> Sink \cup {Null}]
      BY <1>4 DEF MakeCascade, TypeOK
    <2>2. \A h \in Thread \cup Cascade : life'[h] # "unborn" => parent'[h] \in Sink
      BY <1>4 DEF MakeCascade, TypeOK
    <2>3. life' \in [Holder -> {"unborn", "alive", "dying", "dead"}]
      BY <1>4 DEF MakeCascade, TypeOK
    <2>4. root' \in [Sink -> FileSink \cup {Null}] /\ depth' \in [Sink -> Nat]
      BY <1>4 DEF MakeCascade, TypeOK
    <2> QED
      BY <1>4, <2>1, <2>2, <2>3, <2>4 DEF MakeCascade, TypeOK
  <1>5. ASSUME NEW t \in Thread, NEW h \in Holder, BeginFlush(t, h) PROVE TypeOK'
    BY <1>5 DEF BeginFlush, Enter, TypeOK, Steps
  <1>6. ASSUME NEW t \in Thread, ExitThread(t) PROVE TypeOK'
    BY <1>6 DEF ExitThread, Enter, TypeOK, LiveOK, LiveThread, Steps
  <1>7. ASSUME NEW t \in Thread, NEW c \in Cascade, DestroyCascade(t, c) PROVE TypeOK'
    BY <1>7 DEF DestroyCascade, MayDestroy, Enter, TypeOK, Steps
  <1>8. ASSUME NEW t \in Thread, NEW f \in FileSink, DestroyFileSink(t, f) PROVE TypeOK'
    BY <1>8 DEF DestroyFileSink, Enter, TypeOK, Steps
  <1>9. ASSUME NEW t \in Thread, LockSelf(t) PROVE TypeOK'
    <2>1. mutex' \in [Sink -> Thread \cup {Null}]
      BY <1>9, AcquireType DEF LockSelf, TypeOK
    <2>2. "check" \in Steps
      BY DEF Steps
    <2> QED
      BY <1>9, <2>1, <2>2, GotoType DEF LockSelf, TypeOK
  <1>10. ASSUME NEW t \in Thread, Check(t) PROVE TypeOK'
    BY <1>10, GotoType DEF Check, TypeOK, Steps
  <1>11. ASSUME NEW t \in Thread, LockParent(t) PROVE TypeOK'
    <2>1. mutex' \in [Sink -> Thread \cup {Null}]
      BY <1>11, AcquireType DEF LockParent, TypeOK
    <2>2. "splice" \in Steps
      BY DEF Steps
    <2> QED
      BY <1>11, <2>1, <2>2, GotoType DEF LockParent, TypeOK
  <1>12. ASSUME NEW t \in Thread, Splice(t) PROVE TypeOK'
    <2> DEFINE self == call[t].self
               to   == parent[self]
    <2>0. call[t].at = "splice"
      BY <1>12 DEF Splice, At
    <2>1. self \in Thread \cup Cascade /\ life[self] # "unborn"
      BY <2>0, CallKinds DEF FlushSteps, LiveOK, LiveThread
    <2>1a. to \in Sink
      BY <2>1 DEF TypeOK
    <2>2. events[to] \o events[self] \in Seq(Event)
      BY <2>1, <2>1a, ConcatProperties DEF TypeOK
    <2>3. events' \in [Holder -> Seq(Event)]
      BY <1>12, <2>1, <2>1a, <2>2, NoEvents DEF Splice, TypeOK
    <2>4. "unlock parent" \in Steps
      BY DEF Steps
    <2> QED
      BY <1>12, <2>3, <2>4, GotoType DEF Splice, TypeOK
  <1>13. ASSUME NEW t \in Thread, UnlockParent(t) PROVE TypeOK'
    BY <1>13, GotoType DEF UnlockParent, Release, TypeOK, Steps
  <1>14. ASSUME NEW t \in Thread, UnlockSelf(t) PROVE TypeOK'
    <2>1. call' \in [Thread -> [op : {"none", "flush", "destroy"},
                               self : Holder \cup {Null}, at : Steps]]
      BY <1>14 DEF UnlockSelf, Idle, TypeOK, Steps
    <2>2. \A h \in Holder : life'[h] # "unborn" => life[h] # "unborn"
      <3>1. CASE call[t].op = "destroy"
        <4>1. life[call[t].self] = "dying"
          BY <1>14, <3>1, CallKinds DEF UnlockSelf, At, FlushSteps
        <4> QED
          BY <1>14, <3>1, <4>1 DEF UnlockSelf, TypeOK
      <3>2. CASE call[t].op # "destroy"
        BY <1>14, <3>2 DEF UnlockSelf
      <3> QED
        BY <3>1, <3>2
    <2>3. life' \in [Holder -> {"unborn", "alive", "dying", "dead"}]
      BY <1>14 DEF UnlockSelf, TypeOK
    <2>4. mutex' \in [Sink -> Thread \cup {Null}]
      BY <1>14 DEF UnlockSelf, Release, TypeOK
    <2>5. \A h \in Thread \cup Cascade : life'[h] # "unborn" => parent[h] \in Sink
      BY <2>2 DEF TypeOK, Holder, Sink
    <2>6. UNCHANGED <<events, parent, recorded, switches, root, depth, written>>
      BY <1>14 DEF UnlockSelf
    <2> QED
      BY <2>1, <2>3, <2>4, <2>5, <2>6 DEF TypeOK
  <1>15. ASSUME NEW t \in Thread, WriteOut(t) PROVE TypeOK'
    <2>1. call[t].self \in FileSink
      BY <1>15, CallKinds DEF WriteOut, At, CallOK
    <2>2. "unlock" \in Steps
      BY DEF Steps
    <2>3. events' \in [Holder -> Seq(Event)] /\ written' \in [FileSink -> Seq(Event)]
      BY <1>15, <2>1, NoEvents DEF WriteOut, WrittenOut, TypeOK
    <2> QED
      BY <1>15, <2>2, <2>3, GotoType DEF WriteOut, TypeOK
  <1>16. CASE DestroyGlobal
    <2>1. events' \in [Holder -> Seq(Event)] /\ written' \in [FileSink -> Seq(Event)]
      BY <1>16, NoEvents DEF DestroyGlobal, WrittenOut, TypeOK
    <2> QED
      BY <1>16, <2>1 DEF DestroyGlobal, TypeOK
  <1>17. CASE UNCHANGED vars
    BY <1>17 DEF vars, TypeOK
  <1> QED
    BY <1>1, <1>2, <1>3, <1>4, <1>5, <1>6, <1>7, <1>8, <1>9, <1>10, <1>11, <1>12,
       <1>13, <1>14, <1>15, <1>16, <1>17
    DEF Next, ThreadNext, Continue, Terminated

-----------------------------------------------------------------------------
(* A call is not disturbed by steps that leave it and its object alone. *)
LEMMA InCallFrame ==
  ASSUME CallOK, NEW u \in Thread, call'[u] = call[u], life'[u] = life[u],
         call[u] # Idle => life'[call[u].self] = life[call[u].self]
  PROVE  InCall(u)'
  BY DEF CallOK, InCall, Idle

(* A step of t that changes no lifetime and moves its call on. *)
LEMMA InCallGoto ==
  ASSUME TypeOK, CallOK, NEW t \in Thread, NEW at \in FlushSteps \ {"lock"}, Goto(t, at),
         life' = life, call[t].at \in (FlushSteps \ {"unlock"}) \cup {"write"},
         call[t].at = "write" => at = "unlock"
  PROVE  CallOK'
  <1>1. \A u \in Thread \ {t} : InCall(u)'
    BY InCallFrame DEF Goto, TypeOK
  <1>2. InCall(t)'
    <2>1. call'[t] = [op |-> call[t].op, self |-> call[t].self, at |-> at]
      BY DEF Goto, TypeOK
    <2>2. InCall(t) /\ call[t] # Idle
      BY CallKinds DEF CallOK
    <2>3. life' = life
      OBVIOUS
    <2>4. /\ call'[t].op = call[t].op
          /\ call'[t].self = call[t].self
          /\ call'[t].at = at
      BY <2>1
    <2>5. CASE call[t].at = "write"
      BY <2>2, <2>3, <2>4, <2>5 DEF InCall, FlushSteps
    <2>6. CASE call[t].at \in FlushSteps \ {"unlock"}
      BY <2>2, <2>3, <2>4, <2>6 DEF InCall, FlushSteps
    <2> QED
      BY <2>5, <2>6
  <1> QED
    BY <1>1, <1>2 DEF CallOK

LEMMA CallStep ==
  ASSUME TypeOK, CallOK, ExclOK, [Next]_vars
  PROVE  CallOK'
  <1>1. ASSUME NEW t \in Thread, Record(t) PROVE CallOK'
    BY <1>1, InCallFrame DEF Record, CallOK
  <1>2. ASSUME NEW t \in Thread, NEW s \in Sink, Divert(t, s) PROVE CallOK'
    BY <1>2, InCallFrame DEF Divert, CallOK
  <1>3. ASSUME NEW t \in Thread, NEW f \in FileSink, MakeFileSink(t, f) PROVE CallOK'
    <2>1. \A u \in Thread : call[u] # Idle => call[u].self # f
      BY <1>3 DEF MakeFileSink, CallOK, InCall
    <2>2. \A h \in Holder \ {f} : life'[h] = life[h]
      BY <1>3 DEF MakeFileSink, TypeOK
    <2>3. \A u \in Thread : call[u] # Idle => call[u].self \in Holder
      BY CallKinds
    <2>4. call' = call
      BY <1>3 DEF MakeFileSink
    <2> QED
      BY <2>1, <2>2, <2>3, <2>4, InCallFrame DEF CallOK
  <1>4. ASSUME NEW t \in Thread, NEW c \in Cascade, NEW p \in Sink, MakeCascade(t, c, p)
        PROVE CallOK'
    <2>1. \A u \in Thread : call[u] # Idle => call[u].self # c
      BY <1>4 DEF MakeCascade, CallOK, InCall
    <2>2. \A h \in Holder \ {c} : life'[h] = life[h]
      BY <1>4 DEF MakeCascade, TypeOK
    <2>3. \A u \in Thread : call[u] # Idle => call[u].self \in Holder
      BY CallKinds
    <2>4. call' = call
      BY <1>4 DEF MakeCascade
    <2> QED
      BY <2>1, <2>2, <2>3, <2>4, InCallFrame DEF CallOK
  <1>5. ASSUME NEW t \in Thread, NEW h \in Holder, BeginFlush(t, h) PROVE CallOK'
    <2>1. \A u \in Thread \ {t} : InCall(u)'
      BY <1>5, InCallFrame DEF BeginFlush, Enter, TypeOK
    <2>2. call'[t] = [op |-> "flush", self |-> h, at |-> "lock"]
      BY <1>5 DEF BeginFlush, Enter, TypeOK
    <2>3. life[h] = "alive" /\ h \in Cascade \cup {t} /\ life' = life /\ life[t] = "alive"
      BY <1>5 DEF BeginFlush, MayFlush, Usable, Running
    <2>4. InCall(t)'
      BY <2>2, <2>3 DEF InCall, FlushSteps
    <2> QED
      BY <2>1, <2>4 DEF CallOK
  <1>6. ASSUME NEW t \in Thread, ExitThread(t) PROVE CallOK'
    <2>1. \A u \in Thread \ {t} : InCall(u)'
      <3>1. \A u \in Thread \ {t} : call[u] # Idle => call[u].self # t
        BY CallKinds
      <3> QED
        BY <1>6, <3>1, InCallFrame DEF ExitThread, Enter, TypeOK
    <2>2. call'[t] = [op |-> "destroy", self |-> t, at |-> "check"] /\ life'[t] = "dying"
      BY <1>6 DEF ExitThread, Enter, TypeOK
    <2>3. InCall(t)'
      BY <2>2 DEF InCall, FlushSteps
    <2> QED
      BY <2>1, <2>3 DEF CallOK
  <1>7. ASSUME NEW t \in Thread, NEW c \in Cascade, DestroyCascade(t, c) PROVE CallOK'
    <2>1. \A u \in Thread \ {t} : InCall(u)'
      <3>1. \A u \in Thread \ {t} : call[u] # Idle => call[u].self # c
        BY <1>7 DEF DestroyCascade, MayDestroy, Touches
      <3>2. \A h \in Holder \ {c} : life'[h] = life[h]
        BY <1>7 DEF DestroyCascade, TypeOK
      <3>3. \A u \in Thread : call[u] # Idle => call[u].self \in Holder
        BY CallKinds
      <3>4. \A u \in Thread \ {t} : call'[u] = call[u]
        BY <1>7 DEF DestroyCascade, Enter, TypeOK
      <3> QED
        BY <3>1, <3>2, <3>3, <3>4, InCallFrame
    <2>2. /\ call'[t] = [op |-> "destroy", self |-> c, at |-> "check"]
          /\ life'[c] = "dying"
          /\ life'[t] = "alive"
      BY <1>7 DEF DestroyCascade, Running, Enter, TypeOK
    <2>3. InCall(t)'
      BY <2>2 DEF InCall, FlushSteps
    <2> QED
      BY <2>1, <2>3 DEF CallOK
  <1>8. ASSUME NEW t \in Thread, NEW f \in FileSink, DestroyFileSink(t, f) PROVE CallOK'
    <2>1. \A u \in Thread \ {t} : InCall(u)'
      <3>1. \A u \in Thread \ {t} : call[u] # Idle => call[u].self # f
        BY <1>8 DEF DestroyFileSink, MayDestroy, Touches
      <3>2. \A h \in Holder \ {f} : life'[h] = life[h]
        BY <1>8 DEF DestroyFileSink, TypeOK
      <3>3. \A u \in Thread : call[u] # Idle => call[u].self \in Holder
        BY CallKinds
      <3>4. \A u \in Thread \ {t} : call'[u] = call[u]
        BY <1>8 DEF DestroyFileSink, Enter, TypeOK
      <3> QED
        BY <3>1, <3>2, <3>3, <3>4, InCallFrame
    <2>2. /\ call'[t] = [op |-> "destroy", self |-> f, at |-> "write"]
          /\ life'[f] = "dying"
          /\ life'[t] = "alive"
      BY <1>8 DEF DestroyFileSink, Running, Enter, TypeOK
    <2>3. InCall(t)'
      BY <2>2 DEF InCall
    <2> QED
      BY <2>1, <2>3 DEF CallOK
  <1>9. ASSUME NEW t \in Thread, LockSelf(t) PROVE CallOK'
    <2>1. PICK at \in {"check"} : Goto(t, at)
      BY <1>9 DEF LockSelf
    <2>2. /\ call[t].at \in FlushSteps \ {"unlock"} /\ call[t].at # "write"
          /\ at \in FlushSteps \ {"lock"} /\ life' = life
      BY <1>9 DEF LockSelf, At, FlushSteps
    <2> QED
      BY <2>1, <2>2, InCallGoto
  <1>10. ASSUME NEW t \in Thread, Check(t) PROVE CallOK'
    <2>1. PICK at \in {"lock parent", "unlock"} : Goto(t, at)
      BY <1>10 DEF Check
    <2>2. /\ call[t].at \in FlushSteps \ {"unlock"} /\ call[t].at # "write"
          /\ at \in FlushSteps \ {"lock"} /\ life' = life
      BY <1>10 DEF Check, At, FlushSteps
    <2> QED
      BY <2>1, <2>2, InCallGoto
  <1>11. ASSUME NEW t \in Thread, LockParent(t) PROVE CallOK'
    <2>1. PICK at \in {"splice"} : Goto(t, at)
      BY <1>11 DEF LockParent
    <2>2. /\ call[t].at \in FlushSteps \ {"unlock"} /\ call[t].at # "write"
          /\ at \in FlushSteps \ {"lock"} /\ life' = life
      BY <1>11 DEF LockParent, At, FlushSteps
    <2> QED
      BY <2>1, <2>2, InCallGoto
  <1>12. ASSUME NEW t \in Thread, Splice(t) PROVE CallOK'
    <2>1. PICK at \in {"unlock parent"} : Goto(t, at)
      BY <1>12 DEF Splice
    <2>2. /\ call[t].at \in FlushSteps \ {"unlock"} /\ call[t].at # "write"
          /\ at \in FlushSteps \ {"lock"} /\ life' = life
      BY <1>12 DEF Splice, At, FlushSteps
    <2> QED
      BY <2>1, <2>2, InCallGoto
  <1>13. ASSUME NEW t \in Thread, UnlockParent(t) PROVE CallOK'
    <2>1. PICK at \in {"unlock"} : Goto(t, at)
      BY <1>13 DEF UnlockParent
    <2>2. /\ call[t].at \in FlushSteps \ {"unlock"} /\ call[t].at # "write"
          /\ at \in FlushSteps \ {"lock"} /\ life' = life
      BY <1>13 DEF UnlockParent, At, FlushSteps
    <2> QED
      BY <2>1, <2>2, InCallGoto
  <1>14. ASSUME NEW t \in Thread, UnlockSelf(t) PROVE CallOK'
    <2> DEFINE s == call[t].self
    <2>0. call[t].at = "unlock" /\ call[t] # Idle /\ InCall(t)
      BY <1>14, CallKinds DEF UnlockSelf, At, FlushSteps, CallOK
    <2>1. \A u \in Thread \ {t} : InCall(u)'
      <3>1. CASE call[t].op = "flush"
        BY <1>14, <3>1, InCallFrame DEF UnlockSelf, TypeOK
      <3>2. CASE call[t].op = "destroy"
        <4>1. s \in Touches(t) /\ Destroys(t, s)
          BY <2>0, <3>2 DEF Touches, Destroys
        <4>2. \A u \in Thread \ {t} : call[u] # Idle => call[u].self # s
          BY <4>1 DEF ExclOK, Touches
        <4>3. \A u \in Thread \ {t} : u # s
          BY <2>0, CallKinds
        <4>4. \A h \in Holder \ {s} : life'[h] = life[h]
          BY <1>14, <3>2 DEF UnlockSelf, TypeOK
        <4>5. \A u \in Thread : call[u] # Idle => call[u].self \in Holder
          BY CallKinds
        <4>6. \A u \in Thread \ {t} : call'[u] = call[u]
          BY <1>14 DEF UnlockSelf, TypeOK
        <4> QED
          BY <4>2, <4>3, <4>4, <4>5, <4>6, InCallFrame
      <3> QED
        BY <1>14, <3>1, <3>2 DEF UnlockSelf
    <2>2. call'[t] = Idle
      BY <1>14 DEF UnlockSelf, TypeOK
    <2>3. life'[t] \in {"alive", "dead"}
      <3>1. CASE call[t].op = "flush"
        BY <1>14, <2>0, <3>1 DEF UnlockSelf, InCall
      <3>2. CASE call[t].op = "destroy"
        <4>1. life' = [life EXCEPT ![s] = "dead"]
          BY <1>14, <3>2 DEF UnlockSelf
        <4>2. s # t => life[t] = "alive"
          BY <2>0, <3>2 DEF InCall
        <4> QED
          BY <4>1, <4>2 DEF TypeOK
      <3> QED
        BY <1>14, <3>1, <3>2 DEF UnlockSelf
    <2>4. InCall(t)'
      BY <2>2, <2>3 DEF InCall, Idle
    <2> QED
      BY <2>1, <2>4 DEF CallOK
  <1>15. ASSUME NEW t \in Thread, WriteOut(t) PROVE CallOK'
    BY <1>15, InCallGoto DEF WriteOut, At, FlushSteps
  <1>16. CASE DestroyGlobal
    <2>1. \A t \in Thread : call[t] = Idle
      BY <1>16 DEF DestroyGlobal, CallOK, InCall
    <2> QED
      BY <1>16, <2>1, InCallFrame DEF DestroyGlobal, CallOK, TypeOK
  <1>17. CASE UNCHANGED vars
    BY <1>17, InCallFrame DEF vars, CallOK
  <1> QED
    BY <1>1, <1>2, <1>3, <1>4, <1>5, <1>6, <1>7, <1>8, <1>9, <1>10, <1>11, <1>12,
       <1>13, <1>14, <1>15, <1>16, <1>17
    DEF Next, ThreadNext, Continue, Terminated

-----------------------------------------------------------------------------
(* What a step does to the tree: it makes a cascade or leaves them alone.  *)
LEMMA CascadesStep ==
  ASSUME TypeOK, CallOK, [Next]_vars
  PROVE  \/ \E t \in Thread, c \in Cascade, p \in Sink : MakeCascade(t, c, p)
         \/ /\ UNCHANGED <<root, depth>>
            /\ \A c \in Cascade : /\ parent'[c] = parent[c]
                                  /\ life'[c] = "unborn" <=> life[c] = "unborn"
  <1> DEFINE Kept == /\ UNCHANGED <<root, depth>>
                     /\ \A c \in Cascade : /\ parent'[c] = parent[c]
                                           /\ life'[c] = "unborn" <=> life[c] = "unborn"
  <1>1. ASSUME NEW t \in Thread, Record(t) PROVE Kept
    BY <1>1 DEF Record
  <1>2. ASSUME NEW t \in Thread, NEW s \in Sink, Divert(t, s) PROVE Kept
    BY <1>2 DEF Divert, TypeOK
  <1>3. ASSUME NEW t \in Thread, NEW f \in FileSink, MakeFileSink(t, f) PROVE Kept
    BY <1>3 DEF MakeFileSink, TypeOK
  <1>5. ASSUME NEW t \in Thread, NEW h \in Holder, BeginFlush(t, h) PROVE Kept
    BY <1>5 DEF BeginFlush, Enter
  <1>6. ASSUME NEW t \in Thread, ExitThread(t) PROVE Kept
    BY <1>6 DEF ExitThread, Enter, TypeOK
  <1>7. ASSUME NEW t \in Thread, NEW c \in Cascade, DestroyCascade(t, c) PROVE Kept
    BY <1>7 DEF DestroyCascade, MayDestroy, Enter, TypeOK
  <1>8. ASSUME NEW t \in Thread, NEW f \in FileSink, DestroyFileSink(t, f) PROVE Kept
    BY <1>8 DEF DestroyFileSink, Enter, TypeOK
  <1>9. ASSUME NEW t \in Thread,
               LockSelf(t) \/ Check(t) \/ LockParent(t) \/ Splice(t) \/ UnlockParent(t)
                 \/ WriteOut(t)
        PROVE Kept
    BY <1>9 DEF LockSelf, Check, LockParent, Splice, UnlockParent, WriteOut
  <1>10. ASSUME NEW t \in Thread, UnlockSelf(t) PROVE Kept
    <2>1. call[t].op = "destroy" => life[call[t].self] = "dying"
      BY <1>10, CallKinds DEF UnlockSelf, At, FlushSteps
    <2>2. CASE call[t].op = "destroy"
      <3>1. \A h \in Holder : life'[h] = IF h = call[t].self THEN "dead" ELSE life[h]
        BY <1>10, <2>2 DEF UnlockSelf, TypeOK
      <3> QED
        BY <1>10, <2>1, <2>2, <3>1 DEF UnlockSelf
    <2>3. CASE call[t].op # "destroy"
      BY <1>10, <2>3 DEF UnlockSelf
    <2> QED
      BY <2>2, <2>3
  <1>11. CASE DestroyGlobal
    BY <1>11 DEF DestroyGlobal, TypeOK
  <1>12. CASE UNCHANGED vars
    BY <1>12 DEF vars
  <1> QED
    BY <1>1, <1>2, <1>3, <1>5, <1>6, <1>7, <1>8, <1>9, <1>10, <1>11, <1>12
    DEF Next, ThreadNext, Continue, Terminated

(* Nothing is ever unborn again. *)
LEMMA BornStep ==
  ASSUME TypeOK, [Next]_vars, NEW h \in Holder, life[h] # "unborn"
  PROVE  life'[h] # "unborn"
  <1>1. ASSUME NEW k, NEW l \in {"alive", "dying", "dead"},
               life' = [life EXCEPT ![k] = l]
        PROVE  life'[h] # "unborn"
    BY <1>1 DEF TypeOK
  <1>2. CASE life' = life
    BY <1>2
  <1>3. \/ life' = life
        \/ \E k : \E l \in {"alive", "dying", "dead"} : life' = [life EXCEPT ![k] = l]
    BY DEF Next, ThreadNext, vars, Record, Divert, MakeFileSink, MakeCascade, BeginFlush, ExitThread,
      DestroyCascade, DestroyFileSink, Continue, LockSelf, Check, LockParent, Splice,
      UnlockParent, UnlockSelf, WriteOut, DestroyGlobal, Terminated
  <1> QED
    BY <1>1, <1>2, <1>3

LEMMA TreeStep ==
  ASSUME TypeOK, CallOK, TreeOK, [Next]_vars
  PROVE  TreeOK'
  <1> SUFFICES ASSUME NEW c \in Cascade, life'[c] # "unborn"
               PROVE  life'[parent'[c]] # "unborn" /\ depth'[c] = depth'[parent'[c]] + 1
    BY DEF TreeOK
  <1>1. ASSUME NEW t \in Thread, NEW d \in Cascade, NEW p \in Sink, MakeCascade(t, d, p)
        PROVE  life'[parent'[c]] # "unborn" /\ depth'[c] = depth'[parent'[c]] + 1
    <2>1. /\ parent'[d] = p /\ depth'[d] = depth[p] + 1 /\ p # d
          /\ life[d] = "unborn" /\ life[p] # "unborn"
          /\ \A h \in Sink \ {d} : life'[h] = life[h] /\ depth'[h] = depth[h]
          /\ \A h \in Cascade \ {d} : parent'[h] = parent[h]
      BY <1>1 DEF MakeCascade, TypeOK
    <2>2. CASE c = d
      BY <2>1, <2>2
    <2>3. CASE c # d
      <3>1. parent[c] \in Sink /\ life[parent[c]] # "unborn" /\ depth[c] = depth[parent[c]] + 1
        BY <2>1, <2>3 DEF TreeOK, TypeOK
      <3> QED
        BY <2>1, <2>3, <3>1
    <2> QED
      BY <2>2, <2>3
  <1>2. ASSUME depth' = depth, parent'[c] = parent[c], life'[c] = "unborn" <=> life[c] = "unborn"
        PROVE  life'[parent'[c]] # "unborn" /\ depth'[c] = depth'[parent'[c]] + 1
    BY <1>2, BornStep DEF TreeOK, TypeOK
  <1> QED
    BY <1>1, <1>2, CascadesStep

-----------------------------------------------------------------------------
(* A sink stops being alive only when nobody needs it any more. *)
LEMMA ParentsStayAlive ==
  ASSUME TypeOK, CallOK, LiveOK, [Next]_vars, NEW s \in Sink,
         life[s] = "alive", life'[s] # "alive"
  PROVE  /\ \A c \in Cascade : life[c] \in {"alive", "dying"} => parent[c] # s
         /\ \A u \in Thread : /\ parent[u] = s /\ life[u] # "dead" => events[u] = <<>>
                              /\ At(u, "unlock parent") => parent[call[u].self] # s
         /\ UNCHANGED <<events, parent>> \/ s = Global
  <1>1. \/ \E t \in Thread : \/ s \in Cascade /\ DestroyCascade(t, s)
                             \/ s \in FileSink /\ DestroyFileSink(t, s)
        \/ s = Global /\ DestroyGlobal
    <2>1. ASSUME NEW t \in Thread, UnlockSelf(t) PROVE FALSE
      <3>1. call[t].op = "destroy" => life[call[t].self] = "dying"
        BY <2>1, CallKinds DEF UnlockSelf, At, FlushSteps
      <3> QED
        BY <2>1, <3>1 DEF UnlockSelf, TypeOK
    <2>2. ASSUME NEW t \in Thread, ExitThread(t) PROVE FALSE
      BY <2>2 DEF ExitThread, TypeOK
    <2>3. ASSUME NEW t \in Thread, NEW h \in Sink,
                 MakeFileSink(t, h) \/ (\E p \in Sink : MakeCascade(t, h, p))
          PROVE FALSE
      BY <2>3 DEF MakeFileSink, MakeCascade, TypeOK
    <2>4. ASSUME life' = life PROVE FALSE
      BY <2>4
    <2>5. ASSUME NEW t \in Thread, NEW c \in Cascade, DestroyCascade(t, c) PROVE c = s
      BY <2>5 DEF DestroyCascade, TypeOK
    <2>6. ASSUME NEW t \in Thread, NEW f \in FileSink, DestroyFileSink(t, f) PROVE f = s
      BY <2>6 DEF DestroyFileSink, TypeOK
    <2>7. ASSUME DestroyGlobal PROVE s = Global
      BY <2>7 DEF DestroyGlobal, TypeOK
    <2>8. life' = life \/ (\E t \in Thread :
            \/ UnlockSelf(t) \/ ExitThread(t)
            \/ \E h \in Sink : MakeFileSink(t, h) \/ (\E p \in Sink : MakeCascade(t, h, p))
            \/ \E c \in Cascade : DestroyCascade(t, c)
            \/ \E f \in FileSink : DestroyFileSink(t, f)) \/ DestroyGlobal
      BY DEF Next, ThreadNext, vars, Record, Divert, BeginFlush, Continue, LockSelf, Check, LockParent,
        Splice, UnlockParent, WriteOut, Terminated
    <2> QED
      BY <2>1, <2>2, <2>3, <2>4, <2>5, <2>6, <2>7, <2>8
  <1>2. ASSUME NEW t \in Thread, MayDestroy(t, s)
        PROVE  /\ \A c \in Cascade : life[c] \in {"alive", "dying"} => parent[c] # s
               /\ \A u \in Thread : /\ parent[u] = s => events[u] = <<>>
                                    /\ At(u, "unlock parent") => parent[call[u].self] # s
    <2>1. ASSUME NEW u \in Thread, At(u, "unlock parent") PROVE parent[call[u].self] # s
      <3>1. call[u] # Idle /\ call[u].self \in Cascade \cup {u}
        BY <2>1, CallKinds DEF At, FlushSteps
      <3>2. parent[call[u].self] \in Touches(u)
        BY <2>1, <3>1 DEF Touches, NeedsParent
      <3> QED
        BY <1>2, <3>2 DEF MayDestroy
    <2> QED
      BY <1>2, <2>1 DEF MayDestroy
  <1>3. ASSUME NEW t \in Thread,
               DestroyCascade(t, s) \/ DestroyFileSink(t, s)
        PROVE  MayDestroy(t, s) /\ UNCHANGED <<events, parent>>
    BY <1>3 DEF DestroyCascade, DestroyFileSink, Enter
  <1>4. CASE s = Global /\ DestroyGlobal
    <2>1. \A t \in Thread : life[t] = "dead" /\ call[t] = Idle
      BY <1>4 DEF DestroyGlobal, CallOK, InCall
    <2>2. \A c \in Cascade : life[c] \in {"unborn", "dead"}
      BY <2>1 DEF LiveOK
    <2> QED
      <3>1. \A u \in Thread : ~At(u, "unlock parent")
        BY <2>1, CallKinds DEF At, FlushSteps
      <3>2. \A c \in Cascade : ~(life[c] \in {"alive", "dying"})
        BY <2>2
      <3>3. \A u \in Thread : ~(parent[u] = s /\ life[u] # "dead")
        BY <2>1
      <3> QED
        BY <1>4, <3>1, <3>2, <3>3
  <1> QED
    BY <1>1, <1>2, <1>3, <1>4

LEMMA DeadStays ==
  ASSUME TypeOK, CallOK, [Next]_vars, NEW h \in Holder, life[h] = "dead"
  PROVE  life'[h] = "dead"
  <1>1. ASSUME NEW t \in Thread, UnlockSelf(t) PROVE life'[h] = "dead"
    BY <1>1 DEF UnlockSelf, TypeOK
  <1>2. ASSUME NEW k, life[k] # "dead", NEW l, life' = [life EXCEPT ![k] = l]
        PROVE  life'[h] = "dead"
    BY <1>2 DEF TypeOK
  <1>3. CASE DestroyGlobal
    BY <1>3 DEF DestroyGlobal, TypeOK
  <1>4. \/ life' = life
        \/ \E k, l : life[k] # "dead" /\ life' = [life EXCEPT ![k] = l]
        \/ \E t \in Thread : UnlockSelf(t)
        \/ DestroyGlobal
    BY DEF Next, ThreadNext, vars, Record, Divert, MakeFileSink, MakeCascade, BeginFlush,
      ExitThread, DestroyCascade, DestroyFileSink, MayDestroy, Running, Continue, LockSelf,
      Check, LockParent, Splice, UnlockParent, WriteOut, Terminated
  <1> QED
    BY <1>1, <1>2, <1>3, <1>4

(* A thread's call, its collector and the sink its call works on are its own *)
(* business: no step of another thread touches them.                         *)
Undisturbed(u) ==
  /\ call'[u] = call[u]
  /\ parent'[u] = parent[u]
  /\ events'[u] = events[u]
  /\ call[u] # Idle /\ call[u].self \in Cascade => parent'[call[u].self] = parent[call[u].self]

LEMMA OneThreadMoves ==
  ASSUME TypeOK, CallOK, LiveOK, NEW t \in Thread, NEW u \in Thread \ {t}, ThreadNext(t)
  PROVE  Undisturbed(u)
  <1>1. CASE Record(t)
    BY <1>1 DEF Record, Undisturbed, TypeOK
  <1>2. ASSUME NEW s \in Sink, Divert(t, s) PROVE Undisturbed(u)
    <2>1. parent' = [parent EXCEPT ![t] = s] /\ UNCHANGED <<call, events>>
      BY <1>2 DEF Divert
    <2>2. \A h \in (Thread \cup Cascade) \ {t} : parent'[h] = parent[h]
      BY <2>1 DEF TypeOK
    <2> QED
      BY <2>1, <2>2 DEF Undisturbed
  <1>3. ASSUME NEW f \in FileSink, MakeFileSink(t, f) PROVE Undisturbed(u)
    BY <1>3 DEF MakeFileSink, Undisturbed
  <1>4. ASSUME NEW c \in Cascade, NEW p \in Sink, MakeCascade(t, c, p) PROVE Undisturbed(u)
    <2>1. life[c] = "unborn" /\ UNCHANGED <<call, events>>
      BY <1>4 DEF MakeCascade
    <2>2. \A h \in (Thread \cup Cascade) \ {c} : parent'[h] = parent[h]
      BY <1>4 DEF MakeCascade, TypeOK
    <2>3. call[u] # Idle => call[u].self # c
      BY <2>1 DEF CallOK, InCall
    <2> QED
      BY <2>1, <2>2, <2>3 DEF Undisturbed
  <1>5. ASSUME NEW h \in Holder, BeginFlush(t, h) PROVE Undisturbed(u)
    BY <1>5 DEF BeginFlush, Enter, Undisturbed, TypeOK
  <1>6. CASE ExitThread(t)
    BY <1>6 DEF ExitThread, Enter, Undisturbed, TypeOK
  <1>7. ASSUME NEW c \in Cascade, DestroyCascade(t, c) PROVE Undisturbed(u)
    BY <1>7 DEF DestroyCascade, Enter, Undisturbed, TypeOK
  <1>8. ASSUME NEW f \in FileSink, DestroyFileSink(t, f) PROVE Undisturbed(u)
    BY <1>8 DEF DestroyFileSink, Enter, Undisturbed, TypeOK
  <1>9. CASE LockSelf(t) \/ Check(t) \/ LockParent(t) \/ UnlockParent(t)
    BY <1>9 DEF LockSelf, Check, LockParent, UnlockParent, Goto, Undisturbed, TypeOK
  <1>10. CASE UnlockSelf(t)
    BY <1>10 DEF UnlockSelf, Undisturbed, TypeOK
  <1>11. CASE Splice(t)
    <2>1. call[t].self \in Cascade \cup {t} /\ life[call[t].self] # "unborn"
      BY <1>11, CallKinds DEF Splice, At, FlushSteps, LiveOK, LiveThread
    <2>2. parent[call[t].self] \in Sink
      BY <2>1 DEF TypeOK
    <2>3. events'[u] = events[u]
      <3>1. events' = [events EXCEPT
              ![parent[call[t].self]] = @ \o events[call[t].self], ![call[t].self] = <<>>]
        BY <1>11 DEF Splice
      <3>2. u # call[t].self /\ u # parent[call[t].self]
        BY <2>1, <2>2
      <3> QED
        BY <3>1, <3>2 DEF TypeOK
    <2> QED
      BY <1>11, <2>3 DEF Splice, Goto, Undisturbed, TypeOK
  <1>12. CASE WriteOut(t)
    <2>1. call[t].self \in FileSink
      BY <1>12, CallKinds DEF WriteOut, At
    <2> QED
      BY <1>12, <2>1 DEF WriteOut, WrittenOut, Goto, Undisturbed, TypeOK
  <1> QED
    BY <1>1, <1>2, <1>3, <1>4, <1>5, <1>6, <1>7, <1>8, <1>9, <1>10, <1>11, <1>12
    DEF ThreadNext, Continue

LEMMA OthersLeaveAlone ==
  ASSUME TypeOK, CallOK, LiveOK, [Next]_vars
  PROVE  \/ \A u \in Thread : Undisturbed(u)
         \/ \E t \in Thread : ThreadNext(t) /\ \A u \in Thread \ {t} : Undisturbed(u)
  <1>1. ASSUME NEW t \in Thread, NEW u \in Thread \ {t}, ThreadNext(t) PROVE Undisturbed(u)
    BY <1>1, OneThreadMoves
  <1>2. ASSUME NEW u \in Thread, DestroyGlobal PROVE Undisturbed(u)
    BY <1>2 DEF DestroyGlobal, WrittenOut, Undisturbed, TypeOK
  <1>3. ASSUME NEW u \in Thread, UNCHANGED vars PROVE Undisturbed(u)
    BY <1>3 DEF vars, Undisturbed
  <1> QED
    BY <1>1, <1>2, <1>3 DEF Next, Terminated

LEMMA LiveStep ==
  ASSUME TypeOK, CallOK, TreeOK, LiveOK, [Next]_vars
  PROVE  LiveOK'
  <1>1. ASSUME NEW c \in Cascade, life'[c] \in {"alive", "dying"}
        PROVE  life'[parent'[c]] = "alive"
    <2>1. ASSUME NEW t \in Thread, NEW d \in Cascade, NEW p \in Sink, MakeCascade(t, d, p)
          PROVE  life'[parent'[c]] = "alive"
      <3>1. /\ parent' = [parent EXCEPT ![d] = p] /\ life' = [life EXCEPT ![d] = "alive"]
            /\ life[d] = "unborn" /\ life[p] = "alive"
        BY <2>1 DEF MakeCascade
      <3>2. CASE c = d
        BY <3>1, <3>2 DEF TypeOK
      <3>3. CASE c # d
        <4>1. life[parent[c]] = "alive" /\ parent'[c] = parent[c] /\ parent[c] \in Sink
          BY <1>1, <3>1, <3>3 DEF LiveOK, TypeOK
        <4> QED
          BY <3>1, <4>1 DEF TypeOK
      <3> QED
        BY <3>2, <3>3
    <2>2. ASSUME parent'[c] = parent[c], life'[c] = "unborn" <=> life[c] = "unborn"
          PROVE  life'[parent'[c]] = "alive"
      <3>1. life[c] \in {"alive", "dying"}
        BY <1>1, <2>2, DeadStays DEF TypeOK
      <3>2. life[parent[c]] = "alive" /\ parent[c] \in Sink
        BY <3>1 DEF LiveOK, TypeOK
      <3> QED
        BY <2>2, <3>1, <3>2, ParentsStayAlive
    <2> QED
      BY <2>1, <2>2, CascadesStep
  <1>2. ASSUME NEW u \in Thread PROVE LiveThread(u)'
    <2> USE DEF LiveThread
    <2>1. life'[u] # "unborn"
      BY BornStep DEF LiveOK
    <2>2. parent[u] \in Sink /\ life[parent[u]] # "unborn"
      BY DEF LiveOK, TypeOK
    <2>3. ASSUME parent'[u] = parent[u], events[u] # <<>>, life'[u] # "dead"
          PROVE  life'[parent'[u]] = "alive"
      <3>1. life[u] # "dead" /\ life[parent[u]] = "alive"
        BY <2>3, DeadStays DEF LiveOK
      <3> QED
        BY <2>2, <2>3, <3>1, ParentsStayAlive
    <2>4. CASE Undisturbed(u)
      <3>1. life'[parent'[u]] # "unborn"
        BY <2>2, <2>4, BornStep DEF Undisturbed
      <3>2. ASSUME call'[u].at = "unlock parent" PROVE life'[parent'[call'[u].self]] = "alive"
        <4>1. call[u] # Idle /\ call[u].self \in Cascade \cup {u} /\ call'[u] = call[u]
          BY <2>4, <3>2, CallKinds DEF Undisturbed, FlushSteps
        <4>2. life[parent[call[u].self]] = "alive"
          BY <3>2, <4>1 DEF LiveOK, At
        <4>3. parent'[call[u].self] = parent[call[u].self]
          BY <2>4, <4>1 DEF Undisturbed
        <4>4. parent[call[u].self] \in Sink
          <5>1. life[call[u].self] # "unborn"
            BY <3>2, <4>1, CallKinds DEF FlushSteps
          <5> QED
            BY <4>1, <5>1 DEF TypeOK
        <4> QED
          BY <3>2, <4>1, <4>2, <4>3, <4>4, ParentsStayAlive DEF At
      <3> QED
        BY <2>1, <2>3, <2>4, <3>1, <3>2 DEF Undisturbed, LiveOK, At
    <2>5. CASE ThreadNext(u)
      <3>1. CASE Record(u)
        <4>1. call'[u] = Idle /\ life' = life /\ parent' = parent /\ life[parent[u]] = "alive"
          BY <3>1 DEF Record, Running
        <4> QED
          BY <2>1, <4>1 DEF At, Idle
      <3>2. ASSUME NEW s \in Sink, Divert(u, s) PROVE LiveThread(u)'
        <4>1. parent'[u] = s /\ life[s] = "alive" /\ life' = life /\ call'[u] = Idle
          BY <3>2 DEF Divert, Running, TypeOK
        <4> QED
          BY <2>1, <4>1 DEF At, Idle
      <3>3. CASE Splice(u)
        <4>1. call[u].at = "splice" /\ life' = life /\ parent' = parent
          BY <3>3 DEF Splice, At
        <4>2. call[u].self \in Cascade \cup {u} /\ life[call[u].self] \in {"alive", "dying"}
          BY <4>1, CallKinds DEF FlushSteps
        <4>3. life[parent[call[u].self]] = "alive" /\ parent[call[u].self] \in Sink
          <5>1. CASE call[u].self \in Cascade
            BY <4>2, <5>1 DEF LiveOK, TypeOK
          <5>2. CASE call[u].self = u
            <6>1. events[u] # <<>> /\ life[u] \in {"alive", "dying"}
              BY <4>1, <4>2, <5>2 DEF LiveOK
            <6>2. life[parent[u]] = "alive" /\ parent[u] \in Sink
              BY <6>1 DEF LiveOK, TypeOK
            <6> QED
              BY <5>2, <6>2
          <5> QED
            BY <4>2, <5>1, <5>2
        <4>4. events'[u] # <<>> => events[u] # <<>>
          <5>1. events' = [events EXCEPT
                  ![parent[call[u].self]] = @ \o events[call[u].self],
                  ![call[u].self] = <<>>]
            BY <3>3 DEF Splice
          <5>2. u # parent[call[u].self]
            BY <4>3
          <5> QED
            BY <5>1, <5>2 DEF TypeOK
        <4>5. call'[u].at = "unlock parent" /\ call'[u].self = call[u].self
          BY <3>3 DEF Splice, Goto, TypeOK
        <4> QED
          BY <2>1, <2>2, <4>1, <4>3, <4>4, <4>5 DEF LiveOK, At
      <3>4. ASSUME events'[u] = events[u], parent'[u] = parent[u], ~At(u, "unlock parent")',
                   call'[u].at \in {"lock parent", "splice"} /\ call'[u].self = u =>
                     events[u] # <<>>
            PROVE  LiveThread(u)'
        BY <2>1, <2>2, <2>3, <3>4, BornStep
      <3>6. CASE Check(u)
        <4>0. PICK at \in {"lock parent", "unlock"} :
                Goto(u, at) /\ (at = "lock parent" => events[call[u].self] # <<>>)
          BY <3>6 DEF Check
        <4>1. call'[u].self = call[u].self /\ call'[u].at = at
          BY <4>0 DEF Goto, TypeOK
        <4>2. events'[u] = events[u] /\ parent'[u] = parent[u]
          BY <3>6 DEF Check
        <4>3. call'[u].at = "lock parent" => events[call[u].self] # <<>>
          BY <4>0, <4>1
        <4> QED
          BY <3>4, <4>1, <4>2, <4>3 DEF At
      <3>7. CASE LockParent(u)
        <4>1. call'[u].self = call[u].self /\ call'[u].at = "splice" /\ call[u].at = "lock parent"
          BY <3>7 DEF LockParent, Goto, At, TypeOK
        <4>2. events'[u] = events[u] /\ parent'[u] = parent[u]
          BY <3>7 DEF LockParent
        <4> QED
          BY <3>4, <4>1, <4>2 DEF At, LiveOK
      <3>8. CASE LockSelf(u) \/ UnlockParent(u)
        <4>1. call'[u].at \in {"check", "unlock"}
          <5>1. PICK at \in {"check", "unlock"} : Goto(u, at)
            BY <3>8 DEF LockSelf, UnlockParent
          <5> QED
            BY <5>1 DEF Goto, TypeOK
        <4>2. events'[u] = events[u] /\ parent'[u] = parent[u]
          BY <3>8 DEF LockSelf, UnlockParent
        <4> QED
          BY <3>4, <4>1, <4>2 DEF At
      <3>9. CASE UnlockSelf(u)
        <4>1. call'[u].at = "idle" /\ events'[u] = events[u] /\ parent'[u] = parent[u]
          BY <3>9 DEF UnlockSelf, Idle, TypeOK
        <4> QED
          BY <3>4, <4>1 DEF At
      <3>10. CASE WriteOut(u)
        <4>1. call'[u].at = "unlock" /\ parent'[u] = parent[u]
          BY <3>10 DEF WriteOut, Goto, TypeOK
        <4>2. call[u].self \in FileSink
          BY <3>10, CallKinds DEF WriteOut, At
        <4>3. events'[u] = events[u]
          BY <3>10, <4>2 DEF WriteOut, WrittenOut, TypeOK
        <4> QED
          BY <3>4, <4>1, <4>3 DEF At
      <3>11. ASSUME NEW h \in Holder, BeginFlush(u, h) PROVE LiveThread(u)'
        <4>1. call'[u].at = "lock" /\ events'[u] = events[u] /\ parent'[u] = parent[u]
          BY <3>11 DEF BeginFlush, Enter, TypeOK
        <4> QED
          BY <3>4, <4>1 DEF At
      <3>12. ASSUME ExitThread(u) \/ (\E c \in Cascade : DestroyCascade(u, c))
                      \/ (\E f \in FileSink : DestroyFileSink(u, f))
             PROVE  LiveThread(u)'
        <4>1. /\ call'[u].at \in {"check", "write"}
              /\ events'[u] = events[u] /\ parent'[u] = parent[u]
          BY <3>12 DEF ExitThread, DestroyCascade, DestroyFileSink, Enter, TypeOK
        <4> QED
          BY <3>4, <4>1 DEF At
      <3>13. ASSUME (\E f \in FileSink : MakeFileSink(u, f))
                      \/ (\E c \in Cascade, p \in Sink : MakeCascade(u, c, p))
             PROVE  LiveThread(u)'
        <4>1. call'[u] = Idle /\ events'[u] = events[u]
          BY <3>13 DEF MakeFileSink, MakeCascade, Running
        <4>2. parent'[u] = parent[u]
          BY <3>13 DEF MakeFileSink, MakeCascade, TypeOK
        <4> QED
          BY <3>4, <4>1, <4>2 DEF At, Idle
      <3> QED
        BY <2>5, <3>1, <3>2, <3>3, <3>6, <3>7, <3>8, <3>9, <3>10, <3>11, <3>12, <3>13
        DEF ThreadNext, Continue
    <2> QED
      BY <2>4, <2>5, OthersLeaveAlone
  <1>3. \/ \E t \in Thread : life'[t] = "alive"
        \/ \A s \in Sink \ {Global} : life'[s] \in {"unborn", "dead"}
    <2>1. ASSUME NEW t \in Thread, Running(t), life' = life
                   \/ (\E h \in Sink, l \in {"alive", "dying"} : life' = [life EXCEPT ![h] = l])
          PROVE  life'[t] = "alive"
      BY <2>1 DEF Running, TypeOK
    <2>2. ASSUME NEW t \in Thread, ExitThread(t)
          PROVE  \/ \E u \in Thread : life'[u] = "alive"
                 \/ \A s \in Sink \ {Global} : life'[s] \in {"unborn", "dead"}
      BY <2>2 DEF ExitThread, MayExit, TypeOK
    <2>3. ASSUME NEW t \in Thread, UnlockSelf(t)
          PROVE  \/ \E u \in Thread : life'[u] = "alive"
                 \/ \A s \in Sink \ {Global} : life'[s] \in {"unborn", "dead"}
      <3>1. call[t].op = "destroy" => life[call[t].self] = "dying"
        BY <2>3, CallKinds DEF UnlockSelf, At, FlushSteps
      <3> QED
        BY <2>3, <3>1 DEF UnlockSelf, LiveOK, TypeOK
    <2>4. CASE DestroyGlobal
      BY <2>4 DEF DestroyGlobal, LiveOK, TypeOK
    <2>5. CASE life' = life
      BY <2>5 DEF LiveOK
    <2>6. \/ \E t \in Thread : Running(t)
               /\ \E h \in Sink, l \in {"alive", "dying"} : life' = [life EXCEPT ![h] = l]
          \/ \E t \in Thread : ExitThread(t) \/ UnlockSelf(t)
          \/ DestroyGlobal
          \/ life' = life
      BY DEF Next, ThreadNext, vars, Record, Divert, MakeFileSink, MakeCascade, BeginFlush,
        DestroyCascade, DestroyFileSink, Continue, LockSelf, Check, LockParent, Splice,
        UnlockParent, WriteOut, Terminated
    <2> QED
      BY <2>1, <2>2, <2>3, <2>4, <2>5, <2>6
  <1> QED
    BY <1>1, <1>2, <1>3 DEF LiveOK

-----------------------------------------------------------------------------
LEMMA TouchesFrame ==
  ASSUME TypeOK, CallOK, NEW u \in Thread, Undisturbed(u)
  PROVE  /\ Touches(u)' = Touches(u)
         /\ \A s : Destroys(u, s)' <=> Destroys(u, s)
         /\ \A s : Holds(u, s)' <=> Holds(u, s)
  <1>1. call'[u] = call[u] /\ parent'[u] = parent[u] /\ events'[u] = events[u]
    BY DEF Undisturbed
  <1>2. call[u] # Idle => call[u].self \in Sink \cup {u}
    BY CallKinds
  <1>3. call[u].at \in {"splice", "unlock parent"} =>
          call[u] # Idle /\ call[u].self \in Cascade \cup {u}
    BY CallKinds DEF FlushSteps
  <1>4. call[u] # Idle /\ call[u].self \in Cascade \cup {u} =>
          parent'[call[u].self] = parent[call[u].self]
    BY <1>1 DEF Undisturbed
  <1>5. call[u] # Idle /\ call[u].self \in Thread => call[u].self = u
    BY <1>2
  <1>6. Touches(u)' = Touches(u)
    <2>1. call[u] # Idle => (NeedsParent(u)' <=> NeedsParent(u))
      BY <1>1, <1>5 DEF NeedsParent, At
    <2>2. call[u] # Idle /\ NeedsParent(u) => call[u].self \in Cascade \cup {u}
      BY <1>5 DEF NeedsParent
    <2> QED
      BY <1>1, <1>4, <2>1, <2>2 DEF Touches, Idle
  <1>7. \A s : Destroys(u, s)' <=> Destroys(u, s)
    BY <1>1 DEF Destroys
  <1>8. \A s : Holds(u, s)' <=> Holds(u, s)
    BY <1>1, <1>3, <1>4 DEF Holds
  <1> QED
    BY <1>6, <1>7, <1>8

(* A thread that goes on with its call does not touch more than before. *)
LEMMA GotoTouches ==
  ASSUME TypeOK, CallOK, LiveOK, NEW t \in Thread, NEW at, Goto(t, at), call[t] # Idle,
         parent' = parent, call[t].self \in Thread => events[t] # <<>> \/ events'[t] = <<>>,
         at = "unlock parent" => At(t, "splice"), at # "idle"
  PROVE  /\ Touches(t)' \subseteq Touches(t)
         /\ \A s : Destroys(t, s)' => Destroys(t, s)
  <1>1. /\ call'[t].op = call[t].op /\ call'[t].self = call[t].self /\ call'[t].at = at
    BY DEF Goto, TypeOK
  <1>2. call[t].self \in Thread => call[t].self = t
    BY CallKinds
  <1>3. NeedsParent(t)' => NeedsParent(t)
    BY <1>1, <1>2 DEF NeedsParent, At, LiveOK, LiveThread
  <1> QED
    BY <1>1, <1>3 DEF Touches, Destroys

(* The sinks a call accesses are sinks, and its own thread. *)
LEMMA TouchesSinks ==
  ASSUME TypeOK, CallOK, LiveOK, NEW u \in Thread
  PROVE  Touches(u) \subseteq Sink \cup {u}
  <1>1. call[u] # Idle => call[u].self \in Sink \cup {u}
    BY CallKinds
  <1>2. NeedsParent(u) /\ call[u] # Idle =>
          call[u].self \in Cascade \cup {u} /\ life[call[u].self] # "unborn"
    BY <1>1 DEF NeedsParent, CallOK, InCall, LiveOK, LiveThread
  <1>3. NeedsParent(u) /\ call[u] # Idle => parent[call[u].self] \in Sink
    BY <1>2 DEF TypeOK
  <1> QED
    BY <1>1, <1>3 DEF Touches

(* What a thread may use is alive, and shared only if it is thread safe. *)
LEMMA UsableShared ==
  ASSUME CallOK, NEW t \in Thread, NEW s, Usable(t, s), NEW u \in Thread \ {t},
         s \in Touches(u)
  PROVE  s \in ThreadSafe /\ ~Destroys(u, s)
  <1>1. call[u] # Idle
    BY DEF Touches
  <1>2. call[u].op = "destroy" => life[call[u].self] = "dying"
    BY <1>1 DEF CallOK, InCall
  <1> QED
    BY <1>2 DEF Usable, Destroys

LEMMA OwnTouches ==
  ASSUME TypeOK, CallOK, LiveOK, NEW t \in Thread, ThreadNext(t)
  PROVE  \/ /\ Touches(t)' \subseteq Touches(t)
            /\ \A s : Destroys(t, s)' => Destroys(t, s)
         \/ \A u \in Thread \ {t} : \A s \in Touches(t)' :
              s \in Touches(u) => s \in ThreadSafe /\ ~Destroys(u, s) /\ ~Destroys(t, s)'
  <1> DEFINE Less == /\ Touches(t)' \subseteq Touches(t)
                     /\ \A s : Destroys(t, s)' => Destroys(t, s)
             Fresh == \A u \in Thread \ {t} : \A s \in Touches(t)' :
              s \in Touches(u) => s \in ThreadSafe /\ ~Destroys(u, s) /\ ~Destroys(t, s)'
  <1>1. ASSUME call'[t] = Idle PROVE Less
    BY <1>1 DEF Touches, Destroys, Idle
  <1>2. ASSUME NEW h \in Cascade \cup {t}, BeginFlush(t, h) PROVE Fresh
    <2>1. call'[t] = [op |-> "flush", self |-> h, at |-> "lock"] /\ parent' = parent
          /\ events' = events
      BY <1>2 DEF BeginFlush, Enter, TypeOK
    <2>2. \A s \in Touches(t)' : s = t \/ Usable(t, s)
      BY <1>2, <2>1 DEF BeginFlush, MayFlush, Touches, NeedsParent, At
    <2>3. \A u \in Thread \ {t} : t \notin Touches(u)
      BY TouchesSinks
    <2>4. \A s : ~Destroys(t, s)'
      BY <2>1 DEF Destroys
    <2> QED
      BY <2>2, <2>3, <2>4, UsableShared
  <1>3. ASSUME ExitThread(t) PROVE Fresh
    <2>1. call'[t] = [op |-> "destroy", self |-> t, at |-> "check"] /\ parent' = parent
          /\ events' = events
      BY <1>3 DEF ExitThread, Enter, TypeOK
    <2>2. \A s \in Touches(t)' : s = t \/ (Usable(t, s) /\ ~Destroys(t, s)')
      <3>0. life[t] # "unborn"
        BY DEF LiveOK, LiveThread
      <3>1. parent[t] # t
        BY <3>0 DEF TypeOK
      <3> QED
        BY <1>3, <2>1, <3>1 DEF ExitThread, MayExit, MayFlush, Touches, NeedsParent, At, Destroys
    <2>3. \A u \in Thread \ {t} : t \notin Touches(u)
      BY TouchesSinks
    <2> QED
      BY <2>2, <2>3, UsableShared
  <1>4. ASSUME NEW c \in Cascade, DestroyCascade(t, c) PROVE Fresh
    <2>1. call'[t] = [op |-> "destroy", self |-> c, at |-> "check"] /\ parent' = parent
          /\ events' = events
      BY <1>4 DEF DestroyCascade, Enter, TypeOK
    <2>2. \A s \in Touches(t)' : s = c \/ (Usable(t, s) /\ ~Destroys(t, s)')
      <3>1. Usable(t, parent[c]) /\ parent[c] # c
        BY <1>4 DEF DestroyCascade, MayDestroy
      <3>2. Touches(t)' \subseteq {c, parent[c]}
        BY <2>1 DEF Touches
      <3>3. \A s : s = parent[c] => ~Destroys(t, s)'
        BY <2>1, <3>1 DEF Destroys
      <3> QED
        BY <3>1, <3>2, <3>3
    <2>3. \A u \in Thread \ {t} : c \notin Touches(u)
      BY <1>4 DEF DestroyCascade, MayDestroy
    <2> QED
      BY <2>2, <2>3, UsableShared
  <1>5. ASSUME NEW f \in FileSink, DestroyFileSink(t, f) PROVE Fresh
    <2>1. call'[t] = [op |-> "destroy", self |-> f, at |-> "write"]
      BY <1>5 DEF DestroyFileSink, Enter, TypeOK
    <2>2. \A s \in Touches(t)' : s = f
      BY <2>1 DEF Touches, NeedsParent, At
    <2>3. \A u \in Thread \ {t} : f \notin Touches(u)
      BY <1>5 DEF DestroyFileSink, MayDestroy
    <2> QED
      BY <2>2, <2>3
  <1>6. ASSUME LockSelf(t) \/ Check(t) \/ LockParent(t) \/ UnlockParent(t) PROVE Less
    <2>1. PICK at \in {"check", "lock parent", "unlock", "splice"} : Goto(t, at)
      BY <1>6 DEF LockSelf, Check, LockParent, UnlockParent
    <2>2. parent' = parent /\ events' = events /\ call[t].at \in FlushSteps
      BY <1>6 DEF LockSelf, Check, LockParent, UnlockParent, At, FlushSteps
    <2>3. call[t] # Idle
      BY <2>2, CallKinds
    <2> QED
      BY <2>1, <2>2, <2>3, GotoTouches
  <1>7. ASSUME Splice(t) PROVE Less
    <2>1. Goto(t, "unlock parent") /\ parent' = parent /\ At(t, "splice")
      BY <1>7 DEF Splice
    <2>2. call[t] # Idle /\ call[t].self \in Cascade \cup {t}
      BY <2>1, CallKinds DEF At, FlushSteps
    <2>3. call[t].self \in Thread => events[t] # <<>>
      BY <2>1, <2>2 DEF LiveOK, LiveThread, At
    <2> QED
      BY <2>1, <2>2, <2>3, GotoTouches
  <1>8. ASSUME WriteOut(t) PROVE Less
    <2>1. Goto(t, "unlock") /\ parent' = parent /\ At(t, "write")
      BY <1>8 DEF WriteOut
    <2>2. call[t] # Idle /\ call[t].self \in FileSink
      BY <2>1, CallKinds DEF At, FlushSteps
    <2> QED
      BY <2>1, <2>2, GotoTouches
  <1>9. ASSUME Running(t), call' = call PROVE Less
    BY <1>1, <1>9 DEF Running
  <1>10. ASSUME UnlockSelf(t) PROVE Less
    BY <1>1, <1>10 DEF UnlockSelf, TypeOK
  <1>11. ASSUME NEW h \in Holder, BeginFlush(t, h) PROVE Fresh
    BY <1>2, <1>11 DEF BeginFlush
  <1>12. \/ Running(t) /\ call' = call
         \/ \E h \in Holder : BeginFlush(t, h)
         \/ ExitThread(t)
         \/ \E c \in Cascade : DestroyCascade(t, c)
         \/ \E f \in FileSink : DestroyFileSink(t, f)
         \/ LockSelf(t) \/ Check(t) \/ LockParent(t) \/ UnlockParent(t)
         \/ Splice(t)
         \/ WriteOut(t)
         \/ UnlockSelf(t)
    BY DEF ThreadNext, Continue, Record, Divert, MakeFileSink, MakeCascade
  <1> QED
    BY <1>3, <1>4, <1>5, <1>6, <1>7, <1>8, <1>9, <1>10, <1>11, <1>12

LEMMA ExclStep ==
  ASSUME TypeOK, CallOK, LiveOK, ExclOK, [Next]_vars
  PROVE  ExclOK'
  <1>1. ASSUME NEW t \in Thread, NEW u \in Thread, t # u, Undisturbed(t), Undisturbed(u),
               NEW s, s \in Touches(t)', s \in Touches(u)'
        PROVE  s \in ThreadSafe /\ ~Destroys(t, s)'
    BY <1>1, TouchesFrame DEF ExclOK
  <1>2. ASSUME NEW t \in Thread, NEW u \in Thread, t # u, ThreadNext(t), Undisturbed(u),
               NEW s, s \in Touches(t)', s \in Touches(u)'
        PROVE  s \in ThreadSafe /\ ~Destroys(t, s)' /\ ~Destroys(u, s)'
    <2>1. s \in Touches(u) /\ (Destroys(u, s)' <=> Destroys(u, s))
      BY <1>2, TouchesFrame
    <2>2. CASE /\ Touches(t)' \subseteq Touches(t)
               /\ \A r : Destroys(t, r)' => Destroys(t, r)
      BY <1>2, <2>1, <2>2 DEF ExclOK
    <2>3. CASE \A v \in Thread \ {t} : \A r \in Touches(t)' :
              r \in Touches(v) => r \in ThreadSafe /\ ~Destroys(v, r) /\ ~Destroys(t, r)'
      BY <1>2, <2>1, <2>3
    <2> QED
      BY <1>2, <2>2, <2>3, OwnTouches
  <1>3. ASSUME NEW t \in Thread, NEW u \in Thread, t # u, NEW s \in (Touches(t) \cap Touches(u))'
        PROVE  s \in ThreadSafe /\ ~Destroys(t, s)'
    <2>1. CASE \A v \in Thread : Undisturbed(v)
      BY <1>1, <1>3, <2>1
    <2>2. ASSUME NEW v \in Thread, ThreadNext(v), \A w \in Thread \ {v} : Undisturbed(w)
          PROVE  s \in ThreadSafe /\ ~Destroys(t, s)'
      <3>1. CASE v = t
        BY <1>2, <1>3, <2>2, <3>1
      <3>2. CASE v = u
        BY <1>2, <1>3, <2>2, <3>2
      <3>3. CASE v # t /\ v # u
        BY <1>1, <1>3, <2>2, <3>3
      <3> QED
        BY <3>1, <3>2, <3>3
    <2> QED
      BY <2>1, <2>2, OthersLeaveAlone
  <1> QED
    BY <1>3 DEF ExclOK

-----------------------------------------------------------------------------
(* A cascade is not its own parent. *)
LEMMA NotOwnParent ==
  ASSUME TypeOK, CallOK, TreeOK, LiveOK, NEW t \in Thread,
         call[t].at \in FlushSteps \ {"unlock"}
  PROVE  parent[call[t].self] \in Sink /\ parent[call[t].self] # call[t].self
  <1>1. call[t].self \in Cascade \cup {t} /\ life[call[t].self] # "unborn"
    BY CallKinds DEF LiveOK, LiveThread
  <1>2. parent[call[t].self] \in Sink
    BY <1>1 DEF TypeOK
  <1>3. CASE call[t].self \in Cascade
    <2>1. depth[call[t].self] = depth[parent[call[t].self]] + 1
      BY <1>1, <1>3 DEF TreeOK
    <2>2. depth[parent[call[t].self]] \in Nat
      BY <1>2 DEF TypeOK
    <2> QED
      BY <1>2, <2>1, <2>2
  <1> QED
    BY <1>1, <1>2, <1>3

(* Thread t takes or gives back mutexes and the others do nothing. *)
LEMMA MutexFrame ==
  ASSUME TypeOK, CallOK, MutexOK, NEW t \in Thread, \A u \in Thread \ {t} : Undisturbed(u),
         NEW s \in ThreadSafe,
         \/ mutex'[s] = mutex[s] /\ (Holds(t, s)' <=> Holds(t, s))
         \/ mutex[s] = Null /\ mutex'[s] = t /\ Holds(t, s)'
         \/ Holds(t, s) /\ mutex'[s] = Null /\ ~Holds(t, s)'
  PROVE  \A u \in Thread : mutex'[s] = u <=> Holds(u, s)'
  <1>1. \A u \in Thread : mutex[s] = u <=> Holds(u, s)
    BY DEF MutexOK
  <1>2. \A u \in Thread \ {t} : Holds(u, s)' <=> Holds(u, s)
    BY TouchesFrame
  <1>3. Null \notin Thread
    OBVIOUS
  <1> QED
    BY <1>1, <1>2, <1>3

LEMMA MutexStep ==
  ASSUME TypeOK, CallOK, TreeOK, LiveOK, MutexOK, [Next]_vars
  PROVE  MutexOK'
  <1>1. ASSUME mutex' = mutex, \A u \in Thread : Undisturbed(u) PROVE MutexOK'
    BY <1>1, TouchesFrame DEF MutexOK
  <1>2. ASSUME NEW t \in Thread, ThreadNext(t), \A u \in Thread \ {t} : Undisturbed(u),
               NEW s \in ThreadSafe
        PROVE  \A u \in Thread : mutex'[s] = u <=> Holds(u, s)'
    <2> DEFINE self == call[t].self
               Same == mutex'[s] = mutex[s] /\ (Holds(t, s)' <=> Holds(t, s))
               Took == mutex[s] = Null /\ mutex'[s] = t /\ Holds(t, s)'
               Gave == Holds(t, s) /\ mutex'[s] = Null /\ ~Holds(t, s)'
    <2>0. s \in Sink
      OBVIOUS
    <2>1. ASSUME Running(t), mutex' = mutex, call'[t].at \in {"idle", "lock", "check", "write"},
                 call'[t].at = "check" => call'[t].op = "destroy"
          PROVE Same
      <3>1. call[t].at = "idle"
        BY <2>1 DEF Running, Idle
      <3>2. ~Holds(t, s)
        BY <3>1 DEF Holds, FlushSteps
      <3>3. ~Holds(t, s)'
        BY <2>1 DEF Holds, FlushSteps
      <3> QED
        BY <2>1, <3>2, <3>3
    <2>2. ASSUME Running(t), UNCHANGED <<mutex, call>> PROVE Same
      <3>1. call'[t].at = "idle"
        BY <2>2 DEF Running, Idle
      <3> QED
        BY <2>1, <2>2, <3>1
    <2>3. ASSUME LockSelf(t) PROVE Same \/ Took \/ Gave
      <3>1. call[t].at = "lock" /\ call[t].op = "flush" /\ Acquire(t, self)
        BY <2>3, CallKinds DEF LockSelf, At
      <3>2. call'[t] = [op |-> "flush", self |-> self, at |-> "check"]
        BY <2>3, <3>1 DEF LockSelf, Goto, TypeOK
      <3>3. ~Holds(t, s) /\ (Holds(t, s)' <=> s = self)
        BY <3>1, <3>2 DEF Holds, FlushSteps
      <3>4. CASE s = self
        BY <2>0, <3>1, <3>3, <3>4 DEF Acquire, TypeOK
      <3>5. CASE s # self
        BY <2>0, <3>1, <3>3, <3>5 DEF Acquire, TypeOK
      <3> QED
        BY <3>4, <3>5
    <2>4. ASSUME Check(t) PROVE Same \/ Took \/ Gave
      <3>1. PICK at \in {"lock parent", "unlock"} : Goto(t, at)
        BY <2>4 DEF Check
      <3>2. call[t].at = "check" /\ mutex' = mutex
        BY <2>4 DEF Check, At
      <3>3. /\ call'[t].op = call[t].op /\ call'[t].self = self /\ call'[t].at = at
        BY <3>1 DEF Goto, TypeOK
      <3> QED
        BY <3>2, <3>3 DEF Holds, FlushSteps
    <2>5. ASSUME LockParent(t) PROVE Same \/ Took \/ Gave
      <3>1. call[t].at = "lock parent" /\ Acquire(t, parent[self]) /\ parent' = parent
        BY <2>5 DEF LockParent, At
      <3>2. /\ call'[t].op = call[t].op /\ call'[t].self = self /\ call'[t].at = "splice"
        BY <2>5 DEF LockParent, Goto, TypeOK
      <3>3. Holds(t, s)' <=> Holds(t, s) \/ s = parent[self]
        BY <3>1, <3>2 DEF Holds, FlushSteps
      <3>4. CASE s = parent[self]
        BY <2>0, <3>1, <3>3, <3>4 DEF Acquire, TypeOK
      <3>5. CASE s # parent[self]
        BY <2>0, <3>1, <3>3, <3>5 DEF Acquire, TypeOK
      <3> QED
        BY <3>4, <3>5
    <2>6. ASSUME Splice(t) PROVE Same \/ Took \/ Gave
      <3>1. call[t].at = "splice" /\ mutex' = mutex /\ parent' = parent
        BY <2>6 DEF Splice, At
      <3>2. /\ call'[t].op = call[t].op /\ call'[t].self = self /\ call'[t].at = "unlock parent"
        BY <2>6 DEF Splice, Goto, TypeOK
      <3> QED
        BY <3>1, <3>2 DEF Holds, FlushSteps
    <2>7. ASSUME UnlockParent(t) PROVE Same \/ Took \/ Gave
      <3>1. call[t].at = "unlock parent" /\ Release(parent[self])
        BY <2>7 DEF UnlockParent, At
      <3>2. /\ call'[t].op = call[t].op /\ call'[t].self = self /\ call'[t].at = "unlock"
        BY <2>7 DEF UnlockParent, Goto, TypeOK
      <3>3. parent[self] # self
        BY <3>1, NotOwnParent DEF FlushSteps
      <3>4. CASE s = parent[self]
        <4>1. Holds(t, s) /\ ~Holds(t, s)'
          BY <3>1, <3>2, <3>3, <3>4 DEF Holds
        <4> QED
          BY <2>0, <3>1, <3>4, <4>1 DEF Release, TypeOK
      <3>5. CASE s # parent[self]
        <4>1. Holds(t, s) <=> Holds(t, s)'
          BY <3>1, <3>2, <3>5 DEF Holds, FlushSteps
        <4> QED
          BY <2>0, <3>1, <3>5, <4>1 DEF Release, TypeOK
      <3> QED
        BY <3>4, <3>5
    <2>8. ASSUME UnlockSelf(t) PROVE Same \/ Took \/ Gave
      <3>1. call[t].at = "unlock" /\ call'[t] = Idle
        BY <2>8 DEF UnlockSelf, At, TypeOK
      <3>2. (Holds(t, s) <=> call[t].op = "flush" /\ s = self) /\ ~Holds(t, s)'
        BY <3>1 DEF Holds, FlushSteps, Idle
      <3>3. CASE Holds(t, s)
        <4>1. Release(self)
          BY <2>8, <3>2, <3>3 DEF UnlockSelf
        <4> QED
          BY <2>0, <3>2, <3>3, <4>1 DEF Release, TypeOK
      <3>4. CASE ~Holds(t, s)
        BY <2>0, <2>8, <3>2, <3>4 DEF UnlockSelf, Release, TypeOK
      <3> QED
        BY <3>3, <3>4
    <2>9. ASSUME WriteOut(t) PROVE Same \/ Took \/ Gave
      <3>1. call[t].at = "write" /\ mutex' = mutex
        BY <2>9 DEF WriteOut, At
      <3>2. call[t].op = "destroy" /\ call'[t].op = call[t].op /\ call'[t].at = "unlock"
        BY <2>9, <3>1, CallKinds DEF WriteOut, Goto, TypeOK
      <3> QED
        BY <3>1, <3>2 DEF Holds
    <2>10. \/ Running(t) /\ UNCHANGED <<mutex, call>>
           \/ /\ Running(t) /\ mutex' = mutex
              /\ call'[t].at \in {"lock", "check", "write"}
              /\ call'[t].at = "check" => call'[t].op = "destroy"
           \/ LockSelf(t) \/ Check(t) \/ LockParent(t) \/ Splice(t) \/ UnlockParent(t)
           \/ UnlockSelf(t) \/ WriteOut(t)
      BY <1>2 DEF ThreadNext, Record, Divert, MakeFileSink, MakeCascade, BeginFlush, ExitThread,
        DestroyCascade, DestroyFileSink, Enter, Continue, TypeOK
    <2>11. Same \/ Took \/ Gave
      BY <2>1, <2>2, <2>3, <2>4, <2>5, <2>6, <2>7, <2>8, <2>9, <2>10
    <2> QED
      BY <1>2, <2>11, MutexFrame
  <1>3. CASE DestroyGlobal \/ UNCHANGED vars
    <2>1. mutex' = mutex /\ \A u \in Thread : Undisturbed(u)
      BY <1>3 DEF DestroyGlobal, WrittenOut, vars, Undisturbed, TypeOK
    <2> QED
      BY <1>1, <2>1
  <1>4. ASSUME NEW t \in Thread, ThreadNext(t) PROVE MutexOK'
    <2>1. \A u \in Thread \ {t} : Undisturbed(u)
      BY <1>4, OneThreadMoves
    <2> QED
      BY <1>2, <1>4, <2>1 DEF MutexOK
  <1> QED
    BY <1>3, <1>4 DEF Next, Terminated

-----------------------------------------------------------------------------
LEMMA InitInv == Init => IInv
  <1> SUFFICES ASSUME Init PROVE IInv
    OBVIOUS
  <1>1. \A t \in Thread : call[t] = Idle
    BY DEF Init, InitWith
  <1>2. \A t \in Thread : /\ life[t] = "alive" /\ life[parent[t]] = "alive"
                          /\ call[t].at = "idle"
    BY DEF Init, InitWith, Idle
  <1>3. LiveOK
    <2>1. \A c \in Cascade : life[c] = "unborn"
      BY DEF Init, InitWith
    <2>2. \A s \in Sink \ {Global} : life[s] = "unborn"
      BY DEF Init, InitWith
    <2> QED
      BY <1>2, <2>1, <2>2 DEF LiveOK, LiveThread, At
  <1>4. ExclOK
    BY <1>1 DEF ExclOK, Touches
  <1>5. MutexOK
    BY <1>2 DEF Init, InitWith, MutexOK, Holds, FlushSteps
  <1> QED
    BY InitType, <1>3, <1>4, <1>5 DEF IInv

LEMMA InvStep == IInv /\ [Next]_vars => IInv'
  BY TypeStep, CallStep, TreeStep, LiveStep, ExclStep, MutexStep DEF IInv

THEOREM Invariance == Spec => []IInv
  BY InitInv, InvStep, PTL DEF Spec

(* Every variable keeps its type: no step writes a null parent pointer     *)
(* into a living cascade, or anything that is not an event into a list.    *)
THEOREM TypeCorrect == Spec => []TypeOK
  <1>1. IInv => TypeOK
    BY DEF IInv
  <1> QED
    BY <1>1, Invariance, PTL

(* A call in flight never locks, fills or unlocks a sink outside of its    *)
(* lifetime: for every tree of sinks, and for callers who do switch sinks  *)
(* with events pending as for those who do not.                            *)
THEOREM Lifetimes == Spec => []NoUseAfterDestroy
  <1>1. ASSUME IInv PROVE NoUseAfterDestroy
    <2> SUFFICES ASSUME NEW t \in Thread
                 PROVE  /\ At(t, "lock") => life[call[t].self] = "alive"
                        /\ call[t].at \in {"lock parent", "splice", "unlock parent"} =>
                             life[parent[call[t].self]] = "alive"
      BY DEF NoUseAfterDestroy
    <2>1. TypeOK /\ CallOK /\ LiveOK /\ LiveThread(t)
      BY <1>1 DEF IInv, LiveOK
    <2>2. At(t, "lock") => life[call[t].self] = "alive"
      BY <2>1, CallKinds DEF At, FlushSteps
    <2>3. ASSUME call[t].at \in {"lock parent", "splice"}
          PROVE  life[parent[call[t].self]] = "alive"
      <3>1. call[t].self \in Cascade \cup {t} /\ life[call[t].self] \in {"alive", "dying"}
        BY <2>1, <2>3, CallKinds DEF FlushSteps
      <3>2. CASE call[t].self = t
        <4>1. events[t] # <<>> /\ life[t] # "dead"
          BY <2>1, <2>3, <3>1, <3>2 DEF LiveThread
        <4> QED
          BY <2>1, <3>2, <4>1 DEF LiveThread
      <3> QED
        BY <2>1, <3>1, <3>2 DEF LiveOK
    <2> QED
      BY <2>1, <2>2, <2>3 DEF LiveThread, At
  <1> QED
    BY <1>1, Invariance, PTL

(* No two threads are about to access the same list of events: the lists   *)
(* of thread-safe sinks are only accessed by whoever holds the mutex, and  *)
(* no call shares the other objects with another one.                      *)
THEOREM RaceFreedom == Spec => []NoRace
  <1>1. ASSUME IInv PROVE NoRace
    <2>1. ASSUME NEW t \in Thread, NEW h \in Accesses(t)
          PROVE  /\ h \in Touches(t)
                 /\ h \in ThreadSafe => Destroys(t, h) \/ Holds(t, h)
      <3>1. call[t].at \in FlushSteps \cup {"write"}
        BY <2>1 DEF Accesses, At, FlushSteps
      <3>2. /\ call[t] # Idle /\ call[t].op \in {"flush", "destroy"}
            /\ call[t].at = "write" => call[t].op = "destroy"
            /\ call[t].at = "splice" => call[t].self \in Cascade \cup {t}
        BY <1>1, <3>1, CallKinds DEF IInv, FlushSteps
      <3>3. CASE h = call[t].self
        <4>1. call[t].at \in {"check", "splice", "write"}
          BY <2>1, <3>3 DEF Accesses, At
        <4> QED
          BY <3>2, <3>3, <4>1 DEF Touches, Destroys, Holds, FlushSteps
      <3>4. CASE At(t, "splice") /\ h = parent[call[t].self]
        <4>1. call[t].self = t => events[t] # <<>>
          BY <1>1, <3>4 DEF IInv, LiveOK, LiveThread, At
        <4>2. NeedsParent(t)
          BY <3>2, <3>4, <4>1 DEF NeedsParent, At
        <4> QED
          BY <3>2, <3>4, <4>2 DEF Touches, Holds, At
      <3> QED
        BY <2>1, <3>3, <3>4 DEF Accesses
    <2>2. ASSUME NEW t \in Thread, NEW u \in Thread, t # u,
                 NEW h, h \in Accesses(t), h \in Accesses(u)
          PROVE  FALSE
      <3>1. h \in ThreadSafe /\ ~Destroys(t, h) /\ ~Destroys(u, h)
        BY <1>1, <2>1, <2>2 DEF IInv, ExclOK
      <3>2. mutex[h] = t /\ mutex[h] = u
        BY <1>1, <2>1, <2>2, <3>1 DEF IInv, MutexOK
      <3> QED
        BY <2>2, <3>2
    <2> QED
      BY <2>2 DEF NoRace
  <1> QED
    BY <1>1, Invariance, PTL

(* Every thread of a set that waits for another one of the set waits for a *)
(* sink further from the file than the sink that one waits for; so no set  *)
(* of threads is deadlocked, however the trees of sinks are shaped.        *)
THEOREM DeadlockFreedom == Spec => []NoWaitCycle
  <1>1. ASSUME IInv PROVE NoWaitCycle
    <2> SUFFICES ASSUME NEW W \in SUBSET Thread, W # {},
                        \A t \in W : WaitsFor(t) \cap W # {}
                 PROVE  FALSE
      BY DEF NoWaitCycle
    <2> DEFINE Wanted(t) == IF At(t, "lock") THEN call[t].self ELSE parent[call[t].self]
               Ranks == {depth[Wanted(t)] : t \in W}
    <2>1. ASSUME NEW t \in W
          PROVE  /\ call[t].at \in {"lock", "lock parent"}
                 /\ Wanted(t) \in ThreadSafe
                 /\ \E u \in W : mutex[Wanted(t)] = u
      BY DEF WaitsFor, At
    <2>2. ASSUME NEW t \in W, NEW u \in W, mutex[Wanted(t)] = u
          PROVE  depth[Wanted(u)] < depth[Wanted(t)]
      <3>a. \A x \in ThreadSafe : mutex[x] = u => Holds(u, x)
        BY <1>1 DEF IInv, MutexOK
      <3>1. Holds(u, Wanted(t))
        BY <2>1, <2>2, <3>a
      <3>2. call[u].at = "lock parent" /\ call[u].self = Wanted(t)
        BY <2>1, <3>1 DEF Holds, FlushSteps
      <3>3. Wanted(u) = parent[Wanted(t)]
        BY <3>2 DEF At
      <3>4. Wanted(t) \in Cascade /\ life[Wanted(t)] # "unborn"
        <4>1. call[u].self \in Cascade \cup {u} /\ life[call[u].self] # "unborn"
          BY <1>1, <3>2, CallKinds DEF IInv, FlushSteps, LiveOK, LiveThread
        <4> QED
          BY <2>1, <3>2, <4>1
      <3>5. depth[Wanted(t)] = depth[Wanted(u)] + 1 /\ Wanted(u) \in Sink
        BY <1>1, <3>3, <3>4 DEF IInv, TreeOK, TypeOK
      <3>6. depth[Wanted(u)] \in Nat
        BY <1>1, <3>5 DEF IInv, TypeOK
      <3> QED
        BY <3>5, <3>6
    <2>3. Ranks \subseteq Nat /\ Ranks # {}
      <3>1. depth \in [Sink -> Nat]
        BY <1>1 DEF IInv, TypeOK
      <3>2. \A t \in W : Wanted(t) \in Sink
        BY <2>1
      <3>3. \A t \in W : depth[Wanted(t)] \in Nat
        <4> HIDE DEF Wanted
        <4> QED
          BY <3>1, <3>2
      <3> QED
        BY <3>3
    <2>4. PICK n \in Ranks : \A m \in Ranks : ~(<<m, n>> \in OpToRel(<, Nat))
      BY <2>3, WFMin, NatLessThanWellFounded
    <2>5. PICK t \in W : n = depth[Wanted(t)]
      BY <2>4
    <2>6. PICK u \in W : depth[Wanted(u)] < n
      BY <2>1, <2>2, <2>5
    <2>7. <<depth[Wanted(u)], n>> \in OpToRel(<, Nat)
      BY <2>3, <2>6 DEF OpToRel
    <2> QED
      BY <2>4, <2>7
  <1> QED
    BY <1>1, Invariance, PTL

-----------------------------------------------------------------------------
(* Where the events are.                                                   *)

Born(h) == life[h] # "unborn"

(* The sinks from s to its file: the least set with s and its parents. *)
ClosedUnderParent(S) == \A c \in S \cap Cascade : parent[c] \in S

Route(s) ==
  {h \in Sink : \A S \in SUBSET Sink : s \in S /\ ClosedUnderParent(S) => h \in S}

(* The file at the end of a chain. *)
RootOK ==
  /\ \A f \in FileSink : root[f] = f
  /\ \A c \in Cascade : Born(c) => root[c] = root[parent[c]]

(* The global sink is destroyed last, and what is not alive holds nothing. *)
EmptyOK ==
  /\ \/ life[Global] = "alive"
     \/ life[Global] = "dead" /\ \A t \in Thread : life[t] = "dead"
  /\ \A h \in Holder : life[h] \in {"unborn", "dead"} => events[h] = <<>>
  /\ \A t \in Thread :
       call[t].op = "destroy" /\ call[t].at \in {"unlock parent", "unlock"} =>
         events[call[t].self] = <<>>

(* A sink that is about to write has written nothing yet. *)
WriteOnce ==
  \A f \in FileSink : written[f] # <<>> =>
    /\ life[f] \in {"dying", "dead"}
    /\ \A t \in Thread : At(t, "write") => call[t].self # f

(* An event of a thread that flushes before it switches is with the thread *)
(* while that is diverted to the event's sink, or on the way to the file.  *)
Placed(e, h) ==
  /\ Born(e.to) /\ e.nr <= recorded[e.by]
  /\ h \in Thread => e.by = h
  /\ e.by \in Careful => h \in Route(e.to) \/ (h \in Thread /\ e.to = parent[h])

PlaceOK ==
  /\ \A h \in Holder : \A i \in DOMAIN events[h] : Placed(events[h][i], h)
  /\ \A f \in FileSink : \A i \in DOMAIN written[f] : Placed(written[f][i], f)

(* Every event is in one place, once. *)
UniqueOK ==
  \A h, k \in Holder : \A i \in DOMAIN events[h], j \in DOMAIN events[k] :
    events[h][i].by = events[k][j].by /\ events[h][i].nr = events[k][j].nr =>
      h = k /\ i = j

(* Position i of h is nearer to the end of the file than position j of k. *)
Before(h, i, k, j) ==
  \/ h = k /\ i < j
  \/ h \in Sink /\ k \in Thread
  \/ h \in Sink /\ k \in Sink /\ depth[h] < depth[k]

SameRoute(d, e) == d.by = e.by /\ d.by \in Careful /\ d.to = e.to

OrderOK ==
  /\ \A h, k \in Holder : \A i \in DOMAIN events[h], j \in DOMAIN events[k] :
       SameRoute(events[h][i], events[k][j]) /\ Before(h, i, k, j) =>
         events[h][i].nr < events[k][j].nr
  /\ \A f \in FileSink : \A i, j \in DOMAIN written[f] :
       SameRoute(written[f][i], written[f][j]) /\ i < j =>
         written[f][i].nr < written[f][j].nr

DInv == IInv /\ RootOK /\ EmptyOK /\ WriteOnce /\ PlaceOK /\ UniqueOK /\ OrderOK

-----------------------------------------------------------------------------
(* Routes.  Every proof exhibits a set closed under parent. *)
LEMMA RouteSelf ==
  ASSUME NEW s \in Sink
  PROVE  s \in Route(s)
  BY DEF Route

LEMMA RouteBorn ==
  ASSUME TypeOK, TreeOK, NEW s \in Sink, Born(s), NEW h \in Route(s)
  PROVE  h \in Sink /\ Born(h)
  <1> DEFINE S == {x \in Sink : Born(x)}
  <1>1. ClosedUnderParent(S)
    BY DEF ClosedUnderParent, Born, TreeOK, TypeOK
  <1>2. S \in SUBSET Sink /\ s \in S
    OBVIOUS
  <1> HIDE DEF S
  <1>3. h \in S
    BY <1>1, <1>2 DEF Route
  <1> QED
    BY <1>3 DEF S

(* What a cascade on the route hands on stays on the route. *)
LEMMA RouteParent ==
  ASSUME TypeOK, TreeOK, NEW s \in Sink, Born(s), NEW c \in Cascade, c \in Route(s)
  PROVE  parent[c] \in Route(s)
  <1>1. parent[c] \in Sink
    BY RouteBorn DEF TypeOK, Born
  <1>2. \A S \in SUBSET Sink : s \in S /\ ClosedUnderParent(S) => parent[c] \in S
    BY DEF Route, ClosedUnderParent
  <1> QED
    BY <1>1, <1>2 DEF Route

LEMMA RouteSplit ==
  ASSUME TypeOK, TreeOK, NEW c \in Cascade, Born(c), NEW h \in Route(c)
  PROVE  h = c \/ h \in Route(parent[c])
  <1> DEFINE S == {c} \cup Route(parent[c])
  <1>1. parent[c] \in Sink /\ Born(parent[c])
    BY DEF TypeOK, TreeOK, Born
  <1>2. S \in SUBSET Sink /\ c \in S
    BY DEF Route
  <1>3. ClosedUnderParent(S)
    BY <1>1, RouteSelf, RouteParent DEF ClosedUnderParent
  <1> HIDE DEF S
  <1>4. h \in S
    BY <1>2, <1>3 DEF Route
  <1> QED
    BY <1>4 DEF S

(* Every further sink of a route is nearer to the file. *)
LEMMA RouteDepth ==
  ASSUME TypeOK, TreeOK, NEW s \in Sink, Born(s), NEW h \in Route(s)
  PROVE  h = s \/ depth[h] < depth[s]
  <1> DEFINE S == {x \in Sink : Born(x) /\ (x = s \/ depth[x] < depth[s])}
  <1>1. ASSUME NEW c \in S \cap Cascade PROVE parent[c] \in S
    <2>1. parent[c] \in Sink /\ Born(parent[c]) /\ depth[c] = depth[parent[c]] + 1
      BY <1>1 DEF TypeOK, TreeOK, Born
    <2>2. depth[c] \in Nat /\ depth[s] \in Nat /\ depth[parent[c]] \in Nat
      BY <2>1 DEF TypeOK
    <2> QED
      BY <1>1, <2>1, <2>2
  <1>2. ClosedUnderParent(S)
    BY <1>1 DEF ClosedUnderParent
  <1>3. S \in SUBSET Sink /\ s \in S
    OBVIOUS
  <1> HIDE DEF S
  <1>4. h \in S
    BY <1>2, <1>3 DEF Route
  <1> QED
    BY <1>4 DEF S

(* A route is a chain: of two of its sinks one is on the other's route. *)
LEMMA RouteChain ==
  ASSUME TypeOK, TreeOK, NEW s \in Sink, Born(s), NEW h \in Route(s), NEW k \in Route(s),
         depth[h] = depth[k]
  PROVE  h = k
  <1> DEFINE S == {x \in Sink : Born(x) /\ (h \in Route(x) \/ x \in Route(h))}
  <1>1. h \in Sink /\ Born(h) /\ h \in Route(h) /\ k \in Sink /\ Born(k)
    BY RouteBorn, RouteSelf
  <1>2. ASSUME NEW c \in S \cap Cascade PROVE parent[c] \in S
    <2>1. parent[c] \in Sink /\ Born(parent[c])
      BY <1>2 DEF TypeOK, TreeOK, Born
    <2>2. h \in Route(parent[c]) \/ parent[c] \in Route(h)
      BY <1>1, <1>2, RouteSplit, RouteParent
    <2> QED
      BY <2>1, <2>2
  <1>3. ClosedUnderParent(S)
    BY <1>2 DEF ClosedUnderParent
  <1>4. S \in SUBSET Sink /\ s \in S
    OBVIOUS
  <1>5. h \in Route(k) \/ k \in Route(h)
    <2> HIDE DEF S
    <2>1. k \in S
      BY <1>3, <1>4 DEF Route
    <2> QED
      BY <2>1 DEF S
  <1>6. depth[h] \in Nat /\ depth[k] \in Nat
    BY <1>1 DEF TypeOK
  <1> QED
    BY <1>1, <1>5, <1>6, RouteDepth

(* The file at the end of a route. *)
LEMMA RouteRoot ==
  ASSUME TypeOK, TreeOK, RootOK, NEW s \in Sink, Born(s), NEW f \in FileSink, f \in Route(s)
  PROVE  root[s] = f
  <1> DEFINE S == {x \in Sink : Born(x) /\ root[x] = root[s]}
  <1>1. ClosedUnderParent(S)
    BY DEF ClosedUnderParent, Born, TreeOK, TypeOK, RootOK
  <1>2. S \in SUBSET Sink /\ s \in S
    OBVIOUS
  <1>3. f \in S
    <2> HIDE DEF S
    <2> QED
      BY <1>1, <1>2 DEF Route
  <1> QED
    BY <1>3 DEF RootOK

-----------------------------------------------------------------------------
(* A born sink keeps its place in the tree. *)
LEMMA RouteStep ==
  ASSUME TypeOK, CallOK, TreeOK, [Next]_vars, NEW s \in Sink, Born(s)
  PROVE  depth'[s] = depth[s] /\ Route(s) \subseteq Route(s)'
  <1>1. /\ depth'[s] = depth[s]
        /\ \A c \in Cascade : Born(c) => parent'[c] = parent[c]
    <2>1. ASSUME NEW t \in Thread, NEW c \in Cascade, NEW p \in Sink, MakeCascade(t, c, p)
          PROVE  /\ depth'[s] = depth[s]
                 /\ \A d \in Cascade : Born(d) => parent'[d] = parent[d]
      <3>1. ~Born(c) /\ parent' = [parent EXCEPT ![c] = p] /\ \E n : depth' = [depth EXCEPT ![c] = n]
        BY <2>1 DEF MakeCascade, Born
      <3> QED
        BY <3>1 DEF TypeOK
    <2> QED
      BY <2>1, CascadesStep
  <1>2. ASSUME NEW h \in Route(s), NEW S \in SUBSET Sink, s \in S, ClosedUnderParent(S)'
        PROVE  h \in S
    <2> DEFINE R == {x \in S : Born(x)}
    <2>1. ASSUME NEW c \in R \cap Cascade PROVE parent[c] \in R
      <3>1. parent'[c] \in S
        BY <1>2 DEF ClosedUnderParent
      <3>2. Born(parent[c]) /\ parent'[c] = parent[c]
        BY <1>1 DEF TreeOK, Born
      <3> QED
        BY <3>1, <3>2
    <2>2. ClosedUnderParent(R) /\ R \in SUBSET Sink /\ s \in R
      BY <1>2, <2>1 DEF ClosedUnderParent
    <2>3. h \in R
      <3> HIDE DEF R
      <3> QED
        BY <1>2, <2>2 DEF Route
    <2> QED
      BY <2>3
  <1>3. \A h \in Route(s) : h \in Sink
    BY DEF Route
  <1> QED
    BY <1>1, <1>2, <1>3 DEF Route

(* A thread about to splice, and where to. *)
LEMMA SpliceEnds ==
  ASSUME IInv, NEW t \in Thread, Splice(t)
  PROVE  /\ call[t].self \in Cascade \cup {t} /\ life[call[t].self] \in {"alive", "dying"}
         /\ parent[call[t].self] \in Sink /\ life[parent[call[t].self]] = "alive"
         /\ parent[call[t].self] # call[t].self
  <1>1. call[t].at = "splice"
    BY DEF Splice, At
  <1>2. call[t].self \in Cascade \cup {t} /\ life[call[t].self] \in {"alive", "dying"}
    BY <1>1, CallKinds DEF IInv, FlushSteps
  <1>3. parent[call[t].self] \in Sink /\ parent[call[t].self] # call[t].self
    BY <1>1, NotOwnParent DEF IInv, FlushSteps
  <1>4. life[parent[call[t].self]] = "alive"
    <2>1. CASE call[t].self = t
      BY <1>1, <1>2, <2>1 DEF IInv, LiveOK, LiveThread
    <2> QED
      BY <1>2, <2>1 DEF IInv, LiveOK
  <1> QED
    BY <1>2, <1>3, <1>4

(* The events of h are put behind those of k. *)
HandsOn(h, k) == events' = [events EXCEPT ![k] = @ \o events[h], ![h] = <<>>]

LEMMA SpliceHands ==
  ASSUME IInv, NEW t \in Thread, Splice(t)
  PROVE  /\ HandsOn(call[t].self, parent[call[t].self])
         /\ events'[call[t].self] = <<>>
         /\ \A h \in Holder : h # parent[call[t].self] /\ events[h] = <<>> => events'[h] = <<>>
  <1> DEFINE self == call[t].self
             to   == parent[self]
  <1>1. HandsOn(self, to)
    BY DEF Splice, HandsOn
  <1>2. self \in Holder /\ to \in Holder /\ self # to
    BY SpliceEnds
  <1>3. events \in [Holder -> Seq(Event)]
    BY DEF IInv, TypeOK
  <1> HIDE DEF self, to
  <1>4. events'[self] = <<>> /\ \A h \in Holder \ {self, to} : events'[h] = events[h]
    BY <1>1, <1>2, <1>3 DEF HandsOn
  <1>5. \A h \in Holder : h # to /\ events[h] = <<>> => events'[h] = <<>>
    BY <1>4
  <1> QED
    BY <1>1, <1>4, <1>5 DEF self, to

(* All that can happen to the events. *)
LEMMA EventsStep ==
  ASSUME TypeOK, [Next]_vars
  PROVE  \/ \E t \in Thread : Record(t)
         \/ \E t \in Thread : Splice(t)
         \/ \E t \in Thread : WriteOut(t)
         \/ DestroyGlobal
         \/ /\ UNCHANGED <<events, recorded, written>>
            /\ \A t \in Careful : parent'[t] = parent[t] \/ events[t] = <<>>
  <1>1. ASSUME NEW t \in Thread, NEW s \in Sink, Divert(t, s)
        PROVE  /\ UNCHANGED <<events, recorded, written>>
               /\ \A u \in Careful : parent'[u] = parent[u] \/ events[u] = <<>>
    <2>1. parent' = [parent EXCEPT ![t] = s] /\ UNCHANGED <<events, recorded, written>>
      BY <1>1 DEF Divert
    <2>2. t \in Careful => events[t] = <<>>
      BY <1>1 DEF Divert
    <2> QED
      BY <2>1, <2>2 DEF TypeOK
  <1>2. ASSUME NEW t \in Thread, NEW c \in Cascade, NEW p \in Sink, MakeCascade(t, c, p)
        PROVE  /\ UNCHANGED <<events, recorded, written>>
               /\ \A u \in Careful : parent'[u] = parent[u] \/ events[u] = <<>>
    <2>1. parent' = [parent EXCEPT ![c] = p] /\ UNCHANGED <<events, recorded, written>>
      BY <1>2 DEF MakeCascade
    <2> QED
      BY <2>1 DEF TypeOK
  <1>3. ASSUME UNCHANGED <<events, parent, recorded, written>>
        PROVE  /\ UNCHANGED <<events, recorded, written>>
               /\ \A u \in Careful : parent'[u] = parent[u] \/ events[u] = <<>>
    BY <1>3
  <1>4. \/ \E t \in Thread : Record(t)
        \/ \E t \in Thread, s \in Sink : Divert(t, s)
        \/ \E t \in Thread, c \in Cascade, p \in Sink : MakeCascade(t, c, p)
        \/ \E t \in Thread : Splice(t)
        \/ \E t \in Thread : WriteOut(t)
        \/ DestroyGlobal
        \/ UNCHANGED <<events, parent, recorded, written>>
    <2>1. ASSUME NEW t \in Thread, ThreadNext(t)
          PROVE  \/ Record(t)
                 \/ \E s \in Sink : Divert(t, s)
                 \/ \E c \in Cascade, p \in Sink : MakeCascade(t, c, p)
                 \/ Splice(t)
                 \/ WriteOut(t)
                 \/ UNCHANGED <<events, parent, recorded, written>>
      BY <2>1 DEF ThreadNext, Continue, MakeFileSink, BeginFlush, ExitThread, DestroyCascade,
        DestroyFileSink, Enter, LockSelf, Check, LockParent, UnlockParent, UnlockSelf
    <2> QED
      BY <2>1 DEF Next, Terminated, vars
  <1> QED
    BY <1>1, <1>2, <1>3, <1>4

LEMMA InConcat ==
  ASSUME NEW q \in Seq(Event), NEW r \in Seq(Event), NEW i \in DOMAIN (q \o r)
  PROVE  \/ i \in DOMAIN q /\ i <= Len(q) /\ (q \o r)[i] = q[i]
         \/ \E a \in DOMAIN r : i = a + Len(q) /\ (q \o r)[i] = r[a]
  <1>1. Len(q) \in Nat /\ Len(r) \in Nat /\ DOMAIN q = 1..Len(q) /\ DOMAIN r = 1..Len(r)
    OBVIOUS
  <1>2. q \o r \in Seq(Event) /\ Len(q \o r) = Len(q) + Len(r)
    OBVIOUS
  <1>3. i \in 1..(Len(q) + Len(r)) /\ i \in Nat
    BY <1>1, <1>2
  <1>4. CASE i <= Len(q)
    BY <1>1, <1>3, <1>4
  <1>5. CASE i > Len(q)
    <2>1. i - Len(q) \in DOMAIN r /\ i = (i - Len(q)) + Len(q)
      BY <1>1, <1>3, <1>5
    <2>2. (q \o r)[i] = r[i - Len(q)]
      BY <1>1, <1>3, <1>5
    <2> QED
      BY <2>1, <2>2
  <1> QED
    BY <1>1, <1>3, <1>4, <1>5

(* Where an event of h was before h got those of self. *)
LEMMA Origin ==
  ASSUME TypeOK, NEW self \in Holder, NEW to \in Holder, self # to, HandsOn(self, to),
         NEW h \in Holder, NEW i \in DOMAIN events'[h]
  PROVE  /\ h # self
         /\ \/ /\ i \in DOMAIN events[h] /\ events'[h][i] = events[h][i]
               /\ h = to => i <= Len(events[to])
            \/ /\ h = to
               /\ \E a \in DOMAIN events[self] :
                    i = a + Len(events[to]) /\ events'[h][i] = events[self][a]
  <1>1. events[to] \in Seq(Event) /\ events[self] \in Seq(Event) /\ events[h] \in Seq(Event)
    BY DEF TypeOK
  <1>2. events'[self] = <<>> /\ events'[to] = events[to] \o events[self]
    BY DEF HandsOn, TypeOK
  <1>3. h # self
    BY <1>2
  <1>4. CASE h # to
    <2>1. events'[h] = events[h]
      BY <1>3, <1>4 DEF HandsOn, TypeOK
    <2> QED
      BY <1>3, <1>4, <2>1
  <1>5. CASE h = to
    <2> DEFINE q == events[to]
               r == events[self]
    <2>1. q \in Seq(Event) /\ r \in Seq(Event) /\ i \in DOMAIN (q \o r) /\ events'[h] = q \o r
      BY <1>1, <1>2, <1>5
    <2> HIDE DEF q, r
    <2>2. \/ i \in DOMAIN q /\ i <= Len(q) /\ (q \o r)[i] = q[i]
          \/ \E a \in DOMAIN r : i = a + Len(q) /\ (q \o r)[i] = r[a]
      BY <2>1, InConcat
    <2> QED
      BY <1>3, <1>5, <2>1, <2>2 DEF q, r
  <1> QED
    BY <1>4, <1>5

-----------------------------------------------------------------------------
LEMMA RootStep ==
  ASSUME TypeOK, CallOK, TreeOK, RootOK, [Next]_vars
  PROVE  RootOK'
  <1>1. ASSUME NEW t \in Thread, NEW c \in Cascade, NEW p \in Sink, MakeCascade(t, c, p)
        PROVE  RootOK'
    <2>1. /\ ~Born(c) /\ Born(p) /\ p # c
          /\ parent' = [parent EXCEPT ![c] = p]
          /\ root' = [root EXCEPT ![c] = root[p]]
          /\ life' = [life EXCEPT ![c] = "alive"]
      BY <1>1 DEF MakeCascade, Born
    <2>2. /\ root'[c] = root[p] /\ parent'[c] = p
          /\ \A s \in Sink \ {c} : root'[s] = root[s] /\ life'[s] = life[s]
          /\ \A d \in Cascade \ {c} : parent'[d] = parent[d]
      BY <2>1 DEF TypeOK
    <2>3. \A d \in Cascade \ {c} : Born(d) => parent[d] \in Sink \ {c}
      BY <2>1 DEF TreeOK, TypeOK, Born
    <2> QED
      BY <2>1, <2>2, <2>3 DEF RootOK, Born
  <1>2. CASE /\ UNCHANGED <<root, depth>>
             /\ \A c \in Cascade : /\ parent'[c] = parent[c]
                                   /\ life'[c] = "unborn" <=> life[c] = "unborn"
    BY <1>2 DEF RootOK, Born
  <1> QED
    BY <1>1, <1>2, CascadesStep

(* The only way through a lifetime. *)
LEMMA LifeChange ==
  ASSUME TypeOK, CallOK, [Next]_vars, NEW h \in Holder, life'[h] # life[h]
  PROVE  \/ life[h] = "unborn" /\ life'[h] = "alive"
         \/ h # Global /\ life[h] = "alive" /\ life'[h] = "dying"
         \/ /\ life[h] = "dying" /\ life'[h] = "dead"
            /\ \E t \in Thread : UnlockSelf(t) /\ Destroys(t, h)
         \/ h = Global /\ DestroyGlobal
  <1> DEFINE Made(k)  == life[k] = "unborn" /\ life' = [life EXCEPT ![k] = "alive"]
             Ends(k)  == k # Global /\ life[k] = "alive" /\ life' = [life EXCEPT ![k] = "dying"]
             Gone(t)  == /\ UnlockSelf(t) /\ call[t].op = "destroy"
                         /\ life' = [life EXCEPT ![call[t].self] = "dead"]
  <1>1. \/ \E k : Made(k) \/ Ends(k)
        \/ \E t \in Thread : Gone(t)
        \/ DestroyGlobal
    <2>1. ASSUME NEW t \in Thread, ThreadNext(t)
          PROVE  life' = life \/ (\E k : Made(k) \/ Ends(k)) \/ Gone(t)
      <3>1. ASSUME ExitThread(t) PROVE Ends(t)
        BY <3>1 DEF ExitThread, Running
      <3>2. ASSUME NEW c \in Cascade, DestroyCascade(t, c) PROVE Ends(c)
        BY <3>2 DEF DestroyCascade, MayDestroy
      <3>3. ASSUME NEW f \in FileSink, DestroyFileSink(t, f) PROVE Ends(f)
        BY <3>3 DEF DestroyFileSink, MayDestroy
      <3>4. ASSUME NEW c \in Cascade, NEW p \in Sink, MakeCascade(t, c, p) PROVE Made(c)
        BY <3>4 DEF MakeCascade
      <3>5. ASSUME NEW f \in FileSink, MakeFileSink(t, f) PROVE Made(f)
        BY <3>5 DEF MakeFileSink
      <3>6. ASSUME UnlockSelf(t) PROVE life' = life \/ Gone(t)
        BY <3>6 DEF UnlockSelf
      <3> HIDE DEF Made, Ends, Gone
      <3> QED
        BY <2>1, <3>1, <3>2, <3>3, <3>4, <3>5, <3>6
        DEF ThreadNext, Continue, Record, Divert, BeginFlush, LockSelf, Check, LockParent,
          Splice, UnlockParent, WriteOut
    <2> HIDE DEF Made, Ends, Gone
    <2> QED
      BY <2>1 DEF Next, Terminated, vars
  <1>2. ASSUME NEW k, Made(k) PROVE life[h] = "unborn" /\ life'[h] = "alive"
    BY <1>2 DEF TypeOK
  <1>3. ASSUME NEW k, Ends(k) PROVE h # Global /\ life[h] = "alive" /\ life'[h] = "dying"
    BY <1>3 DEF TypeOK
  <1>4. ASSUME NEW t \in Thread, Gone(t)
        PROVE  /\ life[h] = "dying" /\ life'[h] = "dead"
               /\ UnlockSelf(t) /\ Destroys(t, h)
    <2>1. life[call[t].self] = "dying"
      BY <1>4, CallKinds DEF UnlockSelf, At, FlushSteps
    <2> QED
      BY <1>4, <2>1 DEF TypeOK, Destroys
  <1>5. DestroyGlobal => h = Global
    BY DEF DestroyGlobal, TypeOK
  <1> HIDE DEF Made, Ends, Gone
  <1> QED
    BY <1>1, <1>2, <1>3, <1>4, <1>5

(* The end of a thread's call, or a step of another thread. *)
LEMMA CallTail ==
  ASSUME IInv, [Next]_vars, NEW t \in Thread,
         call'[t].op = "destroy", call'[t].at \in {"unlock parent", "unlock"}
  PROVE  /\ call'[t].self = call[t].self
         /\ \/ call'[t] = call[t]
            \/ Check(t) /\ events[call[t].self] = <<>>
            \/ Splice(t)
            \/ UnlockParent(t) /\ call[t].op = "destroy"
            \/ WriteOut(t)
  <1> DEFINE Ends == /\ call'[t].self = call[t].self
                     /\ \/ call'[t] = call[t]
                        \/ Check(t) /\ events[call[t].self] = <<>>
                        \/ Splice(t)
                        \/ UnlockParent(t) /\ call[t].op = "destroy"
                        \/ WriteOut(t)
  <1> USE DEF IInv
  <1>1. CASE Undisturbed(t)
    BY <1>1 DEF Undisturbed
  <1>2. ASSUME ThreadNext(t) PROVE Ends
    <2>1. ASSUME call' = call PROVE Ends
      BY <2>1
    <2> DEFINE Begins ==
          \E op \in {"flush", "destroy"}, h \in Holder, at \in {"lock", "check", "write"} :
            Enter(t, op, h, at)
    <2>2. ASSUME Begins PROVE FALSE
      <3>1. PICK op \in {"flush", "destroy"}, h \in Holder, at \in {"lock", "check", "write"} :
              Enter(t, op, h, at)
        BY <2>2
      <3>2. call'[t].at = at
        BY <3>1 DEF Enter, TypeOK
      <3> QED
        BY <3>2
    <2>3. ASSUME NEW at \in {"check", "lock parent", "splice"}, Goto(t, at) PROVE FALSE
      BY <2>3 DEF Goto, TypeOK
    <2>4. ASSUME UnlockSelf(t) PROVE FALSE
      BY <2>4 DEF UnlockSelf, Idle, TypeOK
    <2>5. ASSUME NEW at, Goto(t, at)
          PROVE  call'[t].self = call[t].self /\ call'[t].op = call[t].op
      BY <2>5 DEF Goto, TypeOK
    <2>6. \/ call' = call
          \/ Begins
          \/ LockSelf(t) \/ Check(t) \/ LockParent(t) \/ Splice(t) \/ UnlockParent(t)
          \/ UnlockSelf(t) \/ WriteOut(t)
      BY <1>2 DEF ThreadNext, Continue, Record, Divert, MakeFileSink, MakeCascade, BeginFlush,
        ExitThread, DestroyCascade, DestroyFileSink
    <2>7. ASSUME LockSelf(t) \/ LockParent(t) PROVE FALSE
      BY <2>3, <2>7 DEF LockSelf, LockParent
    <2>8. ASSUME Check(t) PROVE Ends
      BY <2>3, <2>5, <2>8 DEF Check
    <2>9. ASSUME Splice(t) \/ UnlockParent(t) \/ WriteOut(t) PROVE Ends
      BY <2>5, <2>9 DEF Splice, UnlockParent, WriteOut
    <2> HIDE DEF Ends, Begins
    <2> QED
      BY <2>1, <2>2, <2>4, <2>6, <2>7, <2>8, <2>9
  <1> QED
    BY <1>1, <1>2, OthersLeaveAlone

LEMMA EmptyStep ==
  ASSUME IInv, EmptyOK, [Next]_vars
  PROVE  EmptyOK'
  <1>1. TypeOK /\ CallOK /\ LiveOK
    BY DEF IInv
  <1>2. \/ life'[Global] = "alive"
        \/ life'[Global] = "dead" /\ \A t \in Thread : life'[t] = "dead"
    <2>1. CASE DestroyGlobal
      BY <1>1, <2>1 DEF DestroyGlobal, TypeOK
    <2>2. CASE life[Global] = "alive" /\ ~DestroyGlobal
      BY <1>1, <2>2, LifeChange
    <2>3. CASE life[Global] = "dead"
      BY <1>1, <2>3, DeadStays DEF EmptyOK
    <2> QED
      BY <2>1, <2>2, <2>3 DEF EmptyOK
  <1>3. ASSUME NEW h \in Holder, life'[h] \in {"unborn", "dead"}
        PROVE  events'[h] = <<>>
    <2>1. ASSUME NEW t \in Thread, Record(t) PROVE events'[h] = <<>>
      <3>1. life[t] = "alive" /\ life' = life
        BY <2>1 DEF Record, Running
      <3> QED
        BY <1>1, <1>3, <2>1, <3>1 DEF Record, EmptyOK, TypeOK
    <2>2. ASSUME NEW t \in Thread, Splice(t) PROVE events'[h] = <<>>
      <3>1. life' = life /\ h # parent[call[t].self]
        BY <1>3, <2>2, SpliceEnds DEF Splice
      <3> QED
        BY <1>1, <1>3, <2>2, <3>1, SpliceEnds DEF Splice, EmptyOK, TypeOK
    <2>3. ASSUME NEW t \in Thread, WriteOut(t) PROVE events'[h] = <<>>
      BY <1>1, <1>3, <2>3 DEF WriteOut, WrittenOut, EmptyOK, TypeOK
    <2>4. CASE DestroyGlobal
      BY <1>1, <1>3, <2>4 DEF DestroyGlobal, WrittenOut, EmptyOK, TypeOK
    <2>5. CASE UNCHANGED events /\ ~DestroyGlobal
      <3>1. ASSUME NEW t \in Thread, UnlockSelf(t), Destroys(t, h) PROVE events[h] = <<>>
        BY <3>1 DEF UnlockSelf, At, Destroys, EmptyOK
      <3> QED
        BY <1>1, <1>3, <2>5, <3>1, LifeChange DEF EmptyOK
    <2> QED
      BY <1>1, <2>1, <2>2, <2>3, <2>4, <2>5, EventsStep
  <1>4. ASSUME NEW t \in Thread, call'[t].op = "destroy",
               call'[t].at \in {"unlock parent", "unlock"}
        PROVE  events'[call'[t].self] = <<>>
    <2> DEFINE self == call[t].self
    <2>1. call'[t].self = self
      BY <1>4, CallTail
    <2>2. CASE Splice(t)
      BY <2>1, <2>2, SpliceHands
    <2>3. CASE WriteOut(t)
      <3>1. self \in FileSink
        BY <1>1, <2>3, CallKinds DEF WriteOut, At
      <3> QED
        BY <1>1, <2>1, <2>3, <3>1 DEF WriteOut, WrittenOut, TypeOK
    <2>4. CASE Check(t) /\ events[self] = <<>>
      BY <2>1, <2>4 DEF Check
    <2>5. CASE UnlockParent(t) /\ call[t].op = "destroy"
      BY <2>1, <2>5 DEF UnlockParent, At, EmptyOK
    <2>6. CASE call'[t] = call[t]
      <3>1. events[self] = <<>> /\ self \in Sink \cup {t} /\ life[self] = "dying" /\ call[t] # Idle
        <4>1. call[t].op = "destroy" /\ call[t].at \in {"unlock parent", "unlock"}
          BY <1>4, <2>6
        <4> QED
          BY <1>1, <4>1, CallKinds DEF EmptyOK, FlushSteps, Idle
      <3>2. ASSUME NEW u \in Thread, Record(u) PROVE events'[self] = <<>>
        <4>1. u # self
          BY <3>1, <3>2 DEF Record, Running
        <4> QED
          BY <1>1, <3>1, <3>2, <4>1 DEF Record, TypeOK
      <3>3. ASSUME NEW u \in Thread, Splice(u) PROVE events'[self] = <<>>
        <4>1. self # parent[call[u].self]
          BY <3>1, <3>3, SpliceEnds
        <4> QED
          BY <3>1, <3>3, <4>1, SpliceHands
      <3>4. ASSUME NEW f \in FileSink, WrittenOut(f) PROVE events'[self] = <<>>
        BY <1>1, <3>1, <3>4 DEF WrittenOut, TypeOK
      <3>5. ASSUME NEW u \in Thread, WriteOut(u) PROVE events'[self] = <<>>
        BY <1>1, <3>4, <3>5, CallKinds DEF WriteOut, At
      <3>6. DestroyGlobal => events'[self] = <<>>
        BY <3>4 DEF DestroyGlobal
      <3> QED
        BY <1>1, <2>1, <3>1, <3>2, <3>3, <3>5, <3>6, EventsStep
    <2> QED
      BY <1>4, <2>2, <2>3, <2>4, <2>5, <2>6, CallTail
  <1> QED
    BY <1>2, <1>3, <1>4 DEF EmptyOK

LEMMA WriteOnceStep ==
  ASSUME IInv, EmptyOK, WriteOnce, [Next]_vars
  PROVE  WriteOnce'
  <1> SUFFICES ASSUME NEW f \in FileSink, written'[f] # <<>>
               PROVE  /\ life'[f] \in {"dying", "dead"}
                      /\ \A t \in Thread : call'[t].at = "write" => call'[t].self # f
    BY DEF WriteOnce, At
  <1>1. TypeOK /\ CallOK /\ LiveOK
    BY DEF IInv
  <1>2. ASSUME life[f] \in {"dying", "dead"} PROVE life'[f] \in {"dying", "dead"}
    <2>1. DestroyGlobal /\ f = Global => life'[f] = "dead"
      BY <1>1 DEF DestroyGlobal, TypeOK
    <2> QED
      BY <1>1, <1>2, <2>1, LifeChange
  (* Nobody comes to write a file sink that is not alive. *)
  <1>3. ASSUME life[f] \in {"dying", "dead"}, NEW t \in Thread,
               call'[t].at = "write", call'[t].self = f
        PROVE  call'[t] = call[t]
    <2>1. ASSUME ThreadNext(t), call'[t] # call[t] PROVE FALSE
      <3>1. ASSUME NEW at \in Steps \ {"write"}, Goto(t, at) PROVE FALSE
        BY <1>1, <1>3, <3>1 DEF Goto, TypeOK
      <3>2. ASSUME UnlockSelf(t) PROVE FALSE
        BY <1>1, <1>3, <3>2 DEF UnlockSelf, Idle, TypeOK
      <3>3. ASSUME NEW op \in {"flush", "destroy"}, NEW h \in Holder,
                   NEW at \in {"lock", "check"}, Enter(t, op, h, at)
            PROVE  FALSE
        BY <1>1, <1>3, <3>3 DEF Enter, TypeOK
      <3>4. ASSUME NEW k \in FileSink, DestroyFileSink(t, k) PROVE FALSE
        BY <1>1, <1>3, <3>4 DEF DestroyFileSink, MayDestroy, Enter, TypeOK
      <3>5. Record(t) \/ (\E s \in Sink : Divert(t, s)) \/ (\E k \in FileSink : MakeFileSink(t, k))
              \/ (\E c \in Cascade, p \in Sink : MakeCascade(t, c, p)) => FALSE
        BY <2>1 DEF Record, Divert, MakeFileSink, MakeCascade
      <3>6. ASSUME NEW h \in Holder, BeginFlush(t, h) PROVE FALSE
        BY <3>3, <3>6 DEF BeginFlush
      <3>7. ExitThread(t) \/ (\E c \in Cascade : DestroyCascade(t, c)) => FALSE
        BY <3>3 DEF ExitThread, DestroyCascade
      <3>8. LockSelf(t) \/ Check(t) \/ LockParent(t) \/ Splice(t) \/ UnlockParent(t)
              \/ WriteOut(t) => FALSE
        BY <3>1 DEF LockSelf, Check, LockParent, Splice, UnlockParent, WriteOut, Steps
      <3> QED
        BY <2>1, <3>2, <3>4, <3>5, <3>6, <3>7, <3>8 DEF ThreadNext, Continue
    <2>2. Undisturbed(t) => call'[t] = call[t]
      BY DEF Undisturbed
    <2> QED
      BY <1>1, <2>1, <2>2, OthersLeaveAlone
  <1>4. CASE written'[f] = written[f]
    BY <1>2, <1>3, <1>4 DEF WriteOnce, At
  <1>5. ASSUME NEW t \in Thread, WriteOut(t), call[t].self = f
        PROVE  /\ life'[f] \in {"dying", "dead"}
               /\ \A u \in Thread : call'[u].at = "write" => call'[u].self # f
    <2>1. life[f] = "dying" /\ Destroys(t, f) /\ call[t] # Idle /\ call'[t].at = "unlock"
      <3>1. call[t].at = "write"
        BY <1>5 DEF WriteOut, At
      <3> QED
        BY <1>1, <1>5, <3>1, CallKinds DEF WriteOut, Goto, TypeOK, Destroys
    <2>2. ASSUME NEW u \in Thread \ {t}, call[u].at = "write", call[u].self = f
          PROVE  FALSE
      <3>1. call[u] # Idle
        BY <1>1, <2>2, CallKinds
      <3>2. f \in Touches(t) \cap Touches(u)
        BY <1>5, <2>1, <2>2, <3>1 DEF Touches
      <3> QED
        BY <2>1, <3>2 DEF IInv, ExclOK
    <2>3. ASSUME NEW u \in Thread, call'[u].at = "write", call'[u].self = f
          PROVE  FALSE
      <3>1. u # t /\ call'[u] = call[u]
        BY <1>3, <2>1, <2>3
      <3> QED
        BY <2>2, <2>3, <3>1
    <2> QED
      BY <1>2, <2>1, <2>3
  <1>6. CASE DestroyGlobal /\ f = Global
    <2>1. life'[f] = "dead" /\ call' = call /\ \A t \in Thread : life[t] = "dead"
      BY <1>1, <1>6 DEF DestroyGlobal, TypeOK
    <2>2. ASSUME NEW t \in Thread PROVE call[t].at # "write"
      <3>1. InCall(t) /\ life[t] = "dead"
        BY <1>1, <2>1 DEF CallOK
      <3>2. call[t] = Idle
        BY <3>1 DEF InCall
      <3> QED
        BY <3>2 DEF Idle
    <2> QED
      BY <2>1, <2>2
  <1>7. \/ written'[f] = written[f]
        \/ \E t \in Thread : WriteOut(t) /\ call[t].self = f
        \/ DestroyGlobal /\ f = Global
    <2>1. ASSUME NEW k \in FileSink, WrittenOut(k), k # f PROVE written'[f] = written[f]
      BY <1>1, <2>1 DEF WrittenOut, TypeOK
    <2>2. ASSUME NEW t \in Thread, WriteOut(t)
          PROVE  call[t].self = f \/ written'[f] = written[f]
      BY <1>1, <2>1, <2>2, CallKinds DEF WriteOut, At
    <2>3. DestroyGlobal => f = Global \/ written'[f] = written[f]
      BY <2>1 DEF DestroyGlobal
    <2>4. (\E t \in Thread : Record(t) \/ Splice(t)) => written'[f] = written[f]
      BY DEF Record, Splice
    <2> QED
      BY <1>1, <2>2, <2>3, <2>4, EventsStep
  <1> QED
    BY <1>4, <1>5, <1>6, <1>7

-----------------------------------------------------------------------------
(* The new event of a thread, behind its others. *)
NewEvent(t) == [by |-> t, nr |-> recorded[t] + 1, to |-> parent[t]]

LEMMA RecordEvents ==
  ASSUME TypeOK, LiveOK, NEW t \in Thread, Record(t)
  PROVE  /\ NewEvent(t) \in Event
         /\ recorded'[t] = recorded[t] + 1 /\ \A u \in Thread \ {t} : recorded'[u] = recorded[u]
         /\ \A h \in Holder \ {t} : events'[h] = events[h]
         /\ \A i \in DOMAIN events'[t] :
              \/ i \in DOMAIN events[t] /\ i <= Len(events[t]) /\ events'[t][i] = events[t][i]
              \/ i = Len(events[t]) + 1 /\ events'[t][i] = NewEvent(t)
  <1>1. recorded[t] \in Nat /\ parent[t] \in Sink /\ recorded \in [Thread -> 0..MaxEvents]
    <2>1. t \in Thread \cup Cascade /\ life[t] # "unborn"
      BY DEF LiveOK, LiveThread
    <2> QED
      BY <2>1 DEF TypeOK
  <1>2. NewEvent(t) \in Event
    BY <1>1 DEF NewEvent, Event
  <1>3. recorded' = [recorded EXCEPT ![t] = @ + 1]
    BY DEF Record
  <1>4. events' = [events EXCEPT ![t] = Append(@, NewEvent(t))]
    BY DEF Record, NewEvent
  <1>5. events \in [Holder -> Seq(Event)] /\ t \in Holder
    BY DEF TypeOK
  <1>6. events'[t] = Append(events[t], NewEvent(t)) /\ \A h \in Holder \ {t} : events'[h] = events[h]
    BY <1>4, <1>5
  <1>7. ASSUME NEW q \in Seq(Event), NEW e \in Event, NEW i \in DOMAIN Append(q, e)
        PROVE  \/ i \in DOMAIN q /\ i <= Len(q) /\ Append(q, e)[i] = q[i]
               \/ i = Len(q) + 1 /\ Append(q, e)[i] = e
    BY <1>7
  <1>8. \A i \in DOMAIN events'[t] :
          \/ i \in DOMAIN events[t] /\ i <= Len(events[t]) /\ events'[t][i] = events[t][i]
          \/ i = Len(events[t]) + 1 /\ events'[t][i] = NewEvent(t)
    <2> DEFINE q == events[t]
               e == NewEvent(t)
    <2>1. q \in Seq(Event) /\ e \in Event /\ events'[t] = Append(q, e)
      BY <1>2, <1>5, <1>6
    <2> HIDE DEF q, e
    <2>2. \A i \in DOMAIN events'[t] :
            \/ i \in DOMAIN q /\ i <= Len(q) /\ events'[t][i] = q[i]
            \/ i = Len(q) + 1 /\ events'[t][i] = e
      BY <1>7, <2>1
    <2> QED
      BY <2>2 DEF q, e
  <1> QED
    BY <1>1, <1>2, <1>3, <1>6, <1>8

LEMMA RecordedGrows ==
  ASSUME TypeOK, LiveOK, [Next]_vars, NEW t \in Thread
  PROVE  recorded[t] \in Nat /\ recorded'[t] \in Nat /\ recorded[t] <= recorded'[t]
  <1>1. recorded[t] \in Nat
    BY DEF TypeOK
  <1>2. (\E u \in Thread : Splice(u) \/ WriteOut(u)) \/ DestroyGlobal => recorded' = recorded
    BY DEF Splice, WriteOut, DestroyGlobal
  <1>3. ASSUME NEW u \in Thread, Record(u)
        PROVE  recorded'[t] = recorded[t] \/ recorded'[t] = recorded[t] + 1
    BY <1>3, RecordEvents
  <1> QED
    BY <1>1, <1>2, <1>3, EventsStep

(* An event that stays where it is. *)
LEMMA PlacedFrame ==
  ASSUME IInv, [Next]_vars, NEW h \in Holder, NEW e \in Event, Placed(e, h),
         h \in Careful => parent'[h] = parent[h]
  PROVE  Placed(e, h)'
  <1>1. TypeOK /\ CallOK /\ LiveOK /\ TreeOK
    BY DEF IInv
  <1>2. e.by \in Thread /\ e.to \in Sink /\ e.nr \in Nat
    BY DEF Event
  <1>3. Born(e.to)' /\ Route(e.to) \subseteq Route(e.to)'
    BY <1>1, <1>2, BornStep, RouteStep DEF Placed, Born
  <1>4. e.nr <= recorded'[e.by]
    BY <1>1, <1>2, RecordedGrows DEF Placed
  <1> QED
    BY <1>3, <1>4 DEF Placed

(* An event that is handed on by self. *)
LEMMA PlacedHandedOn ==
  ASSUME IInv, [Next]_vars, NEW t \in Thread, Splice(t),
         NEW self, self = call[t].self, NEW to, to = parent[self],
         NEW e \in Event, Placed(e, self)
  PROVE  Placed(e, to)'
  <1>1. TypeOK /\ CallOK /\ LiveOK /\ TreeOK
    BY DEF IInv
  <1>2. e.by \in Thread /\ e.to \in Sink /\ e.nr \in Nat /\ Born(e.to)
    BY DEF Event, Placed
  <1>3. self \in Cascade \cup {t} /\ to \in Sink /\ to \notin Thread
    BY SpliceEnds
  <1>4. Route(e.to) \subseteq Sink
    BY DEF Route
  <1>5. e.by \in Careful => to \in Route(e.to)
    <2>1. CASE self \in Cascade
      <3>1. e.by \in Careful => self \in Route(e.to)
        BY <2>1 DEF Placed
      <3> QED
        BY <1>1, <1>2, <2>1, <3>1, RouteParent
    <2>2. CASE self = t
      BY <1>2, <1>3, <1>4, <2>2, RouteSelf DEF Placed
    <2> QED
      BY <1>3, <2>1, <2>2
  <1>6. to \in Holder /\ Placed(e, to) /\ to \notin Careful
    BY <1>2, <1>3, <1>5 DEF Placed
  <1> QED
    BY <1>6, PlacedFrame

LEMMA PlaceStep ==
  ASSUME IInv, PlaceOK, [Next]_vars
  PROVE  PlaceOK'
  <1>1. TypeOK /\ CallOK /\ LiveOK /\ TreeOK
    BY DEF IInv
  <1>2. \A h \in Holder : \A i \in DOMAIN events[h] :
          events[h][i] \in Event /\ Placed(events[h][i], h)
    <2>1. \A h \in Holder : \A i \in DOMAIN events[h] : events[h][i] \in Event
      BY <1>1, ElementOfSeq DEF TypeOK
    <2> QED
      BY <2>1 DEF PlaceOK
  <1>3. \A f \in FileSink : \A i \in DOMAIN written[f] :
          written[f][i] \in Event /\ Placed(written[f][i], f)
    <2>1. \A f \in FileSink : \A i \in DOMAIN written[f] : written[f][i] \in Event
      BY <1>1, ElementOfSeq DEF TypeOK
    <2> QED
      BY <2>1 DEF PlaceOK
  <1>4. ASSUME NEW h \in Holder, NEW i \in DOMAIN events[h], NEW e, e = events[h][i],
               h \in Careful => parent'[h] = parent[h]
        PROVE  Placed(e, h)'
    BY <1>2, <1>4, PlacedFrame
  <1>5. ASSUME NEW h \in Holder, NEW i \in DOMAIN events'[h], NEW e, e = events'[h][i]
        PROVE  Placed(e, h)'
    <2>1. ASSUME NEW t \in Thread, Record(t) PROVE Placed(e, h)'
      <3>1. parent' = parent /\ life' = life /\ life[parent[t]] = "alive"
        BY <2>1 DEF Record
      <3>2. CASE i \in DOMAIN events[h] /\ e = events[h][i]
        BY <1>4, <3>1, <3>2
      <3>3. CASE h = t /\ e = NewEvent(t)
        <4>1. e.by = t /\ e.to = parent[t] /\ e.nr = recorded[t] + 1
          BY <3>3 DEF NewEvent
        <4>2. recorded'[t] = recorded[t] + 1 /\ recorded[t] \in Nat
          BY <1>1, <2>1, RecordEvents, RecordedGrows
        <4> QED
          BY <3>1, <3>3, <4>1, <4>2 DEF Placed, Born
      <3> QED
        BY <1>1, <1>5, <2>1, <3>2, <3>3, RecordEvents
    <2>2. ASSUME NEW t \in Thread, Splice(t) PROVE Placed(e, h)'
      <3>1. PICK self, to : self = call[t].self /\ to = parent[self]
        OBVIOUS
      <3>2. /\ self \in Holder /\ to \in Holder /\ self # to /\ HandsOn(self, to)
            /\ parent' = parent
        <4>1. parent' = parent
          BY <2>2 DEF Splice
        <4>2. self \in Holder /\ to \in Holder /\ self # to
          BY <2>2, <3>1, SpliceEnds
        <4>3. HandsOn(self, to)
          BY <2>2, <3>1, SpliceHands
        <4> QED
          BY <4>1, <4>2, <4>3
      <3>3. CASE i \in DOMAIN events[h] /\ e = events[h][i]
        BY <1>4, <3>2, <3>3
      <3>4. CASE h = to /\ \E a \in DOMAIN events[self] : e = events[self][a]
        <4>1. e \in Event /\ Placed(e, self)
          BY <1>2, <3>2, <3>4
        <4> QED
          BY <2>2, <3>1, <3>4, <4>1, PlacedHandedOn
      <3> QED
        BY <1>1, <1>5, <3>2, <3>3, <3>4, Origin
    <2>3. ASSUME NEW f \in FileSink, WrittenOut(f), parent' = parent PROVE Placed(e, h)'
      <3>1. i \in DOMAIN events[h] /\ e = events[h][i]
        BY <1>1, <1>5, <2>3 DEF WrittenOut, TypeOK
      <3> QED
        BY <1>4, <2>3, <3>1
    <2>4. ASSUME NEW t \in Thread, WriteOut(t) PROVE Placed(e, h)'
      BY <1>1, <2>3, <2>4, CallKinds DEF WriteOut, At
    <2>5. DestroyGlobal => Placed(e, h)'
      BY <2>3 DEF DestroyGlobal
    <2>6. ASSUME events' = events, \A t \in Careful : parent'[t] = parent[t] \/ events[t] = <<>>
          PROVE  Placed(e, h)'
      <3>1. events[h] # <<>>
        BY <1>5, <2>6
      <3> QED
        BY <1>4, <1>5, <2>6, <3>1
    <2> QED
      BY <1>1, <2>1, <2>2, <2>4, <2>5, <2>6, EventsStep
  <1>6. ASSUME NEW f \in FileSink, NEW i \in DOMAIN written'[f], NEW e, e = written'[f][i]
        PROVE  Placed(e, f)'
    <2>1. f \in Holder /\ f \notin Careful
      OBVIOUS
    <2>2. CASE written'[f] = written[f]
      BY <1>3, <1>6, <2>1, <2>2, PlacedFrame
    <2>3. CASE written'[f] = events[f]
      BY <1>2, <1>6, <2>1, <2>3, PlacedFrame
    <2>4. ASSUME NEW k \in FileSink, WrittenOut(k)
          PROVE  written'[f] = written[f] \/ written'[f] = events[f]
      BY <1>1, <2>4 DEF WrittenOut, TypeOK
    <2>5. ASSUME NEW t \in Thread, WriteOut(t)
          PROVE  written'[f] = written[f] \/ written'[f] = events[f]
      BY <1>1, <2>4, <2>5, CallKinds DEF WriteOut, At
    <2>6. DestroyGlobal => written'[f] = written[f] \/ written'[f] = events[f]
      BY <2>4 DEF DestroyGlobal
    <2>7. (\E t \in Thread : Record(t) \/ Splice(t)) => written'[f] = written[f]
      BY DEF Record, Splice
    <2> QED
      BY <1>1, <2>2, <2>3, <2>5, <2>6, <2>7, EventsStep
  <1>7. \A h \in Holder : \A i \in DOMAIN events'[h] : Placed(events[h][i], h)'
    BY <1>5 DEF Placed
  <1>8. \A f \in FileSink : \A i \in DOMAIN written'[f] : Placed(written[f][i], f)'
    BY <1>6 DEF Placed
  <1> QED
    BY <1>7, <1>8 DEF PlaceOK

(* To write out only takes events away. *)
LEMMA WriteTakes ==
  ASSUME TypeOK, CallOK,
         (\E t \in Thread : WriteOut(t)) \/ DestroyGlobal
  PROVE  \E f \in FileSink :
           /\ events'[f] = <<>> /\ \A h \in Holder \ {f} : events'[h] = events[h]
           /\ written'[f] = events[f] /\ \A k \in FileSink \ {f} : written'[k] = written[k]
  <1>1. ASSUME NEW f \in FileSink, WrittenOut(f)
        PROVE  /\ events'[f] = <<>> /\ \A h \in Holder \ {f} : events'[h] = events[h]
               /\ written'[f] = events[f] /\ \A k \in FileSink \ {f} : written'[k] = written[k]
    BY <1>1 DEF WrittenOut, TypeOK
  <1>2. \E f \in FileSink : WrittenOut(f)
    BY CallKinds DEF WriteOut, At, DestroyGlobal
  <1> QED
    BY <1>1, <1>2

LEMMA UniqueStep ==
  ASSUME IInv, PlaceOK, UniqueOK, [Next]_vars
  PROVE  UniqueOK'
  <1>1. TypeOK /\ CallOK /\ LiveOK
    BY DEF IInv
  <1> SUFFICES ASSUME NEW h \in Holder, NEW k \in Holder,
                      NEW i \in DOMAIN events'[h], NEW j \in DOMAIN events'[k],
                      events'[h][i].by = events'[k][j].by, events'[h][i].nr = events'[k][j].nr
               PROVE  h = k /\ i = j
    BY DEF UniqueOK
  <1>2. ASSUME NEW t \in Thread, Record(t) PROVE h = k /\ i = j
    <2> DEFINE Old(l, a) == a \in DOMAIN events[l] /\ events'[l][a] = events[l][a]
               New(l, a) == l = t /\ a = Len(events[t]) + 1 /\ events'[l][a] = NewEvent(t)
    <2>1. (Old(h, i) \/ New(h, i)) /\ (Old(k, j) \/ New(k, j))
      BY <1>1, <1>2, RecordEvents
    <2>2. ASSUME NEW l \in Holder, NEW a, Old(l, a)
          PROVE  ~(events'[l][a].by = NewEvent(t).by /\ events'[l][a].nr = NewEvent(t).nr)
      <3>1. events[l][a] \in Event
        BY <1>1, <2>2, ElementOfSeq DEF TypeOK
      <3>2. events[l][a].nr <= recorded[events[l][a].by] /\ events[l][a].nr \in Nat
        BY <2>2, <3>1 DEF PlaceOK, Placed, Event
      <3>3. recorded[t] \in Nat
        BY <1>1 DEF TypeOK
      <3> QED
        BY <2>2, <3>2, <3>3 DEF NewEvent
    <2>3. CASE Old(h, i) /\ Old(k, j)
      BY <2>3 DEF UniqueOK
    <2>4. CASE New(h, i) /\ New(k, j)
      BY <2>4
    <2>5. ~(Old(h, i) /\ New(k, j)) /\ ~(New(h, i) /\ Old(k, j))
      BY <2>2
    <2> QED
      BY <2>1, <2>3, <2>4, <2>5
  <1>3. ASSUME NEW t \in Thread, Splice(t) PROVE h = k /\ i = j
    <2>1. PICK self, to : self = call[t].self /\ to = parent[self]
      OBVIOUS
    <2>2. self \in Holder /\ to \in Holder /\ self # to
      BY <1>3, <2>1, SpliceEnds
    <2>3. HandsOn(self, to)
      BY <1>3, <2>1, SpliceHands
    <2> DEFINE n == Len(events[to])
               Stays(l, a) == /\ a \in DOMAIN events[l] /\ events'[l][a] = events[l][a]
                              /\ l = to => a <= n
               Moved(l, a) == l = to /\ \E b \in DOMAIN events[self] :
                                a = b + n /\ events'[l][a] = events[self][b]
    <2>4. /\ h # self /\ (Stays(h, i) \/ Moved(h, i))
          /\ k # self /\ (Stays(k, j) \/ Moved(k, j))
      BY <1>1, <2>2, <2>3, Origin
    <2>5. CASE Stays(h, i) /\ Stays(k, j)
      BY <2>5 DEF UniqueOK
    <2>6. CASE Moved(h, i) /\ Moved(k, j)
      BY <2>2, <2>6 DEF UniqueOK
    <2>7. CASE Stays(h, i) /\ Moved(k, j)
      BY <2>2, <2>4, <2>7 DEF UniqueOK
    <2>8. CASE Moved(h, i) /\ Stays(k, j)
      BY <2>2, <2>4, <2>8 DEF UniqueOK
    <2> QED
      BY <2>4, <2>5, <2>6, <2>7, <2>8
  <1>4. CASE (\E t \in Thread : WriteOut(t)) \/ DestroyGlobal
    <2>1. PICK f \in FileSink :
            events'[f] = <<>> /\ \A l \in Holder \ {f} : events'[l] = events[l]
      BY <1>1, <1>4, WriteTakes
    <2> QED
      BY <2>1 DEF UniqueOK
  <1>5. CASE events' = events
    BY <1>5 DEF UniqueOK
  <1> QED
    BY <1>1, <1>2, <1>3, <1>4, <1>5, EventsStep

(* Events of one route that two holders have. *)
LEMMA OrderStep ==
  ASSUME IInv, EmptyOK, PlaceOK, OrderOK, [Next]_vars
  PROVE  OrderOK'
  <1>1. TypeOK /\ CallOK /\ LiveOK /\ TreeOK
    BY DEF IInv
  <1>2. \A h \in Holder : \A i \in DOMAIN events[h] :
          /\ events[h][i] \in Event /\ Placed(events[h][i], h)
          /\ i \in Nat /\ Len(events[h]) \in Nat /\ i <= Len(events[h])
    <2>1. \A h \in Holder : \A i \in DOMAIN events[h] : events[h][i] \in Event
      BY <1>1, ElementOfSeq DEF TypeOK
    <2>2. \A h \in Holder : \A i \in DOMAIN events[h] :
            i \in Nat /\ Len(events[h]) \in Nat /\ i <= Len(events[h])
      BY <1>1 DEF TypeOK
    <2> QED
      BY <2>1, <2>2 DEF PlaceOK
  <1>3. ASSUME NEW h \in Holder, NEW k \in Holder,
               NEW i \in DOMAIN events'[h], NEW j \in DOMAIN events'[k],
               SameRoute(events'[h][i], events'[k][j]), Before(h, i, k, j)'
        PROVE  events'[h][i].nr < events'[k][j].nr
    <2>1. ASSUME i \in DOMAIN events[h], events'[h][i] = events[h][i],
                 j \in DOMAIN events[k], events'[k][j] = events[k][j]
          PROVE  events'[h][i].nr < events'[k][j].nr
      <3>1. events[h] # <<>> /\ events[k] # <<>>
        BY <2>1
      <3>2. Born(h) /\ Born(k)
        BY <3>1 DEF EmptyOK, Born
      <3>3. h \in Sink => depth'[h] = depth[h]
        BY <1>1, <3>2, RouteStep
      <3>4. k \in Sink => depth'[k] = depth[k]
        BY <1>1, <3>2, RouteStep
      <3>5. Before(h, i, k, j)
        BY <1>3, <3>3, <3>4 DEF Before
      <3> QED
        BY <1>3, <2>1, <3>5 DEF OrderOK
    <2>2. ASSUME NEW t \in Thread, Record(t) PROVE events'[h][i].nr < events'[k][j].nr
      <3>1. \/ i \in DOMAIN events[h] /\ events'[h][i] = events[h][i]
            \/ h = t /\ i = Len(events[t]) + 1 /\ events'[h][i] = NewEvent(t)
        BY <1>1, <2>2, RecordEvents
      <3>2. \/ j \in DOMAIN events[k] /\ events'[k][j] = events[k][j]
            \/ k = t /\ j = Len(events[t]) + 1 /\ events'[k][j] = NewEvent(t)
        BY <1>1, <2>2, RecordEvents
      <3>3. CASE h = t /\ i = Len(events[t]) + 1
        <4>1. k = t /\ i < j
          BY <1>3, <3>3 DEF Before
        <4>2. Len(events[t]) \in Nat
          BY <1>1 DEF TypeOK
        <4>3. j \in Nat /\ j <= Len(events[t]) + 1
          BY <1>2, <3>2, <4>1, <4>2
        <4> QED
          BY <3>3, <4>1, <4>2, <4>3
      <3>4. CASE /\ i \in DOMAIN events[h] /\ events'[h][i] = events[h][i]
                 /\ k = t /\ events'[k][j] = NewEvent(t)
        <4>1. events[h][i].by = t /\ events[h][i].nr <= recorded[t] /\ events[h][i].nr \in Nat
          BY <1>2, <1>3, <3>4 DEF SameRoute, NewEvent, Placed, Event
        <4>2. recorded[t] \in Nat
          BY <1>1 DEF TypeOK
        <4> QED
          BY <3>4, <4>1, <4>2 DEF NewEvent
      <3> QED
        BY <2>1, <3>1, <3>2, <3>3, <3>4
    <2>3. ASSUME NEW t \in Thread, Splice(t) PROVE events'[h][i].nr < events'[k][j].nr
      <3>1. PICK self, to : self = call[t].self /\ to = parent[self]
        OBVIOUS
      <3>2. /\ self \in Cascade \cup {t} /\ to \in Sink /\ self # to /\ to \notin Thread
            /\ life[self] # "unborn"
        BY <2>3, <3>1, SpliceEnds
      <3>3. HandsOn(self, to)
        BY <2>3, <3>1, SpliceHands
      <3>4. depth' = depth /\ \A s \in Sink : depth[s] \in Nat
        BY <1>1, <2>3 DEF Splice, TypeOK
      <3>5. self \in Cascade => depth[self] = depth[to] + 1
        BY <1>1, <3>1, <3>2 DEF TreeOK
      <3>6. Before(h, i, k, j)
        BY <1>3, <3>4 DEF Before
      <3> DEFINE n == Len(events[to])
                 Stays(l, a) == /\ a \in DOMAIN events[l] /\ events'[l][a] = events[l][a]
                                /\ l = to => a <= n
                 Moved(l, a, b) == /\ l = to /\ b \in DOMAIN events[self]
                                   /\ a = b + n /\ events'[l][a] = events[self][b]
      <3>7. /\ h # self /\ (Stays(h, i) \/ \E b : Moved(h, i, b))
            /\ k # self /\ (Stays(k, j) \/ \E b : Moved(k, j, b))
        BY <1>1, <3>2, <3>3, Origin
      <3>8. CASE Stays(h, i) /\ Stays(k, j)
        BY <2>1, <3>8
      <3>9. ASSUME NEW a, NEW b, Moved(h, i, a), Moved(k, j, b)
            PROVE  events'[h][i].nr < events'[k][j].nr
        <4>1. a \in Nat /\ b \in Nat /\ n \in Nat
          BY <1>1, <1>2, <3>2, <3>9 DEF TypeOK
        <4>2. i < j
          BY <3>6, <3>2, <3>4, <3>9 DEF Before
        <4>3. a < b
          BY <3>9, <4>1, <4>2
        <4> QED
          BY <1>3, <3>2, <3>9, <4>3 DEF Before, OrderOK
      <3>10. ASSUME NEW b, Stays(h, i), Moved(k, j, b)
             PROVE  events'[h][i].nr < events'[k][j].nr
        <4>1. h \in Sink /\ (h = to \/ depth[h] < depth[to])
          BY <3>2, <3>6, <3>10 DEF Before
        <4>2. self \in Cascade => depth[h] < depth[self]
          BY <3>2, <3>4, <3>5, <4>1
        <4>3. Before(h, i, self, b)
          BY <3>2, <4>1, <4>2 DEF Before
        <4> QED
          BY <1>3, <3>2, <3>10, <4>3 DEF OrderOK
      <3>11. ASSUME NEW a, Moved(h, i, a), Stays(k, j)
             PROVE  events'[h][i].nr < events'[k][j].nr
        <4> DEFINE d == events[self][a]
                   e == events[k][j]
        <4>1. /\ d \in Event /\ Placed(d, self) /\ e \in Event /\ Placed(e, k)
              /\ SameRoute(d, e) /\ a \in Nat /\ n \in Nat
          BY <1>1, <1>2, <1>3, <3>2, <3>11 DEF TypeOK
        <4>2. k # to
          <5>1. k = to => j <= n /\ i = a + n /\ j \in Nat
            BY <1>2, <3>11
          <5>2. h = to
            BY <3>11
          <5>3. k = to => i < j
            BY <3>2, <3>4, <3>6, <5>2 DEF Before
          <5> QED
            BY <4>1, <5>1, <5>3
        <4>3. k \in Thread \/ (k \in Sink /\ depth[to] < depth[k])
          BY <3>2, <3>6, <3>11, <4>2 DEF Before
        <4>4. d.to \in Sink /\ Born(d.to) /\ d.to = e.to /\ d.by = e.by /\ d.by \in Careful
          BY <4>1 DEF Event, Placed, SameRoute
        <4>5. CASE self = t
          <5>1. d.by = t /\ Route(d.to) \subseteq Sink
            BY <4>1, <4>5 DEF Placed, Route
          <5>2. d.to = to
            BY <3>1, <4>1, <4>4, <4>5, <5>1 DEF Placed
          <5>3. k \in Sink
            BY <3>7, <4>1, <4>3, <4>4, <4>5, <5>1 DEF Placed
          <5>4. k \in Route(to)
            BY <4>1, <4>4, <5>2, <5>3 DEF Placed
          <5>5. depth[k] = depth[to] \/ depth[k] < depth[to]
            BY <1>1, <3>2, <4>4, <5>2, <5>4, RouteDepth
          <5> QED
            BY <3>2, <3>4, <4>3, <5>3, <5>5
        <4>6. CASE self \in Cascade
          <5>1. self \in Route(d.to)
            BY <4>1, <4>4, <4>6 DEF Placed
          <5>2. k \in Sink => k \in Route(d.to) /\ depth[k] # depth[self]
            <6>1. k \in Sink => k \in Route(d.to)
              BY <4>1, <4>4 DEF Placed
            <6> QED
              BY <1>1, <3>7, <4>4, <5>1, <6>1, RouteChain
          <5>3. k \in Sink => depth[self] < depth[k]
            BY <3>2, <3>4, <3>5, <4>3, <4>6, <5>2
          <5>4. Before(self, a, k, j)
            BY <4>3, <4>6, <5>3 DEF Before
          <5> QED
            BY <3>2, <3>11, <4>1, <5>4 DEF OrderOK
        <4> QED
          BY <3>2, <4>5, <4>6
      <3> QED
        BY <3>7, <3>8, <3>9, <3>10, <3>11
    <2>4. CASE (\E t \in Thread : WriteOut(t)) \/ DestroyGlobal
      <3>1. PICK f \in FileSink :
              events'[f] = <<>> /\ \A l \in Holder \ {f} : events'[l] = events[l]
        BY <1>1, <2>4, WriteTakes
      <3>2. h # f /\ k # f
        BY <1>3, <3>1
      <3> QED
        BY <1>3, <2>1, <3>1, <3>2
    <2>5. CASE events' = events
      BY <1>3, <2>1, <2>5
    <2> QED
      BY <1>1, <2>2, <2>3, <2>4, <2>5, EventsStep
  <1>4. ASSUME NEW f \in FileSink, NEW i \in DOMAIN written'[f], NEW j \in DOMAIN written'[f],
               SameRoute(written'[f][i], written'[f][j]), i < j
        PROVE  written'[f][i].nr < written'[f][j].nr
    <2>1. CASE written'[f] = written[f]
      BY <1>4, <2>1 DEF OrderOK
    <2>2. CASE written'[f] = events[f]
      BY <1>4, <2>2 DEF OrderOK, Before
    <2>3. CASE (\E t \in Thread : WriteOut(t)) \/ DestroyGlobal
      BY <1>1, <2>1, <2>2, <2>3, WriteTakes
    <2>4. (\E t \in Thread : Record(t) \/ Splice(t)) => written'[f] = written[f]
      BY DEF Record, Splice
    <2> QED
      BY <1>1, <2>1, <2>3, <2>4, EventsStep
  <1> QED
    BY <1>3, <1>4 DEF OrderOK, SameRoute

-----------------------------------------------------------------------------
LEMMA InitDInv == Init => DInv
  <1> SUFFICES ASSUME Init PROVE DInv
    OBVIOUS
  <1>1. /\ \A h \in Holder : events[h] = <<>>
        /\ \A f \in FileSink : written[f] = <<>> /\ root[f] = f
        /\ \A t \in Thread : call[t].op = "none"
        /\ \A c \in Cascade : ~Born(c)
        /\ life[Global] = "alive"
    BY DEF Init, InitWith, Idle, Born
  <1>2. RootOK /\ EmptyOK /\ WriteOnce
    BY <1>1 DEF RootOK, EmptyOK, WriteOnce
  <1>3. PlaceOK /\ UniqueOK /\ OrderOK
    BY <1>1 DEF PlaceOK, UniqueOK, OrderOK
  <1> QED
    BY <1>2, <1>3, InitInv DEF DInv

LEMMA DInvStep == DInv /\ [Next]_vars => DInv'
  <1> SUFFICES ASSUME DInv, [Next]_vars PROVE DInv'
    OBVIOUS
  <1>1. IInv' /\ RootOK'
    BY InvStep, RootStep DEF DInv, IInv
  <1>2. EmptyOK' /\ WriteOnce'
    BY EmptyStep, WriteOnceStep DEF DInv
  <1>3. PlaceOK' /\ UniqueOK' /\ OrderOK'
    BY PlaceStep, UniqueStep, OrderStep DEF DInv
  <1> QED
    BY <1>1, <1>2, <1>3 DEF DInv

(* The invariant on which the theorems below rest: an event is in one      *)
(* place only; one of a thread that flushes before it switches is between  *)
(* its thread and the file of its sink, and no later one has overtaken it; *)
(* what is destroyed holds none, and a sink writes once.                   *)
THEOREM DeliveryInvariance == Spec => []DInv
  BY InitDInv, DInvStep, PTL DEF Spec

(* What a careful thread records while diverted to one sink keeps its      *)
(* order in every list and every file, however many cascades it passes     *)
(* through and whoever flushes them, whenever.                             *)
THEOREM OrderKept == Spec => []RouteOrder
  <1>1. ASSUME DInv PROVE RouteOrder
    <2> SUFFICES ASSUME NEW p \in Places, NEW i \in DOMAIN Content(p), NEW j \in DOMAIN Content(p),
                        i < j, SameRoute(Content(p)[i], Content(p)[j])
                 PROVE  Content(p)[i].nr < Content(p)[j].nr
      BY DEF RouteOrder, SameRoute
    <2>1. CASE p \in [list : Holder]
      <3>1. Content(p) = events[p.list] /\ p.list \in Holder
        BY <2>1 DEF Content
      <3> QED
        BY <1>1, <3>1 DEF DInv, OrderOK, Before
    <2>2. CASE p \in [file : FileSink]
      <3>1. Content(p) = written[p.file] /\ p.file \in FileSink
        BY <2>2 DEF Content
      <3> QED
        BY <1>1, <3>1 DEF DInv, OrderOK
    <2> QED
      BY <2>1, <2>2 DEF Places
  <1> QED
    BY <1>1, DeliveryInvariance, PTL

(* What a careful thread records while diverted to a sink is only written  *)
(* to the file at the end of that sink's chain of parents.                 *)
THEOREM FileChosen == Spec => []ChosenFile
  <1>1. ASSUME DInv PROVE ChosenFile
    <2> SUFFICES ASSUME NEW f \in FileSink, NEW i \in DOMAIN written[f],
                        written[f][i].by \in Careful
                 PROVE  root[written[f][i].to] = f
      BY DEF ChosenFile
    <2> DEFINE e == written[f][i]
    <2>1. TypeOK /\ TreeOK /\ RootOK /\ e \in Event /\ Placed(e, f)
      BY <1>1, ElementOfSeq DEF DInv, IInv, TypeOK, PlaceOK
    <2>2. e.to \in Sink /\ Born(e.to) /\ f \in Route(e.to)
      BY <2>1 DEF Placed, Event
    <2> HIDE DEF e
    <2>3. root[e.to] = f
      BY <2>1, <2>2, RouteRoot
    <2> QED
      BY <2>3 DEF e
  <1> QED
    BY <1>1, DeliveryInvariance, PTL

-----------------------------------------------------------------------------
(* The refinement: to record and to write out are steps of EventDelivery,  *)
(* to hand on and everything else changes nothing its users can see.       *)
Pending == UNION {{events[h][i] : i \in DOMAIN events[h]} : h \in Holder}

Closed == life[Global] = "dead"

Seen == <<recorded, Pending, written, Closed>>

LEMMA InPending ==
  ASSUME NEW e
  PROVE  /\ e \in Pending <=> \E h \in Holder : \E i \in DOMAIN events[h] : e = events[h][i]
         /\ e \in Pending' <=> \E h \in Holder : \E i \in DOMAIN events'[h] : e = events'[h][i]
  BY DEF Pending

(* Only the destructor of the global sink closes. *)
LEMMA ClosedStep ==
  ASSUME DInv, [Next]_vars
  PROVE  IF DestroyGlobal THEN ~Closed /\ Closed' ELSE Closed' = Closed
  <1>1. TypeOK /\ CallOK
    BY DEF DInv, IInv
  <1>2. CASE DestroyGlobal
    BY <1>1, <1>2 DEF DestroyGlobal, Closed, TypeOK
  <1>3. CASE ~DestroyGlobal
    <2>1. life[Global] = "alive" => life'[Global] = "alive"
      BY <1>1, <1>3, LifeChange
    <2>2. life[Global] = "dead" => life'[Global] = "dead"
      BY <1>1, DeadStays
    <2>3. life[Global] \in {"alive", "dead"}
      BY DEF DInv, EmptyOK
    <2> QED
      BY <1>3, <2>1, <2>2, <2>3 DEF Closed
  <1> QED
    BY <1>2, <1>3

LEMMA RecordDelivers ==
  ASSUME DInv, [Next]_vars, NEW t \in Thread, Record(t)
  PROVE  Delivery!Record(t)
  <1>1. TypeOK /\ CallOK /\ LiveOK
    BY DEF DInv, IInv
  <1>2. ~Closed /\ Closed' = Closed
    <2>1. life[t] = "alive" /\ life' = life
      BY DEF Record, Running
    <2> QED
      BY <2>1 DEF DInv, EmptyOK, Closed
  <1>3. Pending' = Pending \cup {NewEvent(t)}
    <2>1. \A h \in Holder : \A i \in DOMAIN events'[h] :
            \/ i \in DOMAIN events[h] /\ events'[h][i] = events[h][i]
            \/ events'[h][i] = NewEvent(t)
      BY <1>1, RecordEvents
    <2>2. \A h \in Holder : \A i \in DOMAIN events[h] :
            i \in DOMAIN events'[h] /\ events'[h][i] = events[h][i]
      <3>1. \A h \in Holder \ {t} : events'[h] = events[h]
        BY <1>1, RecordEvents
      <3>2. events'[t] = Append(events[t], NewEvent(t)) /\ events[t] \in Seq(Event)
        BY <1>1 DEF Record, NewEvent, TypeOK
      <3>3. \A i \in DOMAIN events[t] : i \in DOMAIN events'[t] /\ events'[t][i] = events[t][i]
        BY <3>2
      <3> QED
        BY <3>1, <3>3
    <2>3. \E i \in DOMAIN events'[t] : events'[t][i] = NewEvent(t)
      <3>1. events'[t] = Append(events[t], NewEvent(t)) /\ events[t] \in Seq(Event)
        BY <1>1 DEF Record, NewEvent, TypeOK
      <3>2. Len(events[t]) + 1 \in DOMAIN events'[t]
        BY <3>1
      <3>3. events'[t][Len(events[t]) + 1] = NewEvent(t)
        BY <3>1
      <3> QED
        BY <3>2, <3>3
    <2>4. ASSUME NEW e PROVE e \in Pending' <=> e \in Pending \/ e = NewEvent(t)
      BY <2>1, <2>2, <2>3, InPending
    <2> QED
      BY <2>4
  <1>4. parent[t] \in Sink
    BY <1>1, RecordEvents DEF NewEvent, Event
  <1>5. /\ recorded[t] < MaxEvents /\ recorded' = [recorded EXCEPT ![t] = @ + 1]
        /\ written' = written
    BY DEF Record
  <1> QED
    BY <1>2, <1>3, <1>4, <1>5 DEF Delivery!Record, Pending, Closed, NewEvent

LEMMA WritesDeliver ==
  ASSUME DInv, [Next]_vars, (\E t \in Thread : WriteOut(t)) \/ DestroyGlobal
  PROVE  \E f \in FileSink : Delivery!WriteOut(f)
  <1>1. TypeOK /\ CallOK /\ LiveOK
    BY DEF DInv, IInv
  <1>2. PICK f \in FileSink :
          /\ WrittenOut(f) /\ written[f] = <<>> /\ (f = Global <=> DestroyGlobal) /\ ~Closed
          /\ recorded' = recorded
    <2>1. ASSUME NEW t \in Thread, WriteOut(t)
          PROVE  LET f == call[t].self
                 IN  /\ f \in FileSink /\ WrittenOut(f) /\ written[f] = <<>> /\ f # Global
                     /\ ~DestroyGlobal /\ ~Closed /\ recorded' = recorded
      <3>1. call[t].at = "write" /\ life' = life
        BY <2>1 DEF WriteOut, At
      <3>2. /\ call[t].self \in FileSink /\ call[t].op = "destroy"
            /\ life[call[t].self] = "dying" /\ call[t] # Idle
        BY <1>1, <3>1, CallKinds
      <3>3. call[t].self # Global
        BY <3>2 DEF DInv, EmptyOK
      <3>4. life[t] = "alive"
        BY <1>1, <3>2 DEF CallOK, InCall
      <3>5. ~Closed /\ ~DestroyGlobal
        BY <3>1, <3>4 DEF DInv, EmptyOK, Closed, DestroyGlobal
      <3>6. written[call[t].self] = <<>>
        BY <3>1, <3>2 DEF DInv, WriteOnce, At
      <3> QED
        BY <2>1, <3>2, <3>3, <3>5, <3>6 DEF WriteOut
    <2>2. ASSUME DestroyGlobal
          PROVE  WrittenOut(Global) /\ written[Global] = <<>> /\ ~Closed /\ recorded' = recorded
      <3>1. life[Global] = "alive"
        BY <2>2 DEF DestroyGlobal
      <3> QED
        BY <2>2, <3>1 DEF DestroyGlobal, DInv, WriteOnce, Closed
    <2> QED
      BY <2>1, <2>2
  <1> DEFINE batch == events[f]
  <1>3. /\ batch \in Seq(Event) /\ written' = [written EXCEPT ![f] = batch]
        /\ written'[f] = batch
        /\ events'[f] = <<>> /\ \A h \in Holder \ {f} : events'[h] = events[h]
    BY <1>1, <1>2 DEF WrittenOut, TypeOK
  <1>4. Delivery!IsInjective(batch)
    BY DEF Delivery!IsInjective, DInv, UniqueOK
  <1>5. Delivery!ToSet(batch) \subseteq Pending
    BY InPending DEF Delivery!ToSet
  <1>6. Delivery!InOrder(batch)
    BY DEF Delivery!InOrder, DInv, OrderOK, SameRoute, Before
  <1>7. Pending' = Pending \ Delivery!ToSet(batch)
    <2>1. ASSUME NEW h \in Holder \ {f}, NEW i \in DOMAIN events[h], NEW j \in DOMAIN batch
          PROVE  events[h][i] # batch[j]
      BY <2>1 DEF DInv, UniqueOK
    <2>2. ASSUME NEW e
          PROVE  e \in Pending' <=> e \in Pending /\ ~\E j \in DOMAIN batch : e = batch[j]
      <3>1. e \in Pending' <=>
              \E h \in Holder \ {f} : \E i \in DOMAIN events[h] : e = events[h][i]
        BY <1>3, InPending
      <3>2. e \in Pending <=>
              \/ \E h \in Holder \ {f} : \E i \in DOMAIN events[h] : e = events[h][i]
              \/ \E j \in DOMAIN batch : e = batch[j]
        BY InPending
      <3> QED
        BY <2>1, <3>1, <3>2
    <2> QED
      BY <2>2 DEF Delivery!ToSet
  <1>8. Closed' = (f = Global)
    BY <1>2, ClosedStep DEF Closed
  <1>9. f = Global => Pending' = {}
    <2>1. ASSUME f = Global, NEW h \in Holder PROVE events'[h] = <<>>
      <3>1. \A t \in Thread : life[t] = "dead"
        BY <1>2, <2>1 DEF DestroyGlobal
      <3>2. \A s \in Sink \ {Global} : life[s] \in {"unborn", "dead"}
        BY <1>1, <3>1 DEF LiveOK
      <3>3. h # Global => events[h] = <<>>
        BY <3>1, <3>2 DEF DInv, EmptyOK
      <3> QED
        BY <1>3, <2>1, <3>3
    <2> QED
      BY <2>1, InPending
  <1>10. Delivery!WriteOut(f)
    BY <1>2, <1>3, <1>4, <1>5, <1>6, <1>7, <1>8, <1>9
    DEF Delivery!WriteOut, Pending, Closed
  <1> QED
    BY <1>10

LEMMA HandingOnIsUnseen ==
  ASSUME DInv, [Next]_vars, NEW t \in Thread, Splice(t)
  PROVE  UNCHANGED Seen
  <1>1. TypeOK /\ CallOK
    BY DEF DInv, IInv
  <1>2. UNCHANGED <<recorded, written, life>>
    BY DEF Splice
  <1>3. PICK self, to : self = call[t].self /\ to = parent[self]
    OBVIOUS
  <1>4. self \in Holder /\ to \in Holder /\ self # to
    BY <1>3, SpliceEnds DEF DInv
  <1>5. HandsOn(self, to)
    BY <1>3, SpliceHands DEF DInv
  <1>6. \A h \in Holder : \A i \in DOMAIN events'[h] :
          \E k \in Holder : \E j \in DOMAIN events[k] : events'[h][i] = events[k][j]
    BY <1>1, <1>4, <1>5, Origin
  <1>7. \A k \in Holder : \A j \in DOMAIN events[k] :
          \E h \in Holder : \E i \in DOMAIN events'[h] : events'[h][i] = events[k][j]
    <2>1. /\ events'[to] = events[to] \o events[self]
          /\ \A h \in Holder \ {self, to} : events'[h] = events[h]
      BY <1>1, <1>4, <1>5 DEF HandsOn, TypeOK
    <2>2. ASSUME NEW q \in Seq(Event), NEW r \in Seq(Event)
          PROVE  /\ \A j \in DOMAIN q : j \in DOMAIN (q \o r) /\ (q \o r)[j] = q[j]
                 /\ \A j \in DOMAIN r :
                      Len(q) + j \in DOMAIN (q \o r) /\ (q \o r)[Len(q) + j] = r[j]
      BY <2>2
    <2>3. /\ \A j \in DOMAIN events[to] :
               j \in DOMAIN events'[to] /\ events'[to][j] = events[to][j]
          /\ \A j \in DOMAIN events[self] :
               /\ Len(events[to]) + j \in DOMAIN events'[to]
               /\ events'[to][Len(events[to]) + j] = events[self][j]
      <3> DEFINE q == events[to]
                 r == events[self]
      <3>1. q \in Seq(Event) /\ r \in Seq(Event)
        BY <1>1, <1>4 DEF TypeOK
      <3> HIDE DEF q, r
      <3>2. /\ \A j \in DOMAIN q : j \in DOMAIN (q \o r) /\ (q \o r)[j] = q[j]
            /\ \A j \in DOMAIN r :
                 Len(q) + j \in DOMAIN (q \o r) /\ (q \o r)[Len(q) + j] = r[j]
        BY <2>2, <3>1
      <3> QED
        BY <2>1, <3>2 DEF q, r
    <2>4. ASSUME NEW k \in Holder, NEW j \in DOMAIN events[k]
          PROVE  \E h \in Holder : \E i \in DOMAIN events'[h] : events'[h][i] = events[k][j]
      <3>1. CASE k \notin {self, to}
        BY <2>1, <2>4, <3>1
      <3>2. CASE k = to
        <4>1. j \in DOMAIN events'[to] /\ events'[to][j] = events[k][j]
          BY <2>3, <2>4, <3>2
        <4> QED
          BY <1>4, <4>1
      <3>3. CASE k = self
        <4> DEFINE i == Len(events[to]) + j
        <4>1. i \in DOMAIN events'[to] /\ events'[to][i] = events[k][j]
          BY <2>3, <2>4, <3>3
        <4> HIDE DEF i
        <4> QED
          BY <1>4, <4>1
      <3> QED
        BY <3>1, <3>2, <3>3
    <2> QED
      BY <2>4
  <1>8. Pending' = Pending
    <2>1. \A e : e \in Pending' <=> e \in Pending
      BY <1>6, <1>7, InPending
    <2> QED
      BY <2>1
  <1> QED
    BY <1>2, <1>8 DEF Seen, Closed

(* Every behaviour of the sinks is one EventDelivery allows: no event is   *)
(* lost on its way, none is written twice, a file is written once, and     *)
(* nothing is left over when the process ends.                             *)
THEOREM DeliveryImplemented == Spec => ImplementsDelivery
  <1>1. Init => Delivery!Init
    <2> SUFFICES ASSUME Init PROVE Delivery!Init
      OBVIOUS
    <2>1. \A h \in Holder : events[h] = <<>>
      BY DEF Init, InitWith
    <2>2. Pending = {}
      BY <2>1, InPending
    <2>3. life[Global] = "alive" /\ recorded = [t \in Thread |-> 0]
            /\ written = [f \in FileSink |-> <<>>]
      BY DEF Init, InitWith
    <2> QED
      BY <2>2, <2>3 DEF Delivery!Init, Pending
  <1>2. DInv /\ [Next]_vars => [Delivery!Next]_(Delivery!deliveryVars)
    <2> SUFFICES ASSUME DInv, [Next]_vars
                 PROVE  Delivery!Next \/ UNCHANGED Seen
      BY DEF Delivery!deliveryVars, Seen, Pending, Closed
    <2>1. TypeOK
      BY DEF DInv, IInv
    <2>2. CASE UNCHANGED <<events, recorded, written>> /\ ~DestroyGlobal
      BY <2>2, ClosedStep DEF Seen, Pending
    <2> QED
      BY <2>1, <2>2, EventsStep, RecordDelivers, WritesDeliver, HandingOnIsUnseen
      DEF Delivery!Next
  <1> QED
    BY <1>1, <1>2, DeliveryInvariance, PTL DEF Spec, ImplementsDelivery, Delivery!Spec
=============================================================================
