---------------------------- MODULE FileSinkProofs ----------------------------
(***************************************************************************)
(* Proofs about FileSink, for any number of sinks, files and writers: what *)
(* ends up in files and what custom writers see, whatever fails and in     *)
(* whatever order the destructors of sinks interleave.                     *)
(***************************************************************************)
EXTENDS FileSink, TLAPS, SequenceTheorems

USE FileSinkAssumption

Stage == {"alive", "name", "target", "prepare", "write", "finalize", "gone"}
Piece == {"[", "]", "before", "hole"} \cup (Sink \X Nat)
Call == Piece \cup {"prepare", "finalize"}

EventsType == events \in [Sink -> Seq(Sink \X Nat)]

TargetsType ==
  /\ target_filename \in [Sink -> Target]
  /\ custom_writer \in [Sink -> Writer \cup {NoWriter}]
  /\ spare \in SUBSET Writer

StageType == at \in [Sink -> Stage] /\ reported \in SUBSET Sink /\ terminated \in BOOLEAN

TempsType ==
  /\ buffer \in [Sink -> TempFile \cup {Template, NoFile}]
  /\ made \in [Sink -> SUBSET TempFile]

StreamType ==
  /\ stream \in [Sink -> AnyFile \cup {NoFile}]
  /\ good \in [Sink -> BOOLEAN]
  /\ written \in [Sink -> Nat]

ContentType ==
  /\ DOMAIN content \in SUBSET AnyFile
  /\ File \cup {Stdout} \subseteq DOMAIN content
  /\ content \in [DOMAIN content -> Seq(Piece)]

CallsType == calls \in [Writer -> Seq(Call)]

Types ==
  /\ EventsType /\ TargetsType /\ StageType /\ TempsType
  /\ StreamType /\ ContentType /\ CallsType

-----------------------------------------------------------------------------
HasWriter(s) == custom_writer[s] # NoWriter
Made(s) == made[s] = {buffer[s]} /\ buffer[s] \in TempFile
Untouched(s) == stream[s] = NoFile /\ written[s] = 0 /\ good[s] /\ s \notin reported
NoTemp(s) == made[s] = {} /\ buffer[s] = NoFile

(* What a sink that writes has: its name, or the file made for it. *)
Named(s) ==
  /\ events[s] # <<>>
  /\ HasWriter(s) => NoTemp(s)
  /\ ~HasWriter(s) => /\ target_filename[s] # Empty
                      /\ target_filename[s] = Template => Made(s)
                      /\ target_filename[s] # Template => NoTemp(s)

(* How many calls a writer was given by the time its sink is at a place;   *)
(* an exception that terminates the program is thrown in the next one.     *)
CallsMade(s, n) == HasWriter(s) => terminated \/ Len(calls[custom_writer[s]]) = n

StageOK(s) ==
  CASE at[s] = "alive" -> Untouched(s) /\ NoTemp(s)
    [] at[s] = "name" -> /\ Untouched(s) /\ NoTemp(s) /\ events[s] # <<>>
                         /\ ~HasWriter(s) /\ target_filename[s] = Template
    [] at[s] = "target" -> /\ Untouched(s) /\ Made(s) /\ events[s] # <<>>
                           /\ ~HasWriter(s) /\ target_filename[s] = Template
    [] at[s] = "prepare" -> Untouched(s) /\ Named(s) /\ CallsMade(s, 0)
    [] at[s] = "write" ->
         /\ Named(s) /\ s \notin reported
         /\ terminated \/ written[s] < Len(events[s]) + 2
         /\ CallsMade(s, written[s] + 1)
         /\ ~HasWriter(s) => stream[s] = Destination(s)
         /\ HasWriter(s) => stream[s] = NoFile
    [] at[s] = "finalize" ->
         /\ Named(s) /\ s \notin reported /\ written[s] = Len(events[s]) + 2
         /\ CallsMade(s, written[s] + 1)
         /\ ~HasWriter(s) => stream[s] = Destination(s)
         /\ HasWriter(s) => stream[s] = NoFile
    [] at[s] = "gone" ->
         \/ s \in reported
         \/ Untouched(s) /\ events[s] = <<>>
         \/ Untouched(s) /\ target_filename[s] = Empty /\ ~HasWriter(s)
         \/ /\ written[s] = Len(events[s]) + 2
            /\ HasWriter(s) => Len(calls[custom_writer[s]]) = written[s] + 2

(* Temporary files belong to one sink each. *)
TempOK ==
  /\ \A s \in Sink : /\ made[s] \subseteq DOMAIN content
                     /\ \A f \in made[s] : made[s] = {f}
                     /\ stream[s] \in TempFile => stream[s] \in made[s]
                     /\ stream[s] \in DOMAIN content \cup {NoFile}
  /\ \A s, o \in Sink : s # o => made[s] \cap made[o] = {}

(* So do writers, and one that was called belongs to a sink. *)
WriterOK ==
  /\ \A s, o \in Sink : HasWriter(s) /\ custom_writer[s] = custom_writer[o] => s = o
  /\ \A s \in Sink : custom_writer[s] \notin spare
  /\ \A w \in Writer : calls[w] # <<>> => \E s \in Sink : custom_writer[s] = w /\ at[s] # "alive"

(* A sequence that is the beginning of another one. *)
Begins(q, full) == Len(q) <= Len(full) /\ \A i \in 1 .. Len(q) : q[i] = full[i]

AllCalls(s) == <<"prepare">> \o Trace(s) \o <<"finalize">>

CallsOK == \A s \in Sink : HasWriter(s) => Begins(calls[custom_writer[s]], AllCalls(s))

(* A file of one sink has the pieces that were written, as long as that    *)
(* went well.                                                              *)
FileOK ==
  \A s \in Sink :
    (/\ stream[s] \in AnyFile \ {Stdout} /\ good[s] /\ s \notin reported
     /\ \A o \in Sink \ {s} : stream[o] # stream[s])
    => /\ ~HasWriter(s)
       /\ Len(content[stream[s]]) = written[s]
       /\ Begins(content[stream[s]], Trace(s))

FInv ==
  /\ Types /\ \A s \in Sink : StageOK(s)
  /\ TempOK /\ WriterOK /\ CallsOK /\ FileOK

-----------------------------------------------------------------------------
(* Sequences that begin other ones.                                        *)
LEMMA BeginsIsPrefix ==
  ASSUME NEW S, NEW q \in Seq(S), NEW full \in Seq(S), Begins(q, full)
  PROVE  IsPrefix(q, full)
  <1>1. Len(q) \in Nat /\ Len(full) \in Nat /\ Len(q) <= Len(full)
    BY DEF Begins
  <1>2. SubSeq(q, 1, Len(q)) = SubSeq(full, 1, Len(q))
    <2>1. \A i \in 1 .. Len(q) : q[i] = full[i]
      BY DEF Begins
    <2>2. SubSeq(q, 1, Len(q)) = [i \in 1 .. Len(q) |-> q[i]]
      BY <1>1
    <2>3. SubSeq(full, 1, Len(q)) = [i \in 1 .. Len(q) |-> full[i]]
      BY <1>1
    <2> QED
      BY <2>1, <2>2, <2>3
  <1> QED
    BY <1>1, <1>2 DEF IsPrefix

LEMMA BeginsWhole ==
  ASSUME NEW S, NEW q \in Seq(S), NEW full \in Seq(S), Begins(q, full), Len(q) = Len(full)
  PROVE  q = full
  BY DEF Begins

LEMMA BeginsNext ==
  ASSUME NEW S, NEW q \in Seq(S), NEW full \in Seq(S), Begins(q, full), Len(q) < Len(full)
  PROVE  /\ Append(q, full[Len(q) + 1]) \in Seq(S)
         /\ Len(Append(q, full[Len(q) + 1])) = Len(q) + 1
         /\ Begins(Append(q, full[Len(q) + 1]), full)
  <1> DEFINE x == full[Len(q) + 1]
             r == Append(q, x)
  <1>1. x \in S /\ Len(q) \in Nat
    OBVIOUS
  <1>2. r \in Seq(S) /\ Len(r) = Len(q) + 1 /\ r[Len(q) + 1] = x
        /\ \A i \in 1 .. Len(q) : r[i] = q[i]
    BY <1>1
  <1> HIDE DEF r
  <1> QED
    BY <1>1, <1>2 DEF Begins

LEMMA NothingBegins ==
  ASSUME NEW S, NEW full \in Seq(S)
  PROVE  Begins(<<>>, full)
  BY DEF Begins

LEMMA Wrapped ==
  ASSUME NEW S, NEW x \in S, NEW y \in S, NEW t \in Seq(S)
  PROVE  /\ <<x>> \o t \o <<y>> \in Seq(S)
         /\ Len(<<x>> \o t \o <<y>>) = Len(t) + 2
         /\ (<<x>> \o t \o <<y>>)[1] = x
         /\ \A i \in 1 .. Len(t) : (<<x>> \o t \o <<y>>)[i + 1] = t[i]
         /\ (<<x>> \o t \o <<y>>)[Len(t) + 2] = y
  <1> DEFINE p == <<x>>
             q == <<y>>
             pt == p \o t
             all == pt \o q
             n == Len(t)
  <1>1. p \in Seq(S) /\ Len(p) = 1 /\ p[1] = x /\ q \in Seq(S) /\ Len(q) = 1 /\ q[1] = y /\ n \in Nat
    OBVIOUS
  <1> HIDE DEF p, q
  <1>2. /\ pt \in Seq(S) /\ Len(pt) = 1 + n
        /\ \A i \in 1 .. 1 + n : pt[i] = IF i <= 1 THEN p[i] ELSE t[i - 1]
    <2>1. /\ pt \in Seq(S) /\ Len(pt) = Len(p) + n
          /\ \A i \in 1 .. Len(p) + n : pt[i] = IF i <= Len(p) THEN p[i] ELSE t[i - Len(p)]
      BY <1>1, ConcatProperties
    <2> HIDE DEF pt
    <2> QED
      BY <1>1, <2>1
  <1> HIDE DEF pt
  <1>3. /\ all \in Seq(S) /\ Len(all) = n + 2
        /\ \A i \in 1 .. n + 2 : all[i] = IF i <= n + 1 THEN pt[i] ELSE q[i - (n + 1)]
    <2>1. /\ all \in Seq(S) /\ Len(all) = Len(pt) + Len(q)
          /\ \A i \in 1 .. Len(pt) + Len(q) : all[i] = IF i <= Len(pt) THEN pt[i] ELSE q[i - Len(pt)]
      <3>1. pt \in Seq(S) /\ q \in Seq(S)
        BY <1>1, <1>2
      <3> QED
        BY <3>1, ConcatProperties
    <2> HIDE DEF all
    <2> QED
      BY <1>1, <1>2, <2>1
  <1>4. all[1] = x /\ all[n + 2] = y
    <2> HIDE DEF all
    <2>1. all[1] = pt[1] /\ pt[1] = p[1]
      BY <1>1, <1>2, <1>3
    <2>2. all[n + 2] = q[1]
      <3>1. n + 2 \in 1 .. n + 2 /\ ~(n + 2 <= n + 1) /\ (n + 2) - (n + 1) = 1
        BY <1>1
      <3> QED
        BY <1>3, <3>1
    <2> QED
      BY <1>1, <2>1, <2>2
  <1>5. ASSUME NEW i \in 1 .. n PROVE all[i + 1] = t[i]
    <2> HIDE DEF all
    <2>1. i + 1 \in 1 .. n + 2 /\ i + 1 <= n + 1 /\ i + 1 \in 1 .. 1 + n /\ ~(i + 1 <= 1) /\ (i + 1) - 1 = i
      BY <1>1
    <2>2. all[i + 1] = pt[i + 1]
      BY <1>3, <2>1
    <2>3. pt[i + 1] = t[i]
      BY <1>2, <2>1
    <2> QED
      BY <2>2, <2>3
  <1> QED
    BY <1>3, <1>4, <1>5 DEF p, q, pt

(* The pieces t of the trace of some events, and the calls that hand them  *)
(* to a writer.                                                            *)
Shape(evts, t, all) ==
  /\ Len(evts) \in Nat
  /\ t \in Seq(Piece) /\ t \in Seq(Call) /\ Len(t) = Len(evts) + 2
  /\ all \in Seq(Call) /\ Len(all) = Len(evts) + 4
  /\ all[1] = "prepare"
  /\ \A i \in 1 .. Len(evts) + 2 : all[i + 1] = t[i]
  /\ all[Len(evts) + 4] = "finalize"

LEMMA PiecesShape ==
  ASSUME NEW evts \in Seq(Sink \X Nat), NEW t, t = <<"[">> \o evts \o <<"]">>,
         NEW all, all = <<"prepare">> \o t \o <<"finalize">>
  PROVE  Shape(evts, t, all)
  <1>1. evts \in Seq(Piece) /\ Len(evts) \in Nat
    BY DEF Piece
  <1>2. "[" \in Piece /\ "]" \in Piece /\ "prepare" \in Call /\ "finalize" \in Call
    BY DEF Piece, Call
  <1>3. t \in Seq(Piece) /\ Len(t) = Len(evts) + 2
    BY <1>1, <1>2, Wrapped
  <1>4. t \in Seq(Call)
    BY <1>3 DEF Call
  <1>5. /\ all \in Seq(Call) /\ Len(all) = Len(t) + 2 /\ all[1] = "prepare"
        /\ \A i \in 1 .. Len(t) : all[i + 1] = t[i]
        /\ all[Len(t) + 2] = "finalize"
    BY <1>2, <1>4, Wrapped
  <1> QED
    BY <1>1, <1>3, <1>4, <1>5 DEF Shape

LEMMA TraceShape ==
  ASSUME EventsType, NEW s \in Sink
  PROVE  Shape(events[s], Trace(s), AllCalls(s))
  <1> DEFINE evts == events[s]
             t == Trace(s)
             all == AllCalls(s)
  <1>1. evts \in Seq(Sink \X Nat)
    BY DEF EventsType
  <1>2. t = <<"[">> \o evts \o <<"]">> /\ all = <<"prepare">> \o t \o <<"finalize">>
    BY DEF Trace, AllCalls
  <1> HIDE DEF evts, t, all
  <1>3. Shape(evts, t, all)
    BY <1>1, <1>2, PiecesShape
  <1> QED
    BY <1>3 DEF evts, t, all

-----------------------------------------------------------------------------
(* What a step does not change.                                            *)
SameSink(o) ==
  /\ events'[o] = events[o] /\ target_filename'[o] = target_filename[o]
  /\ custom_writer'[o] = custom_writer[o] /\ at'[o] = at[o]
  /\ buffer'[o] = buffer[o] /\ made'[o] = made[o] /\ stream'[o] = stream[o]
  /\ good'[o] = good[o] /\ written'[o] = written[o]
  /\ o \in reported' <=> o \in reported

LEMMA StageFrame ==
  ASSUME NEW o \in Sink, Types, StageOK(o), SameSink(o), terminated => terminated',
         HasWriter(o) => calls'[custom_writer[o]] = calls[custom_writer[o]]
  PROVE  StageOK(o)'
  <1>1. at[o] \in Stage
    BY DEF Types, StageType
  <1>2. /\ Untouched(o)' <=> Untouched(o)
        /\ NoTemp(o)' <=> NoTemp(o)
        /\ Made(o)' <=> Made(o)
        /\ HasWriter(o)' <=> HasWriter(o)
        /\ Destination(o)' = Destination(o)
    BY DEF SameSink, Untouched, NoTemp, Made, HasWriter, Destination
  <1>3. Named(o)' <=> Named(o)
    BY <1>2 DEF SameSink, Named
  <1>4. CallsMade(o, 0) => CallsMade(o, 0)'
    BY <1>2 DEF SameSink, CallsMade
  <1>5. CallsMade(o, written[o] + 1) => CallsMade(o, written[o] + 1)'
    BY <1>2 DEF SameSink, CallsMade
  <1>6. HasWriter(o) => Len(calls'[custom_writer'[o]]) = Len(calls[custom_writer[o]])
    BY DEF SameSink
  <1>7. /\ events'[o] = events[o] /\ at'[o] = at[o] /\ stream'[o] = stream[o]
        /\ written'[o] = written[o] /\ target_filename'[o] = target_filename[o]
        /\ o \in reported' <=> o \in reported
    BY DEF SameSink
  <1> HIDE DEF Untouched, NoTemp, Made, HasWriter, Destination, Named, SameSink
  <1>8. CASE at[o] = "alive"
    BY <1>2, <1>7, <1>8 DEF StageOK
  <1>9. CASE at[o] \in {"name", "target"}
    BY <1>2, <1>7, <1>9 DEF StageOK
  <1>10. CASE at[o] = "prepare"
    BY <1>2, <1>3, <1>4, <1>7, <1>10 DEF StageOK
  <1>11. CASE at[o] = "write"
    BY <1>2, <1>3, <1>5, <1>7, <1>11 DEF StageOK
  <1>12. CASE at[o] = "finalize"
    BY <1>2, <1>3, <1>5, <1>7, <1>12 DEF StageOK
  <1>13. CASE at[o] = "gone"
    BY <1>2, <1>6, <1>7, <1>13 DEF StageOK
  <1> QED
    BY <1>1, <1>8, <1>9, <1>10, <1>11, <1>12, <1>13 DEF Stage

LEMMA TempFrame ==
  ASSUME TempOK, UNCHANGED <<made, stream>>, DOMAIN content' = DOMAIN content
  PROVE  TempOK'
  BY DEF TempOK

LEMMA FileFrame ==
  ASSUME FileOK, UNCHANGED <<stream, content>>, reported \subseteq reported',
         \A o \in Sink : stream[o] # NoFile =>
           /\ events'[o] = events[o] /\ custom_writer'[o] = custom_writer[o]
           /\ good'[o] = good[o] /\ written'[o] = written[o]
  PROVE  FileOK'
  <1> SUFFICES ASSUME NEW s \in Sink, stream[s] \in AnyFile \ {Stdout}, good'[s], s \notin reported,
                      \A o \in Sink \ {s} : stream[o] # stream[s]
               PROVE  /\ ~HasWriter(s)'
                      /\ Len(content[stream[s]]) = written'[s]
                      /\ Begins(content[stream[s]], Trace(s)')
    BY DEF FileOK
  <1>1. stream[s] # NoFile
    OBVIOUS
  <1>2. /\ Trace(s)' = Trace(s) /\ (HasWriter(s)' <=> HasWriter(s))
        /\ good'[s] = good[s] /\ written'[s] = written[s]
    BY <1>1 DEF Trace, HasWriter
  <1> QED
    BY <1>2 DEF FileOK

LEMMA CallsFrame ==
  ASSUME CallsOK, UNCHANGED <<calls, events, custom_writer>>
  PROVE  CallsOK'
  <1>1. \A s \in Sink : AllCalls(s)' = AllCalls(s) /\ (HasWriter(s)' <=> HasWriter(s))
    BY DEF AllCalls, Trace, HasWriter
  <1> QED
    BY <1>1 DEF CallsOK

LEMMA WriterFrame ==
  ASSUME WriterOK, UNCHANGED <<custom_writer, spare, calls>>,
         \A s \in Sink : at[s] # "alive" => at'[s] # "alive"
  PROVE  WriterOK'
  BY DEF WriterOK, HasWriter

(* A sink in use has called no writer. *)
LEMMA AliveWriter ==
  ASSUME Types, WriterOK, NEW s \in Sink, at[s] = "alive", HasWriter(s)
  PROVE  calls[custom_writer[s]] = <<>>
  <1>1. custom_writer[s] \in Writer
    BY DEF Types, TargetsType, HasWriter
  <1> QED
    BY <1>1 DEF WriterOK

-----------------------------------------------------------------------------
(* The sink in use.                                                        *)
LEMMA ReceiveKeeps ==
  ASSUME FInv, NEW s \in Sink, Receive(s)
  PROVE  FInv'
  <1>1. Types /\ (\A o \in Sink : StageOK(o)) /\ TempOK /\ WriterOK /\ CallsOK /\ FileOK
    BY DEF FInv
  <1>2. /\ at[s] = "alive"
        /\ events' = [events EXCEPT ![s] = Append(@, <<s, Len(@) + 1>>)]
        /\ UNCHANGED <<target_filename, custom_writer, spare, at, buffer, made, stream, good,
                       written, content, calls, reported, terminated>>
    BY DEF Receive, targets, temps, output
  <1>3. events[s] \in Seq(Sink \X Nat) /\ events \in [Sink -> Seq(Sink \X Nat)]
    BY <1>1 DEF Types, EventsType
  <1>4. EventsType'
    <2> DEFINE q == Append(events[s], <<s, Len(events[s]) + 1>>)
    <2>1. q \in Seq(Sink \X Nat)
      <3>1. Len(events[s]) + 1 \in Nat
        BY <1>3
      <3>2. <<s, Len(events[s]) + 1>> \in Sink \X Nat
        BY <3>1
      <3> QED
        BY <1>3, <3>2, AppendProperties
    <2> HIDE DEF q
    <2>2. events' = [events EXCEPT ![s] = q]
      BY <1>2, <1>3 DEF q
    <2> QED
      BY <1>3, <2>1, <2>2 DEF EventsType
  <1>5. Types'
    BY <1>1, <1>2, <1>4 DEF Types, TargetsType, StageType, TempsType, StreamType, ContentType, CallsType
  <1>6. Untouched(s) /\ NoTemp(s)
    BY <1>1, <1>2 DEF StageOK
  <1>7. \A o \in Sink : StageOK(o)'
    <2>1. StageOK(s)'
      BY <1>2, <1>6 DEF StageOK, Untouched, NoTemp
    <2>2. ASSUME NEW o \in Sink \ {s} PROVE StageOK(o)'
      <3>1. SameSink(o)
        BY <1>2, <1>3 DEF SameSink
      <3> QED
        BY <1>1, <1>2, <3>1, StageFrame
    <2> QED
      BY <2>1, <2>2
  <1>8. TempOK' /\ WriterOK'
    BY <1>1, <1>2, TempFrame, WriterFrame
  <1>9. FileOK'
    <2>1. \A o \in Sink : stream[o] # NoFile =>
            /\ events'[o] = events[o] /\ custom_writer'[o] = custom_writer[o]
            /\ good'[o] = good[o] /\ written'[o] = written[o]
      BY <1>2, <1>3, <1>6 DEF Untouched
    <2> QED
      BY <1>1, <1>2, <2>1, FileFrame
  <1>10. CallsOK'
    <2> SUFFICES ASSUME NEW o \in Sink, HasWriter(o)
                 PROVE  Begins(calls[custom_writer[o]], AllCalls(o)')
      BY <1>2 DEF CallsOK, HasWriter
    <2>1. CASE o = s
      <3>1. calls[custom_writer[o]] = <<>>
        BY <1>1, <1>2, <2>1, AliveWriter
      <3> DEFINE all == AllCalls(o)'
      <3>2. all \in Seq(Call)
        <4> DEFINE evts == events'[o]
                   t == <<"[">> \o evts \o <<"]">>
        <4>1. evts \in Seq(Sink \X Nat)
          BY <1>4 DEF EventsType
        <4>2. all = <<"prepare">> \o t \o <<"finalize">>
          BY DEF AllCalls, Trace
        <4> HIDE DEF evts, t, all
        <4>3. \A x : x = <<"[">> \o evts \o <<"]">> =>
                \A a : a = <<"prepare">> \o x \o <<"finalize">> => a \in Seq(Call)
          BY <4>1, PiecesShape DEF Shape
        <4> QED
          BY <4>2, <4>3 DEF t
      <3> HIDE DEF all
      <3>3. Begins(<<>>, all)
        BY <3>2, NothingBegins
      <3> QED
        BY <3>1, <3>3 DEF all
    <2>2. CASE o # s
      <3>1. AllCalls(o)' = AllCalls(o)
        BY <1>2, <1>3, <2>2 DEF AllCalls, Trace
      <3> QED
        BY <1>1, <3>1 DEF CallsOK
    <2> QED
      BY <2>1, <2>2
  <1> QED
    BY <1>5, <1>7, <1>8, <1>9, <1>10 DEF FInv

LEMMA SetFilenameKeeps ==
  ASSUME FInv, NEW s \in Sink, NEW filename \in Target, SetFilename(s, filename)
  PROVE  FInv'
  <1>1. Types /\ (\A o \in Sink : StageOK(o)) /\ TempOK /\ WriterOK /\ CallsOK /\ FileOK
    BY DEF FInv
  <1>2. /\ at[s] = "alive"
        /\ target_filename' = [target_filename EXCEPT ![s] = filename]
        /\ UNCHANGED <<events, custom_writer, spare, at, buffer, made, stream, good,
                       written, content, calls, reported, terminated>>
    BY DEF SetFilename, targets, temps, output
  <1>3. Types'
    BY <1>1, <1>2 DEF Types, EventsType, TargetsType, StageType, TempsType, StreamType,
                      ContentType, CallsType
  <1>4. \A o \in Sink : StageOK(o)'
    <2>1. StageOK(s)'
      BY <1>1, <1>2 DEF StageOK, Untouched, NoTemp
    <2>2. ASSUME NEW o \in Sink \ {s} PROVE StageOK(o)'
      <3>1. SameSink(o)
        BY <1>1, <1>2 DEF SameSink, Types, TargetsType
      <3> QED
        BY <1>1, <1>2, <3>1, StageFrame
    <2> QED
      BY <2>1, <2>2
  <1>5. TempOK' /\ WriterOK' /\ CallsOK' /\ FileOK'
    BY <1>1, <1>2, TempFrame, WriterFrame, CallsFrame, FileFrame
  <1> QED
    BY <1>3, <1>4, <1>5 DEF FInv

LEMMA SetWriterKeeps ==
  ASSUME FInv, NEW s \in Sink, NEW writer \in Writer, SetWriter(s, writer)
  PROVE  FInv'
  <1>1. Types /\ (\A o \in Sink : StageOK(o)) /\ TempOK /\ WriterOK /\ CallsOK /\ FileOK
    BY DEF FInv
  <1>2. /\ at[s] = "alive" /\ writer \in spare
        /\ custom_writer' = [custom_writer EXCEPT ![s] = writer]
        /\ spare' = spare \ {writer}
        /\ UNCHANGED <<events, target_filename, at, buffer, made, stream, good,
                       written, content, calls, reported, terminated>>
    BY DEF SetWriter, targets, temps, output
  <1>3. custom_writer'[s] = writer /\ \A o \in Sink \ {s} : custom_writer'[o] = custom_writer[o]
    BY <1>1, <1>2 DEF Types, TargetsType
  <1>4. Types'
    BY <1>1, <1>2 DEF Types, EventsType, TargetsType, StageType, TempsType, StreamType,
                      ContentType, CallsType
  <1>5. \A o \in Sink : StageOK(o)'
    <2>1. StageOK(s)'
      BY <1>1, <1>2 DEF StageOK, Untouched, NoTemp
    <2>2. ASSUME NEW o \in Sink \ {s} PROVE StageOK(o)'
      <3>1. SameSink(o)
        BY <1>2, <1>3 DEF SameSink
      <3> QED
        BY <1>1, <1>2, <3>1, StageFrame
    <2> QED
      BY <2>1, <2>2
  <1>6. TempOK'
    BY <1>1, <1>2, TempFrame
  <1>7. FileOK'
    <2>1. Untouched(s)
      BY <1>1, <1>2 DEF StageOK
    <2>2. \A o \in Sink : stream[o] # NoFile =>
            /\ events'[o] = events[o] /\ custom_writer'[o] = custom_writer[o]
            /\ good'[o] = good[o] /\ written'[o] = written[o]
      BY <1>2, <1>3, <2>1 DEF Untouched
    <2> QED
      BY <1>1, <1>2, <2>2, FileFrame
  <1>8. calls[writer] = <<>>
    BY <1>1, <1>2 DEF WriterOK
  <1>9. CallsOK'
    <2> SUFFICES ASSUME NEW o \in Sink, custom_writer'[o] # NoWriter
                 PROVE  Begins(calls[custom_writer'[o]], AllCalls(o)')
      BY <1>2 DEF CallsOK, HasWriter
    <2>1. AllCalls(o)' = AllCalls(o)
      BY <1>2 DEF AllCalls, Trace
    <2>2. CASE o = s
      <3>1. AllCalls(o) \in Seq(Call)
        BY <1>1, TraceShape DEF Shape, Types
      <3>2. Begins(<<>>, AllCalls(o))
        BY <3>1, NothingBegins
      <3> QED
        BY <1>3, <1>8, <2>1, <2>2, <3>2
    <2>3. CASE o # s
      BY <1>1, <1>3, <2>1, <2>3 DEF CallsOK, HasWriter
    <2> QED
      BY <2>2, <2>3
  <1>10. WriterOK'
    <2>1. \A o \in Sink \ {s} : custom_writer[o] # writer
      BY <1>1, <1>2 DEF WriterOK
    <2>2. \A o, q \in Sink : HasWriter(o)' /\ custom_writer'[o] = custom_writer'[q] => o = q
      BY <1>1, <1>3, <2>1 DEF WriterOK, HasWriter
    <2>3. \A o \in Sink : custom_writer'[o] \notin spare'
      BY <1>1, <1>2, <1>3 DEF WriterOK
    <2>4. ASSUME NEW w \in Writer, calls[w] # <<>>
          PROVE  \E o \in Sink : custom_writer'[o] = w /\ at[o] # "alive"
      <3>1. PICK o \in Sink : custom_writer[o] = w /\ at[o] # "alive"
        BY <1>1, <2>4 DEF WriterOK
      <3> QED
        BY <1>2, <1>3, <3>1
    <2> QED
      BY <1>2, <2>2, <2>3, <2>4 DEF WriterOK
  <1> QED
    BY <1>4, <1>5, <1>6, <1>7, <1>9, <1>10 DEF FInv

-----------------------------------------------------------------------------
(* The destructor.                                                         *)
LEMMA DestroyKeeps ==
  ASSUME FInv, NEW s \in Sink, Destroy(s)
  PROVE  FInv'
  <1>1. Types /\ (\A o \in Sink : StageOK(o)) /\ TempOK /\ WriterOK /\ CallsOK /\ FileOK
    BY DEF FInv
  <1>2. /\ at[s] = "alive" /\ at' = [at EXCEPT ![s] = FirstStep(s)]
        /\ UNCHANGED <<events, target_filename, custom_writer, spare, buffer, made, stream, good,
                       written, content, calls, reported, terminated>>
    BY DEF Destroy, Goto, targets, temps, output
  <1>3. \/ FirstStep(s) = "gone" /\ events[s] = <<>>
        \/ FirstStep(s) = "prepare" /\ events[s] # <<>> /\ HasWriter(s)
        \/ FirstStep(s) = "gone" /\ ~HasWriter(s) /\ target_filename[s] = Empty
        \/ FirstStep(s) = "name" /\ events[s] # <<>> /\ ~HasWriter(s)
             /\ target_filename[s] = Template
        \/ FirstStep(s) = "prepare" /\ events[s] # <<>> /\ ~HasWriter(s)
             /\ target_filename[s] # Empty /\ target_filename[s] # Template
    BY DEF FirstStep, HasWriter
  <1>4. at'[s] = FirstStep(s) /\ \A o \in Sink \ {s} : at'[o] = at[o]
    BY <1>1, <1>2 DEF Types, StageType
  <1>5. Types'
    <2>1. at' \in [Sink -> Stage]
      BY <1>1, <1>2, <1>3 DEF Types, StageType, Stage
    <2> QED
      BY <1>1, <1>2, <2>1 DEF Types, EventsType, TargetsType, StageType, TempsType, StreamType,
                              ContentType, CallsType
  <1>6. \A o \in Sink : StageOK(o)'
    <2>1. StageOK(s)'
      <3>1. Untouched(s) /\ NoTemp(s)
        BY <1>1, <1>2 DEF StageOK
      <3>2. Untouched(s)' /\ NoTemp(s)'
        BY <1>2, <3>1 DEF Untouched, NoTemp
      <3>3. (HasWriter(s)' <=> HasWriter(s)) /\ events'[s] = events[s]
              /\ target_filename'[s] = target_filename[s]
        BY <1>2 DEF HasWriter
      <3>4. CallsMade(s, 0)'
        <4>1. HasWriter(s) => calls[custom_writer[s]] = <<>>
          BY <1>1, <1>2, AliveWriter
        <4> QED
          BY <1>2, <4>1 DEF CallsMade, HasWriter
      <3>5. CASE FirstStep(s) = "prepare"
        <4>1. Named(s)'
          BY <1>3, <3>2, <3>3, <3>5 DEF Named
        <4> QED
          BY <1>4, <3>2, <3>4, <3>5, <4>1 DEF StageOK
      <3>6. CASE FirstStep(s) \in {"gone", "name"}
        BY <1>3, <1>4, <3>2, <3>3, <3>6 DEF StageOK
      <3> QED
        BY <1>3, <3>5, <3>6
    <2>2. ASSUME NEW o \in Sink \ {s} PROVE StageOK(o)'
      <3>1. SameSink(o)
        BY <1>2, <1>4 DEF SameSink
      <3> QED
        BY <1>1, <1>2, <3>1, StageFrame
    <2> QED
      BY <2>1, <2>2
  <1>7. WriterOK'
    <2>1. \A o \in Sink : at[o] # "alive" => at'[o] # "alive"
      BY <1>2, <1>4
    <2> QED
      BY <1>1, <1>2, <2>1, WriterFrame
  <1>8. TempOK' /\ CallsOK' /\ FileOK'
    BY <1>1, <1>2, TempFrame, CallsFrame, FileFrame
  <1> QED
    BY <1>5, <1>6, <1>7, <1>8 DEF FInv

(* mkstemp. *)
LEMMA MakeTempKeeps ==
  ASSUME FInv, NEW s \in Sink, at[s] = "name", MakeTemp(s, "target"),
         UNCHANGED <<stream, good, written, calls>>
  PROVE  FInv'
  <1>1. Types /\ (\A o \in Sink : StageOK(o)) /\ TempOK /\ WriterOK /\ CallsOK /\ FileOK
    BY DEF FInv
  <1>2. /\ Untouched(s) /\ NoTemp(s) /\ events[s] # <<>> /\ ~HasWriter(s)
        /\ target_filename[s] = Template
    BY <1>1 DEF StageOK
  <1>3. UNCHANGED <<events, target_filename, custom_writer, spare, terminated>>
    BY DEF MakeTemp, GoOn, Fail, targets
  <1>4. CASE \E f \in TempFile \ DOMAIN content :
               /\ content' = [g \in DOMAIN content \cup {f} |-> IF g = f THEN <<>> ELSE content[g]]
               /\ buffer' = [buffer EXCEPT ![s] = f]
               /\ made' = [made EXCEPT ![s] = @ \cup {f}]
               /\ GoOn(s, "target")
    <2>1. PICK f \in TempFile \ DOMAIN content :
               /\ content' = [g \in DOMAIN content \cup {f} |-> IF g = f THEN <<>> ELSE content[g]]
               /\ buffer' = [buffer EXCEPT ![s] = f]
               /\ made' = [made EXCEPT ![s] = @ \cup {f}]
               /\ GoOn(s, "target")
      BY <1>4
    <2>2. at' = [at EXCEPT ![s] = "target"] /\ reported' = reported
      BY <2>1 DEF GoOn, Goto
    <2>3. /\ at'[s] = "target" /\ buffer'[s] = f /\ made'[s] = {f}
          /\ \A o \in Sink \ {s} : at'[o] = at[o] /\ buffer'[o] = buffer[o] /\ made'[o] = made[o]
      BY <1>1, <1>2, <2>1, <2>2 DEF Types, StageType, TempsType, NoTemp
    <2>4. Types'
      <3>1. ContentType'
        <4>1. DOMAIN content' = DOMAIN content \cup {f}
          BY <2>1
        <4>2. <<>> \in Seq(Piece)
          OBVIOUS
        <4>3. content' \in [DOMAIN content' -> Seq(Piece)]
          BY <1>1, <2>1, <4>1, <4>2 DEF Types, ContentType
        <4> QED
          BY <1>1, <4>1, <4>3 DEF Types, ContentType, AnyFile
      <3>2. TempsType'
        BY <1>1, <2>1 DEF Types, TempsType
      <3> QED
        BY <1>1, <1>3, <2>2, <3>1, <3>2 DEF Types, EventsType, TargetsType, StageType, StreamType,
                                            CallsType, Stage
    <2>5. \A o \in Sink : StageOK(o)'
      <3>1. StageOK(s)'
        <4>1. Untouched(s)' /\ Made(s)' /\ ~HasWriter(s)'
          BY <1>2, <1>3, <2>2, <2>3 DEF Untouched, Made, HasWriter
        <4> QED
          BY <1>2, <1>3, <2>3, <4>1 DEF StageOK
      <3>2. ASSUME NEW o \in Sink \ {s} PROVE StageOK(o)'
        <4>1. SameSink(o)
          BY <1>3, <2>2, <2>3 DEF SameSink
        <4> QED
          BY <1>1, <1>3, <4>1, StageFrame
      <3> QED
        BY <3>1, <3>2
    <2>6. TempOK'
      <3>1. f \in DOMAIN content' /\ DOMAIN content \subseteq DOMAIN content' /\ f \notin DOMAIN content
        BY <2>1
      <3>2. stream'[s] = NoFile /\ NoFile \notin TempFile
        BY <1>2 DEF Untouched, AnyFile
      <3>3. ASSUME NEW o \in Sink
            PROVE  /\ made'[o] \subseteq DOMAIN content'
                   /\ \A g \in made'[o] : made'[o] = {g}
                   /\ stream'[o] \in TempFile => stream'[o] \in made'[o]
                   /\ stream'[o] \in DOMAIN content' \cup {NoFile}
        <4>1. CASE o = s
          BY <2>3, <3>1, <3>2, <4>1
        <4>2. CASE o # s
          BY <1>1, <2>3, <3>1, <4>2 DEF TempOK
        <4> QED
          BY <4>1, <4>2
      <3>4. \A o, q \in Sink : o # q => made'[o] \cap made'[q] = {}
        <4>1. \A o \in Sink \ {s} : f \notin made[o]
          BY <1>1, <3>1 DEF TempOK
        <4> QED
          BY <1>1, <2>3, <4>1 DEF TempOK
      <3> QED
        BY <3>3, <3>4 DEF TempOK
    <2>7. WriterOK' /\ CallsOK'
      BY <1>1, <1>3, <2>3, WriterFrame, CallsFrame
    <2>8. FileOK'
      <3> SUFFICES ASSUME NEW o \in Sink, stream[o] \in AnyFile \ {Stdout}, good[o], o \notin reported,
                          \A q \in Sink \ {o} : stream[q] # stream[o]
                   PROVE  /\ ~HasWriter(o)'
                          /\ Len(content'[stream[o]]) = written[o]
                          /\ Begins(content'[stream[o]], Trace(o)')
        BY <2>2 DEF FileOK
      <3>1. stream[o] \in DOMAIN content
        BY <1>1 DEF TempOK
      <3>2. content'[stream[o]] = content[stream[o]]
        BY <2>1, <3>1
      <3> QED
        BY <1>1, <1>3, <3>2 DEF FileOK, HasWriter, Trace
    <2> QED
      BY <2>4, <2>5, <2>6, <2>7, <2>8 DEF FInv
  <1>5. CASE /\ buffer' = [buffer EXCEPT ![s] = Template]
             /\ UNCHANGED <<made, content>>
             /\ Fail(s)
    <2>1. at' = [at EXCEPT ![s] = "gone"] /\ reported' = reported \cup {s}
      BY <1>5 DEF Fail, Goto
    <2>2. /\ at'[s] = "gone" /\ s \in reported'
          /\ \A o \in Sink \ {s} : /\ at'[o] = at[o] /\ buffer'[o] = buffer[o]
                                   /\ o \in reported' <=> o \in reported
      BY <1>1, <1>5, <2>1 DEF Types, StageType, TempsType
    <2>3. Types'
      BY <1>1, <1>3, <1>5, <2>1 DEF Types, EventsType, TargetsType, StageType, TempsType, StreamType,
                                    ContentType, CallsType, Stage
    <2>4. \A o \in Sink : StageOK(o)'
      <3>1. StageOK(s)'
        BY <2>2 DEF StageOK
      <3>2. ASSUME NEW o \in Sink \ {s} PROVE StageOK(o)'
        <4>1. SameSink(o)
          BY <1>3, <1>5, <2>2 DEF SameSink
        <4> QED
          BY <1>1, <1>3, <4>1, StageFrame
      <3> QED
        BY <3>1, <3>2
    <2>5. TempOK' /\ CallsOK' /\ FileOK'
      BY <1>1, <1>3, <1>5, <2>1, TempFrame, CallsFrame, FileFrame
    <2>6. WriterOK'
      BY <1>1, <1>3, <2>2, WriterFrame
    <2> QED
      BY <2>3, <2>4, <2>5, <2>6 DEF FInv
  <1> QED
    BY <1>4, <1>5 DEF MakeTemp

(* The name that was made for logging it is the one that is opened. *)
LEMMA ReuseNameKeeps ==
  ASSUME FInv, NEW s \in Sink, at[s] = "target", GoOn(s, "prepare"),
         UNCHANGED <<temps, content, stream, good, written, calls>>
  PROVE  FInv'
  <1>1. Types /\ (\A o \in Sink : StageOK(o)) /\ TempOK /\ WriterOK /\ CallsOK /\ FileOK
    BY DEF FInv
  <1>2. /\ at' = [at EXCEPT ![s] = "prepare"]
        /\ UNCHANGED <<events, target_filename, custom_writer, spare, buffer, made, stream, good,
                       written, content, calls, reported, terminated>>
    BY DEF GoOn, Goto, targets, temps
  <1>3. at'[s] = "prepare" /\ \A o \in Sink \ {s} : at'[o] = at[o]
    BY <1>1, <1>2 DEF Types, StageType
  <1>4. Types'
    BY <1>1, <1>2 DEF Types, EventsType, TargetsType, StageType, TempsType, StreamType,
                      ContentType, CallsType, Stage
  <1>5. \A o \in Sink : StageOK(o)'
    <2>1. StageOK(s)'
      <3>1. /\ Untouched(s) /\ Made(s) /\ events[s] # <<>>
            /\ ~HasWriter(s) /\ target_filename[s] = Template
        BY <1>1 DEF StageOK
      <3>2. Untouched(s)' /\ Made(s)' /\ ~HasWriter(s)'
        BY <1>2, <3>1 DEF Untouched, Made, HasWriter
      <3>3. Named(s)' /\ CallsMade(s, 0)'
        BY <1>2, <3>1, <3>2 DEF Named, CallsMade
      <3> QED
        BY <1>3, <3>2, <3>3 DEF StageOK
    <2>2. ASSUME NEW o \in Sink \ {s} PROVE StageOK(o)'
      <3>1. SameSink(o)
        BY <1>2, <1>3 DEF SameSink
      <3> QED
        BY <1>1, <1>2, <3>1, StageFrame
    <2> QED
      BY <2>1, <2>2
  <1>6. TempOK' /\ CallsOK' /\ FileOK'
    BY <1>1, <1>2, TempFrame, CallsFrame, FileFrame
  <1>7. WriterOK'
    BY <1>1, <1>2, <1>3, WriterFrame
  <1> QED
    BY <1>4, <1>5, <1>6, <1>7 DEF FInv

LEMMA NameFileKeeps ==
  ASSUME FInv, NEW s \in Sink, NameFile(s)
  PROVE  FInv'
  <1>1. UNCHANGED <<stream, good, written, calls>>
    BY DEF NameFile
  <1>2. CASE at[s] = "name" /\ Convert(s, "target")
    <2>1. buffer[s] = NoFile
      BY <1>2 DEF FInv, StageOK, NoTemp
    <2>2. MakeTemp(s, "target")
      BY <1>2, <2>1 DEF Convert
    <2> QED
      BY <1>1, <1>2, <2>2, MakeTempKeeps
  <1>3. CASE at[s] = "target" /\ Convert(s, "prepare")
    <2>1. buffer[s] \in TempFile
      BY <1>3 DEF FInv, StageOK, Made
    <2>2. GoOn(s, "prepare") /\ UNCHANGED <<temps, content>>
      BY <1>3, <2>1 DEF Convert, AnyFile
    <2> QED
      BY <1>1, <1>3, <2>2, ReuseNameKeeps
  <1> QED
    BY <1>2, <1>3 DEF NameFile

(* One more call of a sink's writer. *)
LEMMA CallKeeps ==
  ASSUME Types, WriterOK, CallsOK, NEW s \in Sink, NEW call, CallWriter(s, call),
         at[s] # "alive", Len(calls[custom_writer[s]]) < Len(events[s]) + 4,
         call = AllCalls(s)[Len(calls[custom_writer[s]]) + 1],
         UNCHANGED <<events, custom_writer, spare>>,
         \A o \in Sink : at[o] # "alive" => at'[o] # "alive"
  PROVE  /\ CallsType' /\ CallsOK' /\ WriterOK'
         /\ HasWriter(s) /\ Len(calls'[custom_writer[s]]) = Len(calls[custom_writer[s]]) + 1
         /\ \A o \in Sink \ {s} : HasWriter(o) => calls'[custom_writer[o]] = calls[custom_writer[o]]
  <1>1. PICK w, q, all : w = custom_writer[s] /\ q = calls[custom_writer[s]] /\ all = AllCalls(s)
    OBVIOUS
  <1>2. w \in Writer /\ q \in Seq(Call) /\ calls \in [Writer -> Seq(Call)]
    BY <1>1 DEF Types, TargetsType, CallsType, CallWriter
  <1>3. all \in Seq(Call) /\ Len(all) = Len(events[s]) + 4
    BY <1>1, TraceShape DEF Shape, Types
  <1>4. Begins(q, all) /\ Len(q) < Len(all)
    BY <1>1, <1>3 DEF CallsOK, HasWriter, CallWriter
  <1>5. PICK r : r = Append(q, all[Len(q) + 1])
    OBVIOUS
  <1>6. r \in Seq(Call) /\ Len(r) = Len(q) + 1 /\ Begins(r, all)
    BY <1>2, <1>3, <1>4, <1>5, BeginsNext
  <1>7. calls' = [calls EXCEPT ![w] = r]
    BY <1>1, <1>2, <1>5 DEF CallWriter
  <1>8. CallsType' /\ calls'[w] = r /\ \A v \in Writer \ {w} : calls'[v] = calls[v]
    BY <1>2, <1>6, <1>7 DEF CallsType
  <1>9. \A o \in Sink \ {s} : HasWriter(o) => custom_writer[o] \in Writer \ {w}
    BY <1>1 DEF WriterOK, HasWriter, Types, TargetsType
  <1>10. CallsOK'
    <2> SUFFICES ASSUME NEW o \in Sink, HasWriter(o)
                 PROVE  Begins(calls'[custom_writer[o]], AllCalls(o)')
      BY DEF CallsOK, HasWriter
    <2>1. AllCalls(o)' = AllCalls(o)
      BY DEF AllCalls, Trace
    <2> QED
      BY <1>1, <1>6, <1>8, <1>9, <2>1 DEF CallsOK
  <1>11. WriterOK'
    <2>1. ASSUME NEW v \in Writer, calls'[v] # <<>>
          PROVE  \E o \in Sink : custom_writer[o] = v /\ at'[o] # "alive"
      BY <1>1, <1>8, <2>1 DEF WriterOK
    <2> QED
      BY <2>1 DEF WriterOK, HasWriter
  <1>12. HasWriter(s)
    BY DEF CallWriter, HasWriter
  <1> QED
    BY <1>1, <1>6, <1>8, <1>9, <1>10, <1>11, <1>12

LEMMA PrepareKeeps ==
  ASSUME FInv, NEW s \in Sink, Prepare(s), ~terminated
  PROVE  FInv'
  <1>1. Types /\ (\A o \in Sink : StageOK(o)) /\ TempOK /\ WriterOK /\ CallsOK /\ FileOK
    BY DEF FInv
  <1>2. /\ at[s] = "prepare" /\ UNCHANGED <<buffer, made, good, written>>
        /\ Untouched(s) /\ Named(s) /\ CallsMade(s, 0)
    BY <1>1 DEF Prepare, temps, StageOK
  <1>3. Len(events[s]) \in Nat
    BY <1>1, TraceShape DEF Shape, Types
  <1>4. CASE /\ CallWriter(s, "prepare")
             /\ GoOn(s, "write") \/ Fail(s) \/ Terminate(s)
             /\ UNCHANGED <<stream, content>>
    <2>1. UNCHANGED <<events, target_filename, custom_writer, spare>>
      BY <1>4 DEF GoOn, Fail, Terminate, targets
    <2>2. /\ at'[s] \in Stage \ {"alive"} /\ at' \in [Sink -> Stage]
          /\ \A o \in Sink \ {s} : at'[o] = at[o] /\ (o \in reported' <=> o \in reported)
          /\ reported \subseteq reported' /\ reported' \subseteq Sink /\ terminated' \in BOOLEAN
      BY <1>1, <1>2, <1>4 DEF GoOn, Fail, Terminate, Goto, Types, StageType, Stage
    <2>3. Len(calls[custom_writer[s]]) = 0 /\ AllCalls(s)[1] = "prepare"
      BY <1>1, <1>2, <1>4, TraceShape DEF CallsMade, CallWriter, HasWriter, Shape, Types
    <2>4. /\ CallsType' /\ CallsOK' /\ WriterOK'
          /\ HasWriter(s) /\ Len(calls'[custom_writer[s]]) = 1
          /\ \A o \in Sink \ {s} : HasWriter(o) => calls'[custom_writer[o]] = calls[custom_writer[o]]
      <3>1. CallWriter(s, "prepare") /\ at[s] # "alive"
        BY <1>2, <1>4
      <3>2. /\ Len(calls[custom_writer[s]]) < Len(events[s]) + 4
            /\ "prepare" = AllCalls(s)[Len(calls[custom_writer[s]]) + 1]
            /\ Len(calls[custom_writer[s]]) + 1 = 1
        BY <1>3, <2>3
      <3>3. \A o \in Sink : at[o] # "alive" => at'[o] # "alive"
        BY <2>2
      <3>4. UNCHANGED <<events, custom_writer, spare>>
        BY <2>1
      <3> QED
        BY <1>1, <3>1, <3>2, <3>3, <3>4, CallKeeps
    <2>5. Types'
      BY <1>1, <1>2, <1>4, <2>1, <2>2, <2>4 DEF Types, EventsType, TargetsType, StageType, TempsType,
                                               StreamType, ContentType
    <2>6. \A o \in Sink : StageOK(o)'
      <3>1. StageOK(s)'
        <4>1. Named(s)' /\ HasWriter(s)' /\ stream'[s] = NoFile /\ written'[s] = 0 /\ good'[s]
          BY <1>2, <1>4, <2>1, <2>4 DEF Named, HasWriter, Made, NoTemp, Untouched
        <4>2. CASE GoOn(s, "write")
          <5>1. at'[s] = "write" /\ reported' = reported
            BY <1>1, <4>2 DEF GoOn, Goto, Types, StageType
          <5>2. CallsMade(s, written[s] + 1)'
            BY <1>2, <2>1, <2>4, <4>1 DEF CallsMade
          <5>3. written'[s] < Len(events'[s]) + 2
            BY <1>3, <2>1, <4>1
          <5> QED
            BY <1>2, <4>1, <5>1, <5>2, <5>3 DEF StageOK, Untouched
        <4>3. CASE Fail(s)
          <5>1. at'[s] = "gone" /\ s \in reported'
            BY <1>1, <4>3 DEF Fail, Goto, Types, StageType
          <5> QED
            BY <5>1 DEF StageOK
        <4>4. CASE Terminate(s)
          <5>1. at'[s] = "prepare" /\ reported' = reported /\ terminated'
            BY <1>2, <4>4 DEF Terminate
          <5>2. CallsMade(s, 0)' /\ Untouched(s)'
            BY <1>2, <4>1, <5>1 DEF CallsMade, Untouched
          <5> QED
            BY <4>1, <5>1, <5>2 DEF StageOK
        <4> QED
          BY <1>4, <4>2, <4>3, <4>4
      <3>2. ASSUME NEW o \in Sink \ {s} PROVE StageOK(o)'
        <4>1. SameSink(o)
          BY <1>2, <1>4, <2>1, <2>2 DEF SameSink
        <4> QED
          BY <1>1, <2>4, <4>1, StageFrame
      <3> QED
        BY <3>1, <3>2
    <2>7. TempOK' /\ FileOK'
      BY <1>1, <1>2, <1>4, <2>1, <2>2, TempFrame, FileFrame
    <2> QED
      BY <2>4, <2>5, <2>6, <2>7 DEF FInv
  <1>5. CASE OpenFile(s) /\ GoOn(s, "write") /\ UNCHANGED calls
    <2> DEFINE f == Destination(s)
    <2>1. /\ stream' = [stream EXCEPT ![s] = f]
          /\ content' = [content EXCEPT ![f] = Opened(f)]
          /\ at' = [at EXCEPT ![s] = "write"] /\ ~HasWriter(s)
          /\ UNCHANGED <<events, target_filename, custom_writer, spare, reported, terminated, calls>>
      BY <1>5 DEF OpenFile, GoOn, Goto, HasWriter, targets
    <2>2. f \in DOMAIN content /\ f \in AnyFile /\ (f \in TempFile => f \in made[s])
      <3>1. CASE target_filename[s] = Template
        BY <1>1, <1>2, <2>1, <3>1 DEF Destination, Named, Made, TempOK, AnyFile
      <3>2. CASE target_filename[s] # Template
        <4>1. target_filename[s] \in File \cup {Stdout}
          BY <1>1, <1>2, <2>1, <3>2 DEF Types, TargetsType, Target, Named
        <4> QED
          BY <1>1, <3>2, <4>1 DEF Destination, Types, ContentType, AnyFile
      <3> QED
        BY <3>1, <3>2
    <2> HIDE DEF f
    <2>3. /\ stream'[s] = f /\ at'[s] = "write"
          /\ \A o \in Sink \ {s} : stream'[o] = stream[o] /\ at'[o] = at[o]
      BY <1>1, <2>1 DEF Types, StreamType, StageType
    <2>4. /\ DOMAIN content' = DOMAIN content
          /\ content'[f] = Opened(f) /\ Opened(f) \in Seq(Piece)
          /\ \A g \in DOMAIN content \ {f} : content'[g] = content[g]
          /\ f # Stdout => content'[f] = <<>>
      <3>1. <<>> \in Seq(Piece)
        OBVIOUS
      <3> QED
        BY <1>1, <2>1, <2>2, <3>1 DEF Types, ContentType, Opened
    <2>5. Types'
      <3>1. ContentType'
        <4>1. content' \in [DOMAIN content' -> Seq(Piece)]
          BY <1>1, <2>1, <2>2, <2>4 DEF Types, ContentType
        <4> QED
          BY <1>1, <2>4, <4>1 DEF Types, ContentType
      <3> QED
        BY <1>1, <1>2, <2>1, <2>2, <3>1 DEF Types, EventsType, TargetsType, StageType, TempsType,
                                            StreamType, CallsType, Stage
    <2>6. \A o \in Sink : StageOK(o)'
      <3>1. StageOK(s)'
        <4>1. Named(s)' /\ ~HasWriter(s)' /\ written'[s] = 0 /\ stream'[s] = Destination(s)'
          BY <1>2, <2>1, <2>3 DEF Named, HasWriter, Made, NoTemp, Untouched, Destination, f
        <4>2. written'[s] < Len(events'[s]) + 2
          BY <1>3, <2>1, <4>1
        <4> QED
          BY <1>2, <2>1, <2>3, <4>1, <4>2 DEF StageOK, Untouched, CallsMade
      <3>2. ASSUME NEW o \in Sink \ {s} PROVE StageOK(o)'
        <4>1. SameSink(o)
          BY <1>2, <2>1, <2>3 DEF SameSink
        <4> QED
          BY <1>1, <2>1, <4>1, StageFrame
      <3> QED
        BY <3>1, <3>2
    <2>7. TempOK'
      BY <1>1, <1>2, <2>2, <2>3, <2>4 DEF TempOK
    <2>8. WriterOK' /\ CallsOK'
      BY <1>1, <2>1, <2>3, WriterFrame, CallsFrame
    <2>9. FileOK'
      <3> SUFFICES ASSUME NEW o \in Sink, stream'[o] \in AnyFile \ {Stdout}, good[o], o \notin reported,
                          \A q \in Sink \ {o} : stream'[q] # stream'[o]
                   PROVE  /\ ~HasWriter(o)'
                          /\ Len(content'[stream'[o]]) = written[o]
                          /\ Begins(content'[stream'[o]], Trace(o)')
        BY <1>2, <2>1 DEF FileOK
      <3>1. Trace(o)' = Trace(o) /\ (HasWriter(o)' <=> HasWriter(o))
        BY <2>1 DEF Trace, HasWriter
      <3>2. CASE o = s
        <4>1. content'[stream'[o]] = <<>> /\ written[o] = 0
          BY <1>2, <2>3, <2>4, <3>2 DEF Untouched
        <4>2. Trace(o) \in Seq(Piece)
          BY <1>1, TraceShape DEF Shape, Types
        <4>3. Begins(<<>>, Trace(o))
          BY <4>2, NothingBegins
        <4> QED
          BY <2>1, <3>1, <3>2, <4>1, <4>3
      <3>3. CASE o # s
        <4>1. stream[o] = stream'[o] /\ stream[o] # f /\ \A q \in Sink \ {o} : stream[q] # stream[o]
          BY <1>2, <2>3, <3>3 DEF Untouched, AnyFile
        <4>2. stream[o] \in DOMAIN content
          BY <1>1, <4>1 DEF TempOK
        <4> QED
          BY <1>1, <2>4, <3>1, <4>1, <4>2 DEF FileOK
      <3> QED
        BY <3>2, <3>3
    <2> QED
      BY <2>5, <2>6, <2>7, <2>8, <2>9 DEF FInv
  <1>6. CASE Fail(s) /\ UNCHANGED <<stream, content, calls>>
    <2>1. /\ at' = [at EXCEPT ![s] = "gone"] /\ reported' = reported \cup {s}
          /\ UNCHANGED <<events, target_filename, custom_writer, spare, terminated>>
      BY <1>6 DEF Fail, Goto, targets
    <2>2. /\ at'[s] = "gone" /\ s \in reported'
          /\ \A o \in Sink \ {s} : at'[o] = at[o] /\ (o \in reported' <=> o \in reported)
      BY <1>1, <2>1 DEF Types, StageType
    <2>3. Types'
      BY <1>1, <1>2, <1>6, <2>1 DEF Types, EventsType, TargetsType, StageType, TempsType, StreamType,
                                    ContentType, CallsType, Stage
    <2>4. \A o \in Sink : StageOK(o)'
      <3>1. StageOK(s)'
        BY <2>2 DEF StageOK
      <3>2. ASSUME NEW o \in Sink \ {s} PROVE StageOK(o)'
        <4>1. SameSink(o)
          BY <1>2, <1>6, <2>1, <2>2 DEF SameSink
        <4> QED
          BY <1>1, <1>6, <2>1, <4>1, StageFrame
      <3> QED
        BY <3>1, <3>2
    <2>5. TempOK' /\ CallsOK' /\ FileOK'
      BY <1>1, <1>2, <1>6, <2>1, TempFrame, CallsFrame, FileFrame
    <2>6. WriterOK'
      BY <1>1, <1>6, <2>1, <2>2, WriterFrame
    <2> QED
      BY <2>3, <2>4, <2>5, <2>6 DEF FInv
  <1> QED
    BY <1>4, <1>5, <1>6 DEF Prepare

(* One more piece in a file.  A stream that has the file for itself has    *)
(* its position at the end of it.                                          *)
LEMMA PutShape ==
  ASSUME ContentType, NEW s \in Sink, written[s] \in Nat, NEW piece \in Piece,
         NEW f \in DOMAIN content
  PROVE  /\ Put(f, s, piece) \in Seq(Piece)
         /\ f = Stdout \/ Len(content[f]) = written[s]
              => Put(f, s, piece) = Append(content[f], piece)
  <1>1. PICK old, n : old = content[f] /\ n = written[s]
    OBVIOUS
  <1>2. old \in Seq(Piece) /\ Len(old) \in Nat /\ n \in Nat
    BY <1>1 DEF ContentType
  <1>3. PICK position : position = IF f = Stdout THEN Len(old) + 1 ELSE n + 1
    OBVIOUS
  <1>4. PICK m : m = IF position > Len(old) THEN position ELSE Len(old)
    OBVIOUS
  <1>5. position \in Nat /\ m \in Nat
    BY <1>2, <1>3, <1>4
  <1>6. PICK q : q = [k \in 1 .. m |-> IF k = position THEN piece
                                       ELSE IF k <= Len(old) THEN old[k] ELSE "hole"]
    OBVIOUS
  <1>7. Put(f, s, piece) = q
    BY <1>1, <1>3, <1>4, <1>6 DEF Put
  <1>8. q \in Seq(Piece)
    <2>1. \A k \in 1 .. m : q[k] \in Piece
      BY <1>2, <1>6 DEF Piece
    <2>2. q \in [1 .. m -> Piece]
      BY <1>6, <2>1
    <2> QED
      BY <1>5, <2>2, IsASeq
  <1>9. ASSUME f = Stdout \/ Len(old) = n
        PROVE  q = Append(old, piece)
    <2>1. position = Len(old) + 1 /\ m = Len(old) + 1
      BY <1>2, <1>3, <1>4, <1>9
    <2>2. q = [k \in 1 .. Len(old) + 1 |-> IF k = Len(old) + 1 THEN piece ELSE old[k]]
      BY <1>2, <1>6, <2>1
    <2>3. PICK r : r = Append(old, piece)
      OBVIOUS
    <2>4. /\ r \in Seq(Piece) /\ Len(r) = Len(old) + 1 /\ r[Len(old) + 1] = piece
          /\ \A k \in 1 .. Len(old) : r[k] = old[k]
      BY <1>2, <2>3, AppendProperties
    <2>5. Len(q) = Len(r) /\ \A k \in 1 .. Len(r) : q[k] = r[k]
      BY <1>2, <2>2, <2>4
    <2> QED
      BY <1>8, <2>3, <2>4, <2>5, SeqEqual
  <1> QED
    BY <1>1, <1>7, <1>8, <1>9

(* What GoOn, Fail and Terminate have in common. *)
LEMMA WriteOutcome ==
  ASSUME Types, NEW s \in Sink, at[s] = "write", Write(s)
  PROVE  /\ UNCHANGED <<events, target_filename, custom_writer, spare, buffer, made, stream>>
         /\ written' = [written EXCEPT ![s] = @ + 1] /\ written'[s] = written[s] + 1
         /\ at' \in [Sink -> Stage] /\ at'[s] # "alive" /\ (terminated => terminated')
         /\ reported \subseteq reported' /\ reported' \subseteq Sink /\ terminated' \in BOOLEAN
         /\ \A o \in Sink \ {s} : /\ at'[o] = at[o] /\ (o \in reported' <=> o \in reported)
                                  /\ written'[o] = written[o]
  <1>1. PICK step \in {"finalize", "write"} : GoOn(s, step) \/ Fail(s) \/ Terminate(s)
    BY DEF Write
  <1>2. /\ UNCHANGED <<events, target_filename, custom_writer, spare, buffer, made, stream>>
        /\ written' = [written EXCEPT ![s] = @ + 1]
    BY <1>1 DEF Write, GoOn, Fail, Terminate, targets, temps
  <1>3. /\ at' \in [Sink -> Stage] /\ at'[s] # "alive" /\ (terminated => terminated')
        /\ reported \subseteq reported' /\ reported' \subseteq Sink /\ terminated' \in BOOLEAN
        /\ \A o \in Sink \ {s} : at'[o] = at[o] /\ (o \in reported' <=> o \in reported)
    BY <1>1 DEF GoOn, Fail, Terminate, Goto, Types, StageType, Stage
  <1> QED
    BY <1>2, <1>3 DEF Types, StreamType

(* Where the destructor goes on after a piece. *)
LEMMA WriteStage ==
  ASSUME FInv, NEW s \in Sink, at[s] = "write", Write(s), ~terminated,
         HasWriter(s) => Len(calls'[custom_writer[s]]) = Len(calls[custom_writer[s]]) + 1
  PROVE  StageOK(s)'
  <1>1. /\ Types /\ Named(s) /\ s \notin reported
        /\ written[s] < Len(events[s]) + 2
        /\ HasWriter(s) => Len(calls[custom_writer[s]]) = written[s] + 1
        /\ ~HasWriter(s) => stream[s] = Destination(s)
        /\ HasWriter(s) => stream[s] = NoFile
    BY DEF FInv, StageOK, CallsMade
  <1>2. written[s] \in Nat /\ Len(events[s]) \in Nat /\ Len(Trace(s)) = Len(events[s]) + 2
    BY <1>1, TraceShape DEF Shape, Types, StreamType
  <1>3. /\ UNCHANGED <<events, target_filename, custom_writer, spare, buffer, made, stream>>
        /\ written'[s] = written[s] + 1
    BY <1>1, WriteOutcome
  <1>4. /\ Named(s)' /\ (HasWriter(s)' <=> HasWriter(s))
        /\ ~HasWriter(s)' => stream'[s] = Destination(s)'
        /\ HasWriter(s)' => stream'[s] = NoFile
    BY <1>1, <1>3 DEF Named, HasWriter, Made, NoTemp, Destination
  <1>5. CallsMade(s, written[s] + 1)'
    BY <1>1, <1>2, <1>3, <1>4 DEF CallsMade
  <1>6. CASE GoOn(s, IF written[s] + 1 = Len(Trace(s)) THEN "finalize" ELSE "write")
    <2>1. reported' = reported
          /\ at'[s] = IF written[s] + 1 = Len(Trace(s)) THEN "finalize" ELSE "write"
      BY <1>1, <1>6 DEF GoOn, Goto, Types, StageType
    <2>2. CASE written[s] + 1 = Len(Trace(s))
      <3>1. at'[s] = "finalize" /\ written'[s] = Len(events'[s]) + 2 /\ s \notin reported'
        BY <1>1, <1>2, <1>3, <2>1, <2>2
      <3> QED
        BY <1>4, <1>5, <3>1 DEF StageOK
    <2>3. CASE written[s] + 1 # Len(Trace(s))
      <3>1. at'[s] = "write" /\ written'[s] < Len(events'[s]) + 2 /\ s \notin reported'
        BY <1>1, <1>2, <1>3, <2>1, <2>3
      <3> QED
        BY <1>4, <1>5, <3>1 DEF StageOK
    <2> QED
      BY <2>2, <2>3
  <1>7. CASE Fail(s)
    <2>1. at'[s] = "gone" /\ s \in reported'
      BY <1>1, <1>7 DEF Fail, Goto, Types, StageType
    <2> QED
      BY <2>1 DEF StageOK
  <1>8. CASE Terminate(s)
    <2>1. at'[s] = "write" /\ terminated' /\ s \notin reported'
      BY <1>1, <1>8 DEF Terminate
    <2> QED
      BY <1>4, <1>5, <2>1 DEF StageOK
  <1> QED
    BY <1>6, <1>7, <1>8 DEF Write

LEMMA WriteKeeps ==
  ASSUME FInv, NEW s \in Sink, Write(s), ~terminated
  PROVE  FInv'
  <1>1. Types /\ (\A o \in Sink : StageOK(o)) /\ TempOK /\ WriterOK /\ CallsOK /\ FileOK
    BY DEF FInv
  <1>2. PICK piece : piece = Trace(s)[written[s] + 1]
    OBVIOUS
  <1>3. /\ at[s] = "write" /\ Named(s) /\ s \notin reported
        /\ written[s] < Len(events[s]) + 2
        /\ HasWriter(s) => Len(calls[custom_writer[s]]) = written[s] + 1
        /\ ~HasWriter(s) => stream[s] = Destination(s)
        /\ HasWriter(s) => stream[s] = NoFile
    BY <1>1 DEF Write, StageOK, CallsMade
  <1>4. /\ written[s] \in Nat /\ Len(events[s]) \in Nat /\ Len(Trace(s)) = Len(events[s]) + 2
        /\ Trace(s) \in Seq(Piece)
        /\ \A i \in 1 .. Len(events[s]) + 2 : AllCalls(s)[i + 1] = Trace(s)[i]
    BY <1>1, TraceShape DEF Shape, Types, StreamType
  <1>5. /\ UNCHANGED <<events, target_filename, custom_writer, spare, buffer, made, stream>>
        /\ written' = [written EXCEPT ![s] = @ + 1] /\ written'[s] = written[s] + 1
        /\ at' \in [Sink -> Stage] /\ at'[s] # "alive" /\ (terminated => terminated')
        /\ reported \subseteq reported' /\ reported' \subseteq Sink /\ terminated' \in BOOLEAN
        /\ \A o \in Sink \ {s} : /\ at'[o] = at[o] /\ (o \in reported' <=> o \in reported)
                                 /\ written'[o] = written[o]
    BY <1>1, <1>3, WriteOutcome
  <1>6. written' \in [Sink -> Nat]
    BY <1>1, <1>4, <1>5 DEF Types, StreamType
  <1>7. CASE CallWriter(s, piece) /\ UNCHANGED <<content, good>>
    <2>1. /\ CallsType' /\ CallsOK' /\ WriterOK'
          /\ HasWriter(s) /\ Len(calls'[custom_writer[s]]) = Len(calls[custom_writer[s]]) + 1
          /\ \A o \in Sink \ {s} : HasWriter(o) => calls'[custom_writer[o]] = calls[custom_writer[o]]
      <3>1. HasWriter(s) /\ Len(calls[custom_writer[s]]) = written[s] + 1
        BY <1>3, <1>7 DEF CallWriter, HasWriter
      <3>2. Len(calls[custom_writer[s]]) < Len(events[s]) + 4
        BY <1>3, <1>4, <3>1
      <3>3. piece = AllCalls(s)[Len(calls[custom_writer[s]]) + 1]
        <4>1. written[s] + 1 \in 1 .. Len(events[s]) + 2
          BY <1>3, <1>4
        <4> QED
          BY <1>2, <1>4, <3>1, <4>1
      <3>4. \A o \in Sink : at[o] # "alive" => at'[o] # "alive"
        BY <1>5
      <3>5. at[s] # "alive" /\ UNCHANGED <<events, custom_writer, spare>>
        BY <1>3, <1>5
      <3> QED
        BY <1>1, <1>7, <3>2, <3>3, <3>4, <3>5, CallKeeps
    <2>2. Types'
      BY <1>1, <1>5, <1>6, <1>7, <2>1 DEF Types, EventsType, TargetsType, StageType, TempsType,
                                         StreamType, ContentType
    <2>3. \A o \in Sink : StageOK(o)'
      <3>1. StageOK(s)'
        BY <1>3, <2>1, WriteStage
      <3>2. ASSUME NEW o \in Sink \ {s} PROVE StageOK(o)'
        <4>1. SameSink(o)
          BY <1>5, <1>7 DEF SameSink
        <4> QED
          BY <1>1, <1>5, <2>1, <4>1, StageFrame
      <3> QED
        BY <3>1, <3>2
    <2>4. TempOK'
      BY <1>1, <1>5, <1>7, TempFrame
    <2>5. FileOK'
      <3>1. \A o \in Sink : stream[o] # NoFile =>
              /\ events'[o] = events[o] /\ custom_writer'[o] = custom_writer[o]
              /\ good'[o] = good[o] /\ written'[o] = written[o]
        BY <1>3, <1>5, <1>7, <2>1
      <3> QED
        BY <1>1, <1>5, <1>7, <3>1, FileFrame
    <2> QED
      BY <2>1, <2>2, <2>3, <2>4, <2>5 DEF FInv
  <1>8. CASE WriteToFile(s, piece) /\ UNCHANGED calls
    <2>1. PICK f : f = stream[s]
      OBVIOUS
    <2>2. ~HasWriter(s)
      BY <1>8 DEF WriteToFile, HasWriter
    <2>3. f \in DOMAIN content /\ f # NoFile
      <3>1. f = Destination(s)
        BY <1>3, <2>1, <2>2
      <3>2. f \in AnyFile
        BY <1>1, <1>3, <2>2, <3>1 DEF Destination, Named, Made, Types, TargetsType, Target, AnyFile
      <3> QED
        BY <1>1, <2>1, <3>2 DEF TempOK
    <2>4. piece \in Piece
      <3>1. written[s] + 1 \in 1 .. Len(Trace(s))
        BY <1>3, <1>4
      <3> QED
        BY <1>2, <1>4, <3>1, ElementOfSeq
    <2>5. \/ content' = [content EXCEPT ![f] = Put(f, s, piece)] /\ good' = good
          \/ good' = [good EXCEPT ![s] = FALSE] /\ content' = content
      BY <1>8, <2>1 DEF WriteToFile
    <2>6. Put(f, s, piece) \in Seq(Piece)
      BY <1>1, <1>4, <2>3, <2>4, PutShape DEF Types
    <2>7. Types'
      <3>1. ContentType'
        BY <1>1, <2>3, <2>5, <2>6 DEF Types, ContentType
      <3>2. good' \in [Sink -> BOOLEAN]
        BY <1>1, <2>5 DEF Types, StreamType
      <3> QED
        BY <1>1, <1>5, <1>6, <1>8, <3>1, <3>2 DEF Types, EventsType, TargetsType, StageType, TempsType,
                                                 StreamType, CallsType
    <2>8. \A o \in Sink \ {s} : good'[o] = good[o]
      BY <1>1, <2>5 DEF Types, StreamType
    <2>9. \A o \in Sink : StageOK(o)'
      <3>1. StageOK(s)'
        BY <1>3, <2>2, WriteStage
      <3>2. ASSUME NEW o \in Sink \ {s} PROVE StageOK(o)'
        <4>1. SameSink(o)
          BY <1>5, <2>8 DEF SameSink
        <4> QED
          BY <1>1, <1>5, <1>8, <4>1, StageFrame
      <3> QED
        BY <3>1, <3>2
    <2>10. TempOK'
      BY <1>1, <1>5, <2>5, TempFrame
    <2>11. WriterOK' /\ CallsOK'
      BY <1>1, <1>3, <1>5, <1>8, WriterFrame, CallsFrame
    <2>12. FileOK'
      <3> SUFFICES ASSUME NEW o \in Sink, stream[o] \in AnyFile \ {Stdout}, good'[o], o \notin reported',
                          \A q \in Sink \ {o} : stream[q] # stream[o]
                   PROVE  /\ ~HasWriter(o)
                          /\ Len(content'[stream[o]]) = written'[o]
                          /\ Begins(content'[stream[o]], Trace(o))
        BY <1>5 DEF FileOK, HasWriter, Trace
      <3>1. CASE o = s
        <4>1. good[s] /\ content' = [content EXCEPT ![f] = Put(f, s, piece)]
          BY <1>1, <2>5, <3>1 DEF Types, StreamType
        <4>2. Len(content[f]) = written[s] /\ Begins(content[f], Trace(s))
          BY <1>1, <1>3, <2>1, <3>1, <4>1 DEF FileOK
        <4>3. PICK old, t : old = content[f] /\ t = Trace(s)
          OBVIOUS
        <4>4. old \in Seq(Piece) /\ t \in Seq(Piece) /\ Begins(old, t) /\ Len(old) < Len(t)
          BY <1>1, <1>3, <1>4, <2>3, <4>2, <4>3 DEF Types, ContentType
        <4>5. PICK r : r = Append(old, t[Len(old) + 1])
          OBVIOUS
        <4>6. Len(r) = Len(old) + 1 /\ Begins(r, t)
          BY <4>4, <4>5, BeginsNext
        <4>7. content'[f] = r
          <5>1. Put(f, s, piece) = Append(content[f], piece)
            BY <1>1, <1>4, <2>3, <2>4, <4>2, PutShape DEF Types
          <5> QED
            BY <1>2, <2>3, <4>1, <4>2, <4>3, <4>5, <5>1
        <4> QED
          BY <1>5, <2>1, <2>2, <3>1, <4>2, <4>3, <4>6, <4>7
      <3>2. CASE o # s
        <4>1. stream[o] # f /\ good[o] /\ o \notin reported /\ written'[o] = written[o]
          BY <1>5, <2>1, <2>8, <3>2
        <4>2. stream[o] \in DOMAIN content
          BY <1>1 DEF TempOK
        <4>3. content'[stream[o]] = content[stream[o]]
          BY <2>5, <4>1, <4>2
        <4> QED
          BY <1>1, <4>1, <4>3 DEF FileOK
      <3> QED
        BY <3>1, <3>2
    <2> QED
      BY <2>7, <2>9, <2>10, <2>11, <2>12 DEF FInv
  <1> QED
    BY <1>2, <1>7, <1>8 DEF Write

LEMMA FinalizeKeeps ==
  ASSUME FInv, NEW s \in Sink, Finalize(s), ~terminated
  PROVE  FInv'
  <1>1. Types /\ (\A o \in Sink : StageOK(o)) /\ TempOK /\ WriterOK /\ CallsOK /\ FileOK
    BY DEF FInv
  <1>2. /\ at[s] = "finalize" /\ UNCHANGED <<buffer, made, stream, good, written, content>>
        /\ Named(s) /\ s \notin reported /\ written[s] = Len(events[s]) + 2
        /\ HasWriter(s) => Len(calls[custom_writer[s]]) = written[s] + 1
        /\ ~HasWriter(s) => stream[s] = Destination(s)
        /\ HasWriter(s) => stream[s] = NoFile
    BY <1>1 DEF Finalize, temps, StageOK, CallsMade
  <1>3. /\ Len(events[s]) \in Nat /\ Len(AllCalls(s)) = Len(events[s]) + 4
        /\ AllCalls(s)[Len(events[s]) + 4] = "finalize"
    BY <1>1, TraceShape DEF Shape, Types
  <1>4. /\ UNCHANGED <<events, target_filename, custom_writer, spare>>
        /\ at' \in [Sink -> Stage] /\ at'[s] # "alive" /\ (terminated => terminated')
        /\ reported \subseteq reported' /\ reported' \subseteq Sink /\ terminated' \in BOOLEAN
        /\ \A o \in Sink \ {s} : at'[o] = at[o] /\ (o \in reported' <=> o \in reported)
    BY <1>1, <1>2 DEF Finalize, GoOn, Fail, Terminate, Goto, Types, StageType, Stage, targets
  <1>5. TempOK' /\ FileOK'
    BY <1>1, <1>2, <1>4, TempFrame, FileFrame
  <1>6. CASE CallWriter(s, "finalize") /\ (GoOn(s, "gone") \/ Fail(s) \/ Terminate(s))
    <2>1. /\ CallsType' /\ CallsOK' /\ WriterOK'
          /\ HasWriter(s) /\ Len(calls'[custom_writer[s]]) = Len(calls[custom_writer[s]]) + 1
          /\ \A o \in Sink \ {s} : HasWriter(o) => calls'[custom_writer[o]] = calls[custom_writer[o]]
      <3>1. Len(calls[custom_writer[s]]) = Len(events[s]) + 3
        BY <1>2, <1>3, <1>6 DEF CallWriter, HasWriter
      <3>2. /\ Len(calls[custom_writer[s]]) < Len(events[s]) + 4
            /\ "finalize" = AllCalls(s)[Len(calls[custom_writer[s]]) + 1]
        <4>1. Len(calls[custom_writer[s]]) + 1 = Len(events[s]) + 4
          BY <1>3, <3>1
        <4> QED
          BY <1>3, <3>1, <4>1
      <3>3. \A o \in Sink : at[o] # "alive" => at'[o] # "alive"
        BY <1>4
      <3>4. at[s] # "alive" /\ UNCHANGED <<events, custom_writer, spare>>
        BY <1>2, <1>4
      <3> QED
        BY <1>1, <1>6, <3>2, <3>3, <3>4, CallKeeps
    <2>2. Types'
      BY <1>1, <1>2, <1>4, <2>1 DEF Types, EventsType, TargetsType, StageType, TempsType, StreamType,
                                    ContentType
    <2>3. \A o \in Sink : StageOK(o)'
      <3>1. StageOK(s)'
        <4>1. CASE GoOn(s, "gone")
          <5>1. at'[s] = "gone"
            BY <1>1, <4>1 DEF GoOn, Goto, Types, StageType
          <5>2. Len(calls'[custom_writer'[s]]) = written'[s] + 2
            BY <1>2, <1>3, <1>4, <2>1
          <5> QED
            BY <1>2, <1>4, <5>1, <5>2 DEF StageOK
        <4>2. CASE Fail(s)
          <5>1. at'[s] = "gone" /\ s \in reported'
            BY <1>1, <4>2 DEF Fail, Goto, Types, StageType
          <5> QED
            BY <5>1 DEF StageOK
        <4>3. CASE Terminate(s)
          <5>1. at'[s] = "finalize" /\ terminated' /\ s \notin reported'
            BY <1>2, <4>3 DEF Terminate
          <5>2. Named(s)' /\ (HasWriter(s)' <=> HasWriter(s)) /\ CallsMade(s, written[s] + 1)'
            BY <1>2, <1>4, <5>1 DEF Named, HasWriter, Made, NoTemp, CallsMade
          <5> QED
            BY <1>2, <1>4, <2>1, <5>1, <5>2 DEF StageOK
        <4> QED
          BY <1>6, <4>1, <4>2, <4>3
      <3>2. ASSUME NEW o \in Sink \ {s} PROVE StageOK(o)'
        <4>1. SameSink(o)
          BY <1>2, <1>4 DEF SameSink
        <4> QED
          BY <1>1, <1>4, <2>1, <4>1, StageFrame
      <3> QED
        BY <3>1, <3>2
    <2> QED
      BY <1>5, <2>1, <2>2, <2>3 DEF FInv
  <1>7. CASE custom_writer[s] = NoWriter /\ GoOn(s, "gone") /\ UNCHANGED calls
    <2>1. at'[s] = "gone" /\ ~HasWriter(s)'
      BY <1>1, <1>4, <1>7 DEF GoOn, Goto, Types, StageType, HasWriter
    <2>2. Types'
      BY <1>1, <1>2, <1>4, <1>7 DEF Types, EventsType, TargetsType, StageType, TempsType, StreamType,
                                    ContentType, CallsType
    <2>3. \A o \in Sink : StageOK(o)'
      <3>1. StageOK(s)'
        BY <1>2, <1>4, <2>1 DEF StageOK
      <3>2. ASSUME NEW o \in Sink \ {s} PROVE StageOK(o)'
        <4>1. SameSink(o)
          BY <1>2, <1>4 DEF SameSink
        <4> QED
          BY <1>1, <1>4, <1>7, <4>1, StageFrame
      <3> QED
        BY <3>1, <3>2
    <2>4. WriterOK' /\ CallsOK'
      BY <1>1, <1>2, <1>4, <1>7, WriterFrame, CallsFrame
    <2> QED
      BY <1>5, <2>2, <2>3, <2>4 DEF FInv
  <1> QED
    BY <1>6, <1>7 DEF Finalize

-----------------------------------------------------------------------------
LEMMA InitFInv ==
  ASSUME Init
  PROVE  FInv
  <1>1. Types
    <2>1. \A f \in File \cup {Stdout} : content[f] \in Seq(Piece)
      <3>1. \A k \in 1 .. MaxEvents + 3 : "before" \in Piece
        BY DEF Piece
      <3>2. Before \in [1 .. MaxEvents + 3 -> Piece]
        BY <3>1 DEF Before
      <3>3. Before \in Seq(Piece)
        BY <3>2, IsASeq
      <3> QED
        BY <3>3 DEF Init
    <2>2. ContentType
      BY <2>1 DEF Init, ContentType, AnyFile
    <2>3. EventsType /\ CallsType
      <3>1. <<>> \in Seq(Sink \X Nat) /\ <<>> \in Seq(Call)
        OBVIOUS
      <3> QED
        BY <3>1 DEF Init, EventsType, CallsType
    <2>4. TargetsType /\ StageType /\ TempsType /\ StreamType
      BY DEF Init, TargetsType, StageType, TempsType, StreamType, Target, Stage
    <2> QED
      BY <2>2, <2>3, <2>4 DEF Types
  <1>2. ASSUME NEW s \in Sink PROVE StageOK(s)
    BY DEF Init, StageOK, Untouched, NoTemp
  <1>3. TempOK /\ WriterOK /\ CallsOK /\ FileOK
    <2>1. NoFile \notin TempFile /\ NoFile \notin AnyFile
      BY DEF AnyFile
    <2> QED
      BY <2>1 DEF Init, TempOK, WriterOK, CallsOK, FileOK, HasWriter
  <1> QED
    BY <1>1, <1>2, <1>3 DEF FInv

LEMMA FInvStep ==
  ASSUME FInv, [Next]_vars
  PROVE  FInv'
  <1>1. CASE Next
    <2>1. PICK s \in Sink : /\ ~terminated
                            /\ \/ Receive(s)
                               \/ \E filename \in Target : SetFilename(s, filename)
                               \/ \E writer \in Writer : SetWriter(s, writer)
                               \/ Destroy(s) \/ NameFile(s) \/ Prepare(s) \/ Write(s) \/ Finalize(s)
      BY <1>1 DEF Next
    <2>2. CASE Receive(s)
      BY <2>2, ReceiveKeeps
    <2>3. CASE \E filename \in Target : SetFilename(s, filename)
      BY <2>3, SetFilenameKeeps
    <2>4. CASE \E writer \in Writer : SetWriter(s, writer)
      BY <2>4, SetWriterKeeps
    <2>5. CASE Destroy(s)
      BY <2>5, DestroyKeeps
    <2>6. CASE NameFile(s)
      BY <2>6, NameFileKeeps
    <2>7. CASE Prepare(s)
      BY <2>1, <2>7, PrepareKeeps
    <2>8. CASE Write(s)
      BY <2>1, <2>8, WriteKeeps
    <2>9. CASE Finalize(s)
      BY <2>1, <2>9, FinalizeKeeps
    <2> QED
      BY <2>1, <2>2, <2>3, <2>4, <2>5, <2>6, <2>7, <2>8, <2>9
  <1>2. CASE UNCHANGED vars
    <2>1. UNCHANGED <<events, target_filename, custom_writer, spare, at, buffer, made, stream, good,
                      written, content, calls, reported, terminated>>
      BY <1>2 DEF vars, targets, temps, output
    <2>2. Types'
      BY <2>1 DEF FInv, Types, EventsType, TargetsType, StageType, TempsType, StreamType,
                  ContentType, CallsType
    <2>3. ASSUME NEW s \in Sink PROVE StageOK(s)'
      BY <2>1, StageFrame DEF FInv, SameSink
    <2>4. TempOK' /\ WriterOK' /\ CallsOK' /\ FileOK'
      BY <2>1, TempFrame, WriterFrame, CallsFrame, FileFrame DEF FInv
    <2> QED
      BY <2>2, <2>3, <2>4 DEF FInv
  <1> QED
    BY <1>1, <1>2

(* The invariant on which the theorems below rest: what a sink has at each *)
(* step of its destructor, whose files and writers are whose, and that     *)
(* what they were given so far is the beginning of the sink's trace.       *)
THEOREM FileSinkInvariance == Spec => []FInv
  <1>1. Init => FInv
    BY InitFInv
  <1>2. FInv /\ [Next]_vars => FInv'
    BY FInvStep
  <1> QED
    BY <1>1, <1>2, PTL DEF Spec

(* file_sink::write_out_events: a file that no other sink wrote to holds   *)
(* the sink's whole trace once the sink is gone, unless a failure was      *)
(* reported or the stream went bad.                                        *)
THEOREM TraceIsWhole == Spec => []WholeTrace
  <1>1. ASSUME FInv PROVE WholeTrace
    <2> SUFFICES ASSUME NEW s \in Sink, at[s] = "gone", s \notin reported, good[s],
                        stream[s] \in AnyFile \ {Stdout},
                        \A o \in Sink \ {s} : stream[o] # stream[s]
                 PROVE  content[stream[s]] = Trace(s)
      BY DEF WholeTrace
    <2>1. Types /\ StageOK(s) /\ TempOK /\ FileOK
      BY <1>1 DEF FInv
    <2>2. Len(content[stream[s]]) = written[s] /\ Begins(content[stream[s]], Trace(s))
      BY <2>1 DEF FileOK
    <2>3. written[s] = Len(events[s]) + 2
      BY <2>1 DEF StageOK, Untouched
    <2>4. PICK q, t : q = content[stream[s]] /\ t = Trace(s)
      OBVIOUS
    <2>5. q \in Seq(Piece)
      BY <2>1, <2>4 DEF Types, ContentType, TempOK
    <2>6. t \in Seq(Piece) /\ Len(t) = Len(events[s]) + 2
      BY <2>1, <2>4, TraceShape DEF Shape, Types
    <2>7. q = t
      BY <2>2, <2>3, <2>4, <2>5, <2>6, BeginsWhole
    <2> QED
      BY <2>4, <2>7
  <1> QED
    BY <1>1, FileSinkInvariance, PTL

(* tmp_filename_handle: one file per sink, however often its name is asked *)
(* for, and never the file another sink writes to.                         *)
THEOREM TempIsOwn == Spec => []OwnTemp
  <1>1. ASSUME FInv PROVE OwnTemp
    <2> SUFFICES ASSUME NEW s \in Sink
                 PROVE  /\ at[s] = "prepare" /\ custom_writer[s] = NoWriter
                             /\ target_filename[s] = Template => made[s] = {Destination(s)}
                        /\ \A f \in made[s] : made[s] = {f}
                        /\ \A f \in made[s], o \in Sink \ {s} : stream[o] # f
      BY DEF OwnTemp
    <2>1. Types /\ StageOK(s) /\ TempOK
      BY <1>1 DEF FInv
    <2>2. at[s] = "prepare" /\ custom_writer[s] = NoWriter /\ target_filename[s] = Template
            => made[s] = {Destination(s)}
      BY <2>1 DEF StageOK, Named, HasWriter, Made, Destination
    <2>3. ASSUME NEW f \in made[s], NEW o \in Sink \ {s}, stream[o] = f PROVE FALSE
      <3>1. f \in TempFile
        BY <2>1 DEF Types, TempsType
      <3>2. f \in made[o]
        BY <2>1, <2>3, <3>1 DEF TempOK
      <3> QED
        BY <2>1, <3>2 DEF TempOK
    <2> QED
      BY <2>1, <2>2, <2>3 DEF TempOK
  <1> QED
    BY <1>1, FileSinkInvariance, PTL

(* custom_writer: prepared first, then one sink's pieces in order, then    *)
(* finalised, and not called any more after it threw; a sink that is gone  *)
(* without a report has finalised its writer.                              *)
THEOREM WriterCalls == Spec => []WriterProtocol
  <1>1. ASSUME FInv PROVE WriterProtocol
    <2>1. Types /\ WriterOK /\ CallsOK /\ \A s \in Sink : StageOK(s)
      BY <1>1 DEF FInv
    <2>2. ASSUME NEW w \in Writer, calls[w] # <<>>
          PROVE  \E s \in Sink :
                   /\ custom_writer[s] = w
                   /\ IsPrefix(calls[w], <<"prepare">> \o Trace(s) \o <<"finalize">>)
      <3>1. PICK s \in Sink : custom_writer[s] = w
        BY <2>1, <2>2 DEF WriterOK
      <3>2. PICK q, all : q = calls[w] /\ all = AllCalls(s)
        OBVIOUS
      <3>3. q \in Seq(Call)
        BY <2>1, <3>2 DEF Types, CallsType
      <3>4. all \in Seq(Call)
        BY <2>1, <3>2, TraceShape DEF Shape, Types
      <3>5. Begins(q, all)
        BY <2>1, <3>1, <3>2 DEF CallsOK, HasWriter
      <3>6. IsPrefix(q, all)
        BY <3>3, <3>4, <3>5, BeginsIsPrefix
      <3> QED
        BY <3>1, <3>2, <3>6 DEF AllCalls
    <2>3. ASSUME NEW s \in Sink, at[s] = "gone", s \notin reported, events[s] # <<>>,
                 custom_writer[s] # NoWriter
          PROVE  /\ calls[custom_writer[s]] # <<>>
                 /\ Last(calls[custom_writer[s]]) = "finalize"
      <3>1. PICK q, all, n : q = calls[custom_writer[s]] /\ all = AllCalls(s) /\ n = Len(events[s])
        OBVIOUS
      <3>2. Len(q) = n + 4
        <4>1. /\ written[s] = Len(events[s]) + 2
              /\ Len(calls[custom_writer[s]]) = written[s] + 2
          BY <2>1, <2>3 DEF StageOK, HasWriter
        <4>2. n \in Nat
          BY <2>1, <3>1, TraceShape DEF Shape, Types
        <4> QED
          BY <3>1, <4>1, <4>2
      <3>3. Begins(q, all)
        BY <2>1, <2>3, <3>1 DEF CallsOK, HasWriter
      <3>4. n \in Nat /\ Len(all) = n + 4 /\ all[n + 4] = "finalize"
        BY <2>1, <3>1, TraceShape DEF Shape, Types
      <3>5. q[n + 4] = "finalize"
        BY <3>2, <3>3, <3>4 DEF Begins
      <3>6. Len(<<>>) = 0
        OBVIOUS
      <3> QED
        BY <3>1, <3>2, <3>4, <3>5, <3>6 DEF Last
    <2> QED
      BY <2>2, <2>3 DEF WriterProtocol
  <1> QED
    BY <1>1, FileSinkInvariance, PTL

(* write_out_events gives up silently only where the code says so: without *)
(* a target, or when the file's stream went bad.                           *)
THEOREM NoneSkipped == Spec => []NothingSkipped
  <1>1. ASSUME FInv PROVE NothingSkipped
    <2> SUFFICES ASSUME NEW s \in Sink, at[s] = "gone", events[s] # <<>>, s \notin reported,
                        written[s] < Len(Trace(s))
                 PROVE  target_filename[s] = Empty /\ custom_writer[s] = NoWriter
      BY DEF NothingSkipped
    <2>1. Types /\ StageOK(s)
      BY <1>1 DEF FInv
    <2>2. Len(Trace(s)) = Len(events[s]) + 2 /\ Len(events[s]) \in Nat
      BY <2>1, TraceShape DEF Shape, Types
    <2>3. written[s] # Len(events[s]) + 2
      BY <2>2
    <2> QED
      BY <2>1, <2>3 DEF StageOK, HasWriter
  <1> QED
    BY <1>1, FileSinkInvariance, PTL

-----------------------------------------------------------------------------
(* What a step does to standard output.                                    *)
LEMMA StdoutStep ==
  ASSUME FInv, [Next]_vars
  PROVE  \/ content'[Stdout] = content[Stdout]
         \/ \E piece \in Piece : content'[Stdout] = Append(content[Stdout], piece)
  <1>1. Types /\ Stdout \in DOMAIN content /\ Stdout \notin TempFile
    BY DEF FInv, Types, ContentType
  <1>2. CASE UNCHANGED content
    BY <1>2
  <1>3. CASE \E s \in Sink : NameFile(s)
    <2>1. PICK s \in Sink, next \in Stage : MakeTemp(s, next) \/ UNCHANGED content
      BY <1>3 DEF NameFile, Convert, Stage
    <2>2. CASE MakeTemp(s, next)
      BY <1>1, <2>2 DEF MakeTemp
    <2> QED
      BY <2>1, <2>2
  <1>4. CASE \E s \in Sink : Prepare(s)
    <2>1. PICK s \in Sink : OpenFile(s) \/ UNCHANGED content
      BY <1>4 DEF Prepare
    <2>2. CASE OpenFile(s)
      <3>1. PICK f : f = Destination(s)
        OBVIOUS
      <3>2. content' = [content EXCEPT ![f] = Opened(f)]
        BY <2>2, <3>1 DEF OpenFile
      <3> QED
        BY <1>1, <3>2 DEF Opened
    <2> QED
      BY <2>1, <2>2
  <1>5. CASE \E s \in Sink : Write(s) /\ ~terminated
    <2>1. PICK s \in Sink : Write(s) /\ ~terminated
      BY <1>5
    <2>2. PICK piece, f : piece = Trace(s)[written[s] + 1] /\ f = stream[s]
      OBVIOUS
    <2>3. piece \in Piece /\ written[s] \in Nat
      <3>1. written[s] \in Nat /\ written[s] < Len(events[s]) + 2 /\ at[s] = "write"
        BY <1>1, <2>1 DEF FInv, StageOK, Write, Types, StreamType
      <3>2. PICK t : t = Trace(s)
        OBVIOUS
      <3>3. t \in Seq(Piece) /\ Len(t) = Len(events[s]) + 2 /\ Len(events[s]) \in Nat
        BY <1>1, <3>2, TraceShape DEF Shape, Types
      <3>4. written[s] + 1 \in 1 .. Len(t)
        BY <3>1, <3>3
      <3> QED
        BY <2>2, <3>1, <3>2, <3>3, <3>4, ElementOfSeq
    <2>4. \/ UNCHANGED content
          \/ content' = [content EXCEPT ![f] = Put(f, s, piece)]
      BY <2>1, <2>2 DEF Write, WriteToFile
    <2>5. CASE content' = [content EXCEPT ![f] = Put(f, s, piece)] /\ f = Stdout
      <3>1. content'[Stdout] = Put(Stdout, s, piece)
        BY <1>1, <2>5
      <3>2. Put(Stdout, s, piece) = Append(content[Stdout], piece)
        BY <1>1, <2>3, PutShape DEF Types
      <3> QED
        BY <2>3, <3>1, <3>2
    <2>6. CASE content' = [content EXCEPT ![f] = Put(f, s, piece)] /\ f # Stdout
      BY <1>1, <2>6
    <2> QED
      BY <2>4, <2>5, <2>6
  <1>6. CASE \E s \in Sink : \/ Receive(s) \/ Destroy(s) \/ Finalize(s)
                             \/ \E filename \in Target : SetFilename(s, filename)
                             \/ \E writer \in Writer : SetWriter(s, writer)
    BY <1>6 DEF Receive, Destroy, Finalize, SetFilename, SetWriter, output
  <1>7. CASE UNCHANGED vars
    BY <1>7 DEF vars, output
  <1> QED
    BY <1>2, <1>3, <1>4, <1>5, <1>6, <1>7 DEF Next

(* default_writer opens "/dev/stdout" for appending: nothing that any sink *)
(* does changes what is there already.                                     *)
THEOREM StdoutKept == Spec => StdoutOnlyGrows
  <1>1. ASSUME FInv, [Next]_vars
        PROVE  IsPrefix(content[Stdout], content'[Stdout])
    <2>1. PICK old, new : old = content[Stdout] /\ new = content'[Stdout]
      OBVIOUS
    <2>2. old \in Seq(Piece)
      BY <1>1, <2>1 DEF FInv, Types, ContentType
    <2>3. new \in Seq(Piece) /\ Begins(old, new)
      <3>1. CASE new = old
        BY <2>2, <3>1 DEF Begins
      <3>2. CASE \E piece \in Piece : new = Append(old, piece)
        BY <2>2, <3>2 DEF Begins
      <3> QED
        BY <1>1, <2>1, <3>1, <3>2, StdoutStep
    <2>4. IsPrefix(old, new)
      BY <2>2, <2>3, BeginsIsPrefix
    <2> QED
      BY <2>1, <2>4
  <1>2. FInv /\ [Next]_vars => [IsPrefix(content[Stdout], content'[Stdout])]_vars
    BY <1>1
  <1> QED
    BY <1>2, FileSinkInvariance, PTL DEF Spec, StdoutOnlyGrows
=============================================================================
