----------------------------- MODULE SinkExamples -----------------------------
(***************************************************************************)
(* The programs of examples/ and of the sinks' unit tests that use several *)
(* threads or several sinks, run on SinkTree in every interleaving: one    *)
(* script of calls per thread.  A call <<"record", l, n>> stands for n     *)
(* events with label l recorded one after the other, with no other call of *)
(* the library in between.  Setting a target, reserving capacity, sleeping *)
(* and logging do not change where an event goes and are left out.         *)
(***************************************************************************)
EXTENDS SinkTree, SequencesExt

VARIABLES
  example,   (* The program that runs. *)
  pc         (* The next call of each of its threads. *)

exampleVars == <<vars, example, pc>>
-----------------------------------------------------------------------------
(* Calls every example is made of. *)
Make(f)       == <<"make", f>>          (* file_sink_handle::make *)
Cascades(c,p) == <<"cascade", c, p>>    (* cascade_sink_handle::make *)
To(s)         == <<"divert", s>>        (* divert_thread_sink_to_this *)
Rec(l, n)     == <<"record", l, n>>
FlushNow      == <<"flush">>            (* sink_thread_flush_now *)
Start(t)      == <<"start", t>>
Join(t)       == <<"join", t>>
Gone(s)       == <<"gone", s>>          (* A handle or a sink is destroyed. *)
IsEmpty(s)    == <<"empty", s>>         (* A unit test's requirement. *)
HasSome(s)    == <<"filled", s>>

(* What a program does, and the labels and numbers of the events every     *)
(* file must hold in the end, as its integration test requires.            *)
Program(script, files) == [script |-> script, files |-> files]

(* One thread that switches between a local and the global sink. *)
diversion_1 == Program(
  [main |-> << Make("file"), To("file"),
               Rec("custom first", 2), FlushNow, To("global"),
               Rec("global first", 2), FlushNow, To("file"),
               Rec("custom second", 2), FlushNow, To("global"),
               Rec("global second", 2), FlushNow, Gone("file") >>],
  [file   |-> << <<"custom first", 2>>, <<"custom second", 2>> >>,
   global |-> << <<"global first", 2>>, <<"global second", 2>> >>])

(* Two threads on a thread-safe local sink, two on the global one. *)
diversion_2 == Program(
  [main |-> << Make("safe_file"), Start("t1"), Start("t2"), Start("t3"),
               Start("t4"), Join("t1"), Join("t2"), Join("t3"), Join("t4"),
               Gone("safe_file") >>,
   t1 |-> << To("safe_file"), Rec("custom first", 2) >>,
   t2 |-> << Rec("global first", 2) >>,
   t3 |-> << To("safe_file"), Rec("custom second", 2) >>,
   t4 |-> << Rec("global second", 2) >>],
  [safe_file |-> << <<"custom first", 2>>, <<"custom second", 2>> >>,
   global    |-> << <<"global first", 2>>, <<"global second", 2>> >>])

(* Main uses the other thread's sink before it has joined that thread. *)
MutantDiversion_3 == Program(
  [main |-> << Make("file"), Make("file_2"), Start("t1"), Start("t2"),
               Join("t1"),
               To("file"), Rec("main 1", 2), FlushNow,
               To("file_2"), Rec("main 2", 2), FlushNow,
               Join("t2"), Gone("file_2"), Gone("file") >>,
   t1 |-> << To("file"), Rec("spawned 1", 2) >>,
   t2 |-> << To("file_2"), Rec("spawned 2", 2) >>],
  [file   |-> << <<"spawned 1", 2>>, <<"main 1", 2>> >>,
   file_2 |-> << <<"spawned 2", 2>>, <<"main 2", 2>> >>,
   global |-> << >>])

(* Two thread-unsafe sinks, used by a thread each and then by main. *)
diversion_3 == Program(
  [main |-> << Make("file"), Make("file_2"), Start("t1"), Start("t2"),
               Join("t1"), Join("t2"),
               To("file"), Rec("main 1", 2), FlushNow,
               To("file_2"), Rec("main 2", 2), FlushNow,
               Gone("file_2"), Gone("file") >>,
   t1 |-> << To("file"), Rec("spawned 1", 2) >>,
   t2 |-> << To("file_2"), Rec("spawned 2", 2) >>],
  [file   |-> << <<"spawned 1", 2>>, <<"main 1", 2>> >>,
   file_2 |-> << <<"spawned 2", 2>>, <<"main 2", 2>> >>,
   global |-> << >>])

(* A tree: three cascades on one file sink, shared by threads at the same  *)
(* time (t1, t11, t12), by threads one after the other (t2, t21, t22), and *)
(* used by main alone.                                                     *)
diversion_4 == Program(
  [main |-> << Make("safe_file"), Start("t1"), Start("t2"),
               Cascades("cascade", "safe_file"), To("cascade"),
               Rec("block", 2), FlushNow, Join("t1"), Join("t2"),
               To("safe_file"), Rec("block", 2), FlushNow,
               Gone("cascade"), Gone("safe_file") >>,
   t1 |-> << Cascades("safe_cascade", "safe_file"), To("safe_cascade"),
             Start("t11"), Start("t12"), Rec("block", 2),
             Join("t11"), Join("t12"), FlushNow, Gone("safe_cascade") >>,
   t11 |-> << To("safe_cascade"), Rec("block", 2) >>,
   t12 |-> << To("safe_cascade"), Rec("block", 2) >>,
   t2 |-> << Cascades("cascade_2", "safe_file"), To("cascade_2"),
             Start("t21"), Join("t21"), Rec("block", 2),
             Start("t22"), Join("t22"), FlushNow, Gone("cascade_2") >>,
   t21 |-> << To("cascade_2"), Rec("block", 2) >>,
   t22 |-> << To("cascade_2"), Rec("block", 2) >>],
  [safe_file |-> << <<"block", 16>> >>, global |-> << >>])

(* Every thread has a thread-unsafe sink of its own. *)
diversion_5 == Program(
  [main |-> << Make("file"), To("file"), Start("t1"), Start("t2"), Start("t3"),
               Rec("block", 5), FlushNow, Join("t1"), Join("t2"), Join("t3"),
               Gone("file") >>,
   t1 |-> << Make("file_2"), To("file_2"), Rec("block", 5), FlushNow,
             Gone("file_2") >>,
   t2 |-> << Make("file_3"), To("file_3"), Rec("block", 5), FlushNow,
             Gone("file_3") >>,
   t3 |-> << Make("file_4"), To("file_4"), Rec("block", 5), FlushNow,
             Gone("file_4") >>],
  [f \in {"file", "file_2", "file_3", "file_4", "global"} |->
     IF f = "global" THEN << >> ELSE << <<"block", 5>> >>])

(* Flushes before it switches. *)
MutantToFile(f) == << Make(f), FlushNow, To(f), Gone(f), To("global") >>

(* flush_to_file_now: a switch with an event pending, which is meant to    *)
(* end in the new sink, and a way back only after that sink is gone.       *)
ToFile(f) == << Make(f), To(f), FlushNow, Gone(f), To("global") >>

split_files == Program(
  [main |-> << Rec("complete", 1) >> \o ToFile("file")
         \o << Rec("instant", 1) >> \o ToFile("file_2")
         \o << Rec("counter", 1) >> \o ToFile("file_3")],
  [file   |-> << <<"complete", 1>> >>,
   file_2 |-> << <<"instant", 1>> >>,
   file_3 |-> << <<"counter", 1>> >>,
   global |-> << >>])
-----------------------------------------------------------------------------
(* Programs that leave every thread with the global sink. *)

OnlyGlobal(script, n) ==
  Program(script, [global |-> IF n = 0 THEN << >> ELSE << <<"event", n>> >>])

Evt(n) == Rec("event", n)

(* The complete marker of record_some_events ends after the flush. *)
RecordSomeEvents == << Evt(2), FlushNow, Evt(1) >>

custom_writer == OnlyGlobal(
  [main |-> << Start("t1") >> \o RecordSomeEvents \o << Join("t1") >>,
   t1 |-> RecordSomeEvents], 6)

only_init == OnlyGlobal(
  [main |-> << Start("t1"), Join("t1"), Start("t2"), Start("t3"), FlushNow,
               Join("t2"), Start("t4"), Join("t4"), Join("t3") >>,
   t1 |-> << FlushNow >>, t2 |-> << FlushNow >>, t3 |-> << FlushNow >>,
   t4 |-> << FlushNow >>], 0)

instant_1 == OnlyGlobal(
  [main |-> << Evt(1), Start("t1"), Start("t2"), Start("t3"), Evt(1),
               Join("t1"), Join("t2"), Join("t3") >>,
   t1 |-> << Evt(1) >>, t2 |-> << Evt(1) >>, t3 |-> << Evt(1) >>], 5)

instant_2 == OnlyGlobal(
  [main |-> << Evt(1), Start("t1"), Start("t2"), Start("t3"),
               Join("t1"), Join("t2"), Join("t3"), Evt(2) >>,
   t1 |-> << Evt(2) >>, t2 |-> << Evt(2) >>, t3 |-> << Evt(2) >>], 9)

counter_1 == OnlyGlobal(
  [main |-> << Evt(4), Start("t1"), Start("t2"), Join("t1"), Join("t2"),
               Evt(2) >>,
   t1 |-> << Evt(3) >>, t2 |-> << Evt(3) >>], 12)

complete_1 == OnlyGlobal(
  [main |-> << Start("t1"), Start("t2"), Evt(4), Join("t1"), Join("t2"),
               Evt(1) >>,
   t1 |-> << Evt(3) >>, t2 |-> << Evt(5) >>], 13)

duration_1 == OnlyGlobal(
  [main |-> << Evt(5), Start("t1"), Start("t2"), Evt(22), Join("t1"),
               Join("t2"), Evt(1) >>,
   t1 |-> << Evt(2) >>, t2 |-> << Evt(2) >>], 32)

metadata_1 == OnlyGlobal(
  [main |-> << Evt(9), Start("t1"), Evt(2), Join("t1"), Evt(2) >>,
   t1 |-> << Evt(5) >>], 18)

direct_usage == OnlyGlobal(
  [main |-> << Start("t1"), Evt(4), Join("t1"), Evt(1) >>,
   t1 |-> << Evt(6) >>], 11)
-----------------------------------------------------------------------------
(* The unit tests of the sinks.  A leaf that lives in a test function is   *)
(* the collector of the thread that runs it, and its end is a flush: its   *)
(* destructor takes the same steps without the lock a collector lacks.     *)

test_one_leaf == Program(
  [main |-> << Make("file"), To("file"), Rec("event", 7),
               HasSome("main"), IsEmpty("file"), FlushNow,
               IsEmpty("main"), HasSome("file"), Gone("file") >>],
  [file |-> << <<"event", 7>> >>, global |-> << >>])

test_cascade_unsafe == Program(
  [main |-> << Make("file"), Cascades("cascade", "file"), To("cascade"),
               IsEmpty("cascade"), Rec("first", 1), FlushNow, HasSome("cascade"),
               Rec("second", 1), FlushNow, IsEmpty("file"),
               Gone("cascade"), HasSome("file"), Gone("file") >>],
  [file |-> << <<"first", 1>>, <<"second", 1>> >>, global |-> << >>])

test_cascade_safe == Program(
  [main |-> << Make("file"), Cascades("safe_cascade", "file"),
               IsEmpty("safe_cascade"), Start("t1"), Start("t2"),
               To("safe_cascade"), Rec("event", 1), FlushNow,
               Join("t1"), Join("t2"), HasSome("safe_cascade"), IsEmpty("file"),
               Gone("safe_cascade"), HasSome("file"), Gone("file") >>,
   t1 |-> << To("safe_cascade"), Rec("event", 1) >>,
   t2 |-> << To("safe_cascade"), Rec("event", 1) >>],
  [file |-> << <<"event", 3>> >>, global |-> << >>])

test_file_safe == Program(
  [main |-> << Make("safe_file"), IsEmpty("safe_file"), Start("t1"),
               To("safe_file"), Rec("event", 1), FlushNow, Join("t1"),
               HasSome("safe_file"), Gone("safe_file") >>,
   t1 |-> << To("safe_file"), Rec("event", 1) >>],
  [safe_file |-> << <<"event", 2>> >>, global |-> << >>])

Examples ==
  {diversion_1, diversion_2, diversion_3, diversion_4, diversion_5, split_files,
   custom_writer, only_init, instant_1, instant_2, counter_1, complete_1,
   duration_1, metadata_1, direct_usage, test_one_leaf, test_cascade_unsafe,
   test_cascade_safe, test_file_safe}
-----------------------------------------------------------------------------
(* The threads of the example; the others of the model do not take part. *)
Threads == DOMAIN example.script

Script(t) == IF t \in Threads THEN example.script[t] ELSE <<>>

(* The call thread t makes next: when its function has returned, its       *)
(* collector is destroyed.                                                 *)
NextCall(t) == IF pc[t] <= Len(Script(t)) THEN Script(t)[pc[t]] ELSE <<"end">>

Begin ==
  /\ example \in Examples
  /\ pc = [t \in Thread |-> 1]
  /\ InitWith([h \in Holder |->
                 CASE h \in {"main", Global} -> "alive"
                   [] h \in Thread \ Threads -> "dead"
                   [] OTHER -> "unborn"])

(* std::thread's constructor. *)
StartThread(u) ==
  /\ life[u] = "unborn"
  /\ life' = [life EXCEPT ![u] = "alive"]
  /\ UNCHANGED <<events, parent, mutex, call, recorded, switches, root, depth,
                 written>>

(* A flush of an empty collector has no effect. *)
DoFlush(t) ==
  \/ BeginFlush(t, t)
  \/ events[t] = <<>> /\ UNCHANGED vars

Perform(t, next) ==
  \/ next[1] = "make"    /\ MakeFileSink(t, next[2])
  \/ next[1] = "cascade" /\ MakeCascade(t, next[2], next[3])
  \/ next[1] = "divert"  /\ Divert(t, next[2])
  \/ next[1] = "record"  /\ Record(t)
  \/ next[1] = "flush"   /\ DoFlush(t)
  \/ next[1] = "start"   /\ StartThread(next[2])
  \/ next[1] = "join"    /\ life[next[2]] = "dead" /\ UNCHANGED vars
  \/ next[1] = "gone"    /\ next[2] \in FileSink /\ DestroyFileSink(t, next[2])
  \/ next[1] = "gone"    /\ next[2] \in Cascade /\ DestroyCascade(t, next[2])
  \/ next[1] \in {"empty", "filled"} /\ UNCHANGED vars
  \/ next[1] = "end"     /\ ExitThread(t)

MakeCall(t) ==
  /\ Running(t)
  /\ Perform(t, NextCall(t))
  /\ pc' = [pc EXCEPT ![t] = @ + 1]
  /\ UNCHANGED example

ExampleNext ==
  \/ \E t \in Threads : MakeCall(t)
  \/ (\E t \in Threads : Continue(t)) /\ UNCHANGED <<example, pc>>
  \/ (DestroyGlobal \/ Terminated) /\ UNCHANGED <<example, pc>>

ExampleSpec == Begin /\ [][ExampleNext]_exampleVars
-----------------------------------------------------------------------------
(* Whether the caller's obligations for a call are met, and the            *)
(* requirements of a unit test.                                            *)
Allowed(t, next) ==
  CASE next[1] = "flush"   -> MayFlush(t, t)
    [] next[1] = "cascade" -> life[next[3]] = "alive"
    [] next[1] = "divert"  -> life[next[2]] = "alive"
    [] next[1] = "record"  -> life[parent[t]] = "alive"
    [] next[1] = "gone"    -> MayDestroy(t, next[2])
    [] next[1] = "end"     -> MayExit(t)
    [] next[1] = "empty"   -> events[next[2]] = <<>>
    [] next[1] = "filled"  -> events[next[2]] # <<>>
    [] OTHER -> TRUE

(* The examples keep the obligations of a caller in every interleaving:    *)
(* whenever a thread gets to a call, it may make it at once, whatever the  *)
(* other threads are doing; and the unit tests find the sinks as empty or  *)
(* as filled as they require.                                              *)
ExamplesKeepObligations ==
  \A t \in Threads : Running(t) => Allowed(t, NextCall(t))

(* The call that recorded an event. *)
RecordedBy(e) ==
  SelectSeq(Script(e.by), LAMBDA next : next[1] = "record")[e.nr]

(* How many events with label l were written to f. *)
Written(f, l) ==
  MapThenSumSet(LAMBDA i : RecordedBy(written[f][i])[3],
                {i \in DOMAIN written[f] : RecordedBy(written[f][i])[2] = l})

Labels(f) == {RecordedBy(written[f][i])[2] : i \in DOMAIN written[f]}

(* However the threads run, when the process has ended every file holds    *)
(* the events its test looks for, as many as it counts, and no others.     *)
FilesAsTested ==
  life[Global] = "dead" =>
    /\ \A f \in DOMAIN example.files :
         {<<l, Written(f, l)>> : l \in Labels(f)} = ToSet(example.files[f])
    /\ \A f \in FileSink \ DOMAIN example.files : written[f] = <<>>
=============================================================================
