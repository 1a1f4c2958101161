-------------------------- MODULE BenchmarkRunProofs --------------------------
(***************************************************************************)
(* Proofs about BenchmarkRun, for any number of threads and iterations:    *)
(* what the threads measured is in the meta file, once and complete; the   *)
(* order statistics that are reported of any values are in order; and the  *)
(* post-processing counts every interval of what any interleaving of the   *)
(* threads has recorded.                                                   *)
(***************************************************************************)
EXTENDS BenchmarkRun, IterationTheorems, TLAPS, SequenceTheorems, FiniteSetTheorems

(* Where a thread is before each of its measured calls. *)
BeforeReserve == {"spawn", "unborn", "reserve"}
BeforeStop == BeforeReserve \cup {"iterate"}
BeforeFlush == BeforeStop \cup {"flush", "link"}
AfterJoin == {"global_flush", "return", "exit", "gone"}
Place == BeforeFlush \cup {"join"} \cup AfterJoin

Counts == [Measurement -> Nat]
PerfEntry == [Measurement \cup {"tid"} -> Nat]

Type ==
  /\ num_threads \in Nat \ {0}
  /\ at \in [Tid -> Place]
  /\ meta \in [Tid -> Counts]
  /\ ms \in Seq(PerfEntry)

(* What a thread has been measured for when it is at a place. *)
Measured(count, place) ==
  /\ count["thread_reserve"] = IF place \in BeforeReserve THEN 0 ELSE 1
  /\ count["markers_submission"] = IF place \in BeforeStop THEN 0 ELSE 1
  /\ count["thread_flush"] = IF place \in BeforeFlush THEN 0 ELSE 1

MetaOK == \A t \in Tid : Measured(meta[t], at[t])

(* The main thread starts the others before, and joins them after, all     *)
(* that is measured of them.                                               *)
MainOK ==
  /\ at[0] = "spawn" => \A t \in Workers : at[t] = "unborn"
  /\ at[0] \in AfterJoin => \A t \in Workers : at[t] = "gone"
  /\ at[0] \in AfterJoin \ {"global_flush"} => meta[0]["global_flush"] > 0

Gone == {t \in Tid : at[t] = "gone"}

(* One entry of each thread that has ended, with what its meta still says. *)
EntriesOK ==
  /\ Len(ms) = Cardinality(Gone)
  /\ \A k \in 1 .. Len(ms) :
       /\ ms[k]["tid"] \in Gone
       /\ \A name \in Measurement : ms[k][name] = meta[ms[k]["tid"]][name]
  /\ \A t \in Gone : \E k \in 1 .. Len(ms) : ms[k]["tid"] = t
  /\ at[0] = "gone" => Len(ms) # 0 /\ ms[Len(ms)]["tid"] = 0

FileOK == meta_file # NoFile => at[0] = "gone" /\ meta_file.thread_perfs = ms

RInv == Type /\ MetaOK /\ MainOK /\ EntriesOK /\ FileOK

-----------------------------------------------------------------------------
LEMMA Threads ==
  ASSUME num_threads \in Nat \ {0}
  PROVE  /\ 0 \in Tid /\ Tid \in SUBSET Nat /\ IsFiniteSet(Tid)
         /\ Cardinality({}) = 0 /\ IsFiniteSet({})
<1>1. IsFiniteSet(0 .. num_threads - 1)
  BY FS_Interval
<1>2. IsFiniteSet({0}) /\ IsFiniteSet({}) /\ Cardinality({}) = 0
  BY FS_Singleton, FS_EmptySet
<1> QED
  BY <1>1, <1>2 DEF Tid

(* The threads are the same all the time. *)
LEMMA SameThreads ==
  ASSUME UNCHANGED args
  PROVE  Tid' = Tid /\ Workers' = Workers /\ num_threads' = num_threads
  BY DEF args, Tid, Workers

(* A thread goes on to another place, but does not end. *)
LEMMA ThreadMoves ==
  ASSUME RInv, UNCHANGED <<args, ms, meta_file>>,
         NEW t \in Tid, at[t] \notin {"spawn", "unborn", "gone"},
         NEW place \in Place \ {"spawn", "gone"}, at' = [at EXCEPT ![t] = place],
         NEW count \in Counts, meta' = [meta EXCEPT ![t] = count],
         Measured(count, place),
         t = 0 /\ place \in AfterJoin => \A w \in Workers : at[w] = "gone",
         t = 0 /\ place \in AfterJoin \ {"global_flush"} => count["global_flush"] > 0
  PROVE  RInv'
<1>1. Type /\ MetaOK /\ MainOK /\ EntriesOK /\ FileOK
  BY DEF RInv
<1>2. Tid' = Tid /\ Workers' = Workers /\ num_threads' = num_threads
  BY SameThreads
<1>3. \A u \in Tid : at'[u] = (IF u = t THEN place ELSE at[u])
                     /\ meta'[u] = (IF u = t THEN count ELSE meta[u])
  BY <1>1 DEF Type
<1>4. 0 \in Tid
  BY <1>1, Threads DEF Type
<1>5. Type'
  BY <1>1, <1>2 DEF Type
<1>6. MetaOK'
  BY <1>1, <1>2, <1>3 DEF MetaOK
<1>7. MainOK'
  <2>1. CASE t = 0
    <3>1. \A w \in Workers : at'[w] = at[w]
      BY <1>3, <2>1 DEF Workers
    <3>2. at'[0] = place /\ meta'[0] = count
      BY <1>3, <1>4, <2>1
    <3> QED
      BY <1>2, <2>1, <3>1, <3>2 DEF MainOK
  <2>2. CASE t # 0
    <3>1. t \in Workers /\ at[t] # "gone"
      BY <2>2 DEF Workers
    <3>2. at[0] \notin AfterJoin /\ at[0] # "spawn"
      BY <1>1, <3>1 DEF MainOK
    <3>3. at'[0] = at[0]
      BY <1>3, <1>4, <2>2
    <3> QED
      BY <3>2, <3>3 DEF MainOK
  <2> QED
    BY <2>1, <2>2
<1>8. Gone' = Gone
  BY <1>2, <1>3 DEF Gone
<1>9. \A u \in Gone : meta'[u] = meta[u]
  BY <1>3 DEF Gone
<1>10. at'[0] = "gone" <=> at[0] = "gone"
  BY <1>3, <1>4
<1>11. EntriesOK'
  BY <1>1, <1>8, <1>9, <1>10 DEF EntriesOK
<1>12. FileOK'
  BY <1>1, <1>10 DEF FileOK
<1> QED
  BY <1>5, <1>6, <1>7, <1>11, <1>12 DEF RInv

(* Steps that move no thread. *)
LEMMA Frame ==
  ASSUME RInv, UNCHANGED <<args, at, meta, ms>>, UNCHANGED meta_file \/ WriteMetaFile
  PROVE  RInv'
<1>1. Tid' = Tid /\ Workers' = Workers /\ num_threads' = num_threads
  BY SameThreads
<1>2. Type' /\ MetaOK' /\ MainOK'
  BY <1>1 DEF RInv, Type, MetaOK, MainOK
<1>3. Gone' = Gone
  BY <1>1 DEF Gone
<1>4. EntriesOK'
  BY <1>3 DEF RInv, EntriesOK
<1>5. FileOK'
  <2>1. CASE UNCHANGED meta_file
    BY <2>1 DEF RInv, FileOK
  <2>2. CASE WriteMetaFile
    <3>1. at'[0] = "gone" /\ meta_file'.thread_perfs = ms'
      BY <2>2 DEF WriteMetaFile
    <3> QED
      BY <3>1 DEF FileOK
  <2> QED
    BY <2>1, <2>2
<1> QED
  BY <1>2, <1>4, <1>5 DEF RInv

(* One more call in a thread's meta. *)
LEMMA OneMore ==
  ASSUME Type, NEW t \in Tid, NEW name \in Measurement, Measure(t, name)
  PROVE  \E count \in Counts :
           /\ meta' = [meta EXCEPT ![t] = count]
           /\ \A other \in Measurement :
                count[other] = IF other = name THEN meta[t][other] + 1 ELSE meta[t][other]
<1>1. PICK count : count = [meta[t] EXCEPT ![name] = @ + 1]
  OBVIOUS
<1>2. meta[t] \in Counts
  BY DEF Type
<1>3. count \in Counts /\ \A other \in Measurement :
        count[other] = IF other = name THEN meta[t][other] + 1 ELSE meta[t][other]
  BY <1>1, <1>2 DEF Counts
<1>4. meta' = [meta EXCEPT ![t] = count]
  BY <1>1 DEF Measure
<1> QED
  BY <1>3, <1>4

-----------------------------------------------------------------------------
LEMMA InitRInv ==
  ASSUME Init
  PROVE  RInv
<1>1. num_threads \in Nat \ {0}
  BY RunAssumption DEF Init
<1>2. 0 \in Tid /\ Cardinality({}) = 0
  BY <1>1, Threads
<1>3. Type
  <2>1. \A t \in Tid : (IF t = 0 THEN "spawn" ELSE "unborn") \in Place
    BY DEF Place, BeforeFlush, BeforeStop, BeforeReserve
  <2>2. [name \in Measurement |-> 0] \in Counts
    BY DEF Counts
  <2> QED
    BY <1>1, <2>1, <2>2 DEF Init, Type
<1>4. \A t \in Tid : at[t] \in BeforeReserve
  BY DEF Init, BeforeReserve
<1>5. MetaOK
  <2>1. \A t \in Tid : \A name \in Measurement : meta[t][name] = 0
    BY DEF Init
  <2> QED
    BY <1>4, <2>1 DEF MetaOK, Measured, Measurement, BeforeReserve, BeforeStop, BeforeFlush
<1>6. Gone = {}
  BY <1>4 DEF Gone, BeforeReserve
<1>7. Len(ms) = 0
  BY DEF Init
<1>8. at[0] \notin AfterJoin /\ at[0] # "gone"
  BY <1>2, <1>4 DEF BeforeReserve, AfterJoin
<1>9. EntriesOK
  BY <1>2, <1>6, <1>7, <1>8 DEF EntriesOK
<1>10. MainOK /\ FileOK
  <2>1. \A t \in Workers : at[t] = "unborn"
    BY DEF Workers, Init
  <2>2. meta_file = NoFile
    BY DEF Init
  <2>3. AfterJoin \ {"global_flush"} \subseteq AfterJoin
    OBVIOUS
  <2> QED
    BY <1>8, <2>1, <2>2, <2>3 DEF MainOK, FileOK
<1> QED
  BY <1>3, <1>5, <1>9, <1>10 DEF RInv

LEMMA SpawnStep ==
  ASSUME RInv, SpawnWorkers
  PROVE  RInv'
<1>1. Type /\ MetaOK /\ MainOK /\ EntriesOK /\ FileOK
  BY DEF RInv
<1>2. /\ Tid' = Tid /\ Workers' = Workers /\ num_threads' = num_threads
      /\ UNCHANGED <<meta, ms, meta_file>>
      /\ at' = [t \in Tid |-> "reserve"] /\ at[0] = "spawn"
  BY SameThreads DEF SpawnWorkers, files
<1>3. 0 \in Tid /\ at'[0] = "reserve"
  BY <1>1, <1>2, Threads DEF Type
<1>4. \A t \in Tid : at[t] \in {"spawn", "unborn"} /\ at'[t] = "reserve"
  BY <1>1, <1>2 DEF MainOK, Workers
<1>5. Type'
  BY <1>1, <1>2 DEF Type, Place, BeforeFlush, BeforeStop, BeforeReserve
<1>6. MetaOK'
  BY <1>1, <1>2, <1>4 DEF MetaOK, Measured, BeforeReserve, BeforeStop, BeforeFlush
<1>7. MainOK'
  BY <1>3 DEF MainOK, AfterJoin
<1>8. Gone' = Gone
  BY <1>2, <1>4 DEF Gone
<1>9. EntriesOK' /\ FileOK'
  BY <1>1, <1>2, <1>3, <1>8 DEF EntriesOK, FileOK
<1> QED
  BY <1>5, <1>6, <1>7, <1>9 DEF RInv

LEMMA ReserveStep ==
  ASSUME RInv, NEW t \in Tid, thread_reserve(t)
  PROVE  RInv'
<1>1. /\ UNCHANGED <<args, ms, meta_file>>
      /\ at[t] = "reserve" /\ at' = [at EXCEPT ![t] = "iterate"]
      /\ Measure(t, "thread_reserve")
  BY DEF thread_reserve, Goto, files
<1>2. Type /\ Measured(meta[t], at[t])
  BY DEF RInv, MetaOK
<1>3. PICK count \in Counts :
        /\ meta' = [meta EXCEPT ![t] = count]
        /\ \A other \in Measurement :
             count[other] = IF other = "thread_reserve" THEN meta[t][other] + 1
                            ELSE meta[t][other]
  BY <1>1, <1>2, OneMore DEF Measurement
<1>4. Measured(count, "iterate")
  BY <1>1, <1>2, <1>3 DEF Measured, Measurement, BeforeReserve, BeforeStop, BeforeFlush
<1>5. "iterate" \in Place \ {"spawn", "gone"} /\ "iterate" \notin AfterJoin
  BY DEF Place, BeforeFlush, BeforeStop, AfterJoin
<1> QED
  BY <1>1, <1>3, <1>4, <1>5, ThreadMoves

LEMMA StopStep ==
  ASSUME RInv, NEW t \in Tid, StopIterating(t)
  PROVE  RInv'
<1>1. /\ UNCHANGED <<args, ms, meta_file>>
      /\ at[t] = "iterate" /\ at' = [at EXCEPT ![t] = "flush"]
      /\ Measure(t, "markers_submission")
  BY DEF StopIterating, Goto, files
<1>2. Type /\ Measured(meta[t], at[t])
  BY DEF RInv, MetaOK
<1>3. PICK count \in Counts :
        /\ meta' = [meta EXCEPT ![t] = count]
        /\ \A other \in Measurement :
             count[other] = IF other = "markers_submission" THEN meta[t][other] + 1
                            ELSE meta[t][other]
  BY <1>1, <1>2, OneMore DEF Measurement
<1>4. Measured(count, "flush")
  BY <1>1, <1>2, <1>3 DEF Measured, Measurement, BeforeReserve, BeforeStop, BeforeFlush
<1>5. "flush" \in Place \ {"spawn", "gone"} /\ "flush" \notin AfterJoin
  BY DEF Place, BeforeFlush, AfterJoin
<1> QED
  BY <1>1, <1>3, <1>4, <1>5, ThreadMoves

(* A flush in one step or in two. *)
LEMMA FlushStep ==
  ASSUME RInv, NEW t \in Tid, thread_flush(t)
  PROVE  RInv'
<1>1. Type /\ Measured(meta[t], at[t]) /\ meta[t] \in Counts /\ meta = [meta EXCEPT ![t] = meta[t]]
  BY DEF RInv, MetaOK, Type
<1>2. UNCHANGED <<args, ms, meta_file>>
  BY DEF thread_flush, files
<1>3. CASE \E found : at[t] \in {"flush", "link"} /\ Drain(t, found)
  <2>1. PICK place : place = IF t = 0 THEN "join" ELSE "exit"
    OBVIOUS
  <2>2. /\ at[t] \in {"flush", "link"} /\ at' = [at EXCEPT ![t] = place]
        /\ Measure(t, "thread_flush")
    BY <1>3, <2>1 DEF Drain, Goto
  <2>3. PICK count \in Counts :
          /\ meta' = [meta EXCEPT ![t] = count]
          /\ \A other \in Measurement :
               count[other] = IF other = "thread_flush" THEN meta[t][other] + 1
                              ELSE meta[t][other]
    BY <1>1, <2>2, OneMore DEF Measurement
  <2>4. Measured(count, place)
    BY <1>1, <2>1, <2>2, <2>3 DEF Measured, Measurement, BeforeReserve, BeforeStop, BeforeFlush
  <2>5. /\ place \in Place \ {"spawn", "gone"} /\ (t = 0 => place \notin AfterJoin)
        /\ at[t] \notin {"spawn", "unborn", "gone"}
    BY <2>1, <2>2 DEF Place, AfterJoin
  <2> QED
    BY <1>2, <2>2, <2>3, <2>4, <2>5, ThreadMoves
<1>4. CASE at[t] = "flush" /\ Goto(t, "link") /\ UNCHANGED meta
  <2>1. at' = [at EXCEPT ![t] = "link"] /\ meta' = [meta EXCEPT ![t] = meta[t]]
    BY <1>1, <1>4 DEF Goto
  <2>2. Measured(meta[t], "link")
    BY <1>1, <1>4 DEF Measured, BeforeReserve, BeforeStop, BeforeFlush
  <2>3. "link" \in Place \ {"spawn", "gone"} /\ "link" \notin AfterJoin
    BY DEF Place, BeforeFlush, AfterJoin
  <2>4. PICK count \in Counts : count = meta[t]
    BY <1>1
  <2> QED
    BY <1>2, <1>4, <2>1, <2>2, <2>3, <2>4, ThreadMoves
<1> QED
  BY <1>3, <1>4 DEF thread_flush

LEMMA GlobalFlushTargetStep ==
  ASSUME RInv, global_flush_target
  PROVE  RInv'
<1>1. /\ UNCHANGED <<args, ms, meta_file>>
      /\ at[0] = "join" /\ at' = [at EXCEPT ![0] = "global_flush"]
      /\ Measure(0, "global_flush_target")
      /\ \A w \in Workers : at[w] = "gone"
  BY DEF global_flush_target, Goto, files
<1>2. Type /\ 0 \in Tid /\ Measured(meta[0], at[0])
  BY Threads DEF RInv, MetaOK, Type
<1>3. PICK count \in Counts :
        /\ meta' = [meta EXCEPT ![0] = count]
        /\ \A other \in Measurement :
             count[other] = IF other = "global_flush_target" THEN meta[0][other] + 1
                            ELSE meta[0][other]
  BY <1>1, <1>2, OneMore DEF Measurement
<1>4. Measured(count, "global_flush")
  BY <1>1, <1>2, <1>3 DEF Measured, Measurement, BeforeReserve, BeforeStop, BeforeFlush
<1>5. "global_flush" \in Place \ {"spawn", "gone"}
  BY DEF Place, AfterJoin
<1> QED
  BY <1>1, <1>2, <1>3, <1>4, <1>5, ThreadMoves

LEMMA GlobalFlushStep ==
  ASSUME RInv, global_flush
  PROVE  RInv'
<1>1. /\ UNCHANGED <<args, ms, meta_file>>
      /\ at[0] = "global_flush" /\ at' = [at EXCEPT ![0] = "return"]
      /\ Measure(0, "global_flush")
  BY DEF global_flush, Goto
<1>2. /\ Type /\ 0 \in Tid /\ Measured(meta[0], at[0])
      /\ meta[0]["global_flush"] \in Nat /\ \A w \in Workers : at[w] = "gone"
  BY <1>1, Threads DEF RInv, MetaOK, Type, MainOK, AfterJoin, Counts, Measurement
<1>3. PICK count \in Counts :
        /\ meta' = [meta EXCEPT ![0] = count]
        /\ \A other \in Measurement :
             count[other] = IF other = "global_flush" THEN meta[0][other] + 1
                            ELSE meta[0][other]
  BY <1>1, <1>2, OneMore DEF Measurement
<1>4. Measured(count, "return") /\ count["global_flush"] > 0
  BY <1>1, <1>2, <1>3 DEF Measured, Measurement, BeforeReserve, BeforeStop, BeforeFlush
<1>5. "return" \in Place \ {"spawn", "gone"}
  BY DEF Place, AfterJoin
<1> QED
  BY <1>1, <1>2, <1>3, <1>4, <1>5, ThreadMoves

LEMMA ReturnStep ==
  ASSUME RInv, ReturnFromMain
  PROVE  RInv'
<1>1. /\ UNCHANGED <<args, ms, meta_file>>
      /\ at[0] = "return" /\ at' = [at EXCEPT ![0] = "exit"]
      /\ UNCHANGED meta \/ Measure(0, "global_flush")
  BY DEF ReturnFromMain, Goto, files
<1>2. /\ Type /\ 0 \in Tid /\ Measured(meta[0], at[0]) /\ meta[0] \in Counts
      /\ meta[0]["global_flush"] \in Nat /\ meta[0]["global_flush"] > 0
      /\ \A w \in Workers : at[w] = "gone"
  BY <1>1, Threads DEF RInv, MetaOK, Type, MainOK, AfterJoin, Counts, Measurement
<1>3. "exit" \in Place \ {"spawn", "gone"}
  BY DEF Place, AfterJoin
<1>4. CASE UNCHANGED meta
  <2>1. PICK count \in Counts : count = meta[0]
    BY <1>2
  <2>2. meta' = [meta EXCEPT ![0] = count] /\ count["global_flush"] > 0
    BY <1>2, <1>4, <2>1 DEF Type
  <2>3. Measured(count, "exit")
    BY <1>1, <1>2, <2>1 DEF Measured, BeforeReserve, BeforeStop, BeforeFlush
  <2> QED
    BY <1>1, <1>2, <1>3, <2>2, <2>3, ThreadMoves
<1>5. CASE Measure(0, "global_flush")
  <2>1. PICK count \in Counts :
          /\ meta' = [meta EXCEPT ![0] = count]
          /\ \A other \in Measurement :
               count[other] = IF other = "global_flush" THEN meta[0][other] + 1
                              ELSE meta[0][other]
    BY <1>2, <1>5, OneMore DEF Measurement
  <2>2. Measured(count, "exit") /\ count["global_flush"] > 0
    BY <1>1, <1>2, <2>1 DEF Measured, Measurement, BeforeReserve, BeforeStop, BeforeFlush
  <2> QED
    BY <1>1, <1>2, <1>3, <2>1, <2>2, ThreadMoves
<1> QED
  BY <1>1, <1>4, <1>5

(* A thread ends: its meta hands on one entry. *)
LEMMA EntryType ==
  ASSUME Type, NEW t \in Tid
  PROVE  \E e \in PerfEntry :
           /\ Entry(t) = <<e>> /\ e["tid"] = t
           /\ \A name \in Measurement : e[name] = meta[t][name]
<1>1. PICK e : e = [x \in Measurement \cup {"tid"} |-> IF x = "tid" THEN t ELSE meta[t][x]]
  OBVIOUS
<1>2. meta[t] \in Counts /\ t \in Nat /\ "tid" \notin Measurement
  BY Threads DEF Type, Measurement
<1>3. e \in PerfEntry /\ e["tid"] = t /\ \A name \in Measurement : e[name] = meta[t][name]
  BY <1>1, <1>2 DEF PerfEntry, Counts
<1>4. Entry(t) = <<e>>
  BY <1>1 DEF Entry
<1> QED
  BY <1>3, <1>4

LEMMA ExitStep ==
  ASSUME RInv, NEW t \in Tid, ExitThread(t)
  PROVE  RInv'
<1>1. Type /\ MetaOK /\ MainOK /\ EntriesOK /\ FileOK
  BY DEF RInv
<1>2. /\ Tid' = Tid /\ Workers' = Workers /\ num_threads' = num_threads
      /\ UNCHANGED <<meta, meta_file>>
      /\ at[t] = "exit" /\ at' = [at EXCEPT ![t] = "gone"]
      /\ ms' = ms \o Entry(t)
  BY SameThreads DEF ExitThread, Goto, SubmitMeta, files
<1>3. \A u \in Tid : at'[u] = IF u = t THEN "gone" ELSE at[u]
  BY <1>1, <1>2 DEF Type
<1>4. 0 \in Tid /\ IsFiniteSet(Tid)
  BY <1>1, Threads DEF Type
<1>5. PICK e \in PerfEntry :
        /\ Entry(t) = <<e>> /\ e["tid"] = t
        /\ \A name \in Measurement : e[name] = meta[t][name]
  BY <1>1, EntryType
<1>6. PICK q, r, n : q = ms /\ r = ms' /\ n = Len(ms)
  OBVIOUS
<1>7. q \in Seq(PerfEntry) /\ n \in Nat /\ n = Len(q) /\ r = Append(q, e)
  <2>1. q \in Seq(PerfEntry)
    BY <1>1, <1>6 DEF Type
  <2>2. Append(q, e) = q \o <<e>>
    BY <2>1, AppendIsConcat
  <2>3. n \in Nat /\ n = Len(q)
    BY <1>6, <2>1
  <2>4. r = q \o <<e>>
    BY <1>2, <1>5, <1>6
  <2> QED
    BY <2>1, <2>2, <2>3, <2>4
<1>8. /\ r \in Seq(PerfEntry) /\ Len(r) = n + 1 /\ r[n + 1] = e
      /\ \A k \in 1 .. n : r[k] = q[k]
  BY <1>7
<1>9. Gone' = Gone \cup {t} /\ t \notin Gone
  BY <1>2, <1>3 DEF Gone
<1>10. Cardinality(Gone') = n + 1
  <2>1. IsFiniteSet(Gone)
    BY <1>4, FS_Subset DEF Gone
  <2>2. Cardinality(Gone \cup {t}) = Cardinality(Gone) + 1
    BY <1>9, <2>1, FS_AddElement
  <2> QED
    BY <1>1, <1>6, <1>9, <2>2 DEF EntriesOK
<1>11. Type'
  BY <1>1, <1>2, <1>3, <1>6, <1>8 DEF Type, Place, AfterJoin
<1>12. MetaOK'
  BY <1>1, <1>2, <1>3 DEF MetaOK, Measured, BeforeReserve, BeforeStop, BeforeFlush
<1>13. MainOK'
  BY <1>1, <1>2, <1>3, <1>4 DEF MainOK, Workers, AfterJoin
<1>14. EntriesOK'
  <2>1. \A k \in 1 .. n : /\ r[k]["tid"] \in Gone
                           /\ \A name \in Measurement : r[k][name] = meta[r[k]["tid"]][name]
    BY <1>1, <1>6, <1>8 DEF EntriesOK
  <2>2. \A u \in Gone : \E k \in 1 .. n : r[k]["tid"] = u
    BY <1>1, <1>6, <1>8 DEF EntriesOK
  <2>3. 1 .. n + 1 = (1 .. n) \cup {n + 1}
    BY <1>7
  <2>4. \A k \in 1 .. n + 1 :
          /\ r[k]["tid"] \in Gone'
          /\ \A name \in Measurement : r[k][name] = meta[r[k]["tid"]][name]
    BY <1>5, <1>8, <1>9, <2>1, <2>3
  <2>5. \A u \in Gone' : \E k \in 1 .. n + 1 : r[k]["tid"] = u
    BY <1>5, <1>8, <1>9, <2>2, <2>3
  <2>6. at'[0] = "gone" => r[n + 1]["tid"] = 0
    <3>1. CASE t = 0
      BY <1>5, <1>8, <3>1
    <3>2. CASE t # 0
      <4>1. at[0] # "gone"
        BY <1>1, <1>2, <3>2 DEF MainOK, Workers, AfterJoin
      <4> QED
        BY <1>3, <1>4, <3>2, <4>1
    <3> QED
      BY <3>1, <3>2
  <2>7. Len(ms') = n + 1 /\ n + 1 # 0
    BY <1>6, <1>7, <1>8
  <2> QED
    BY <1>2, <1>6, <1>10, <2>4, <2>5, <2>6, <2>7 DEF EntriesOK
<1>15. FileOK'
  <2>1. at[0] # "gone"
    BY <1>1, <1>2 DEF MainOK, Workers, AfterJoin
  <2> QED
    BY <1>1, <1>2, <2>1 DEF FileOK
<1> QED
  BY <1>11, <1>12, <1>13, <1>14, <1>15 DEF RInv

-----------------------------------------------------------------------------
LEMMA Step ==
  ASSUME RInv, Next
  PROVE  RInv'
<1>1. ASSUME NEW t \in Tid, Iterate(t) PROVE RInv'
  <2>1. UNCHANGED <<args, at, meta, ms, meta_file>>
    BY <1>1 DEF Iterate, files
  <2> QED
    BY <2>1, Frame
<1>2. CASE WriteMetaFile
  <2>1. UNCHANGED <<args, at, meta, ms>>
    BY <1>2 DEF WriteMetaFile
  <2> QED
    BY <1>2, <2>1, Frame
<1>3. CASE process_benchmark
  <2>1. UNCHANGED <<args, at, meta, ms, meta_file>>
    BY <1>3 DEF process_benchmark
  <2> QED
    BY <2>1, Frame
<1> QED
  BY <1>1, <1>2, <1>3, SpawnStep, ReserveStep, StopStep, FlushStep, ExitStep,
     GlobalFlushTargetStep, GlobalFlushStep, ReturnStep DEF Next

(* The invariant on which the theorem below rests: a thread's meta counts  *)
(* the calls it has made, metas::ms has an entry of each thread that ended *)
(* and of no other, and main ends last.                                    *)
THEOREM RunInvariance == Spec => []RInv
<1>1. RInv /\ [Next]_vars => RInv'
  <2> SUFFICES ASSUME RInv, [Next]_vars PROVE RInv'
    OBVIOUS
  <2>1. CASE Next
    BY <2>1, Step
  <2>2. CASE UNCHANGED vars
    <3>1. UNCHANGED <<args, at, meta, ms, meta_file>>
      BY <2>2 DEF vars, args
    <3> QED
      BY <3>1, Frame
  <2> QED
    BY <2>1, <2>2
<1> QED
  BY <1>1, InitRInv, PTL DEF Spec

(* The meta file cxxet_bench_driver leaves has one entry of every thread,  *)
(* complete, and the main one's at the end, in whatever order the workers  *)
(* ended.                                                                  *)
THEOREM EntriesComplete == Spec => []OneEntryPerThread
<1>1. ASSUME RInv PROVE OneEntryPerThread
  <2> SUFFICES ASSUME meta_file # NoFile
               PROVE  LET perfs == meta_file.thread_perfs
                      IN  /\ Len(perfs) = Cardinality(Tid)
                          /\ {perfs[k].tid : k \in DOMAIN perfs} = Tid
                          /\ Last(perfs).tid = 0 /\ Last(perfs).global_flush > 0
                          /\ \A k \in DOMAIN perfs :
                               /\ perfs[k].thread_reserve = 1 /\ perfs[k].thread_flush = 1
                               /\ perfs[k].markers_submission = 1
    BY DEF OneEntryPerThread
  <2>1. Type /\ MetaOK /\ MainOK /\ EntriesOK
        /\ at[0] = "gone" /\ meta_file.thread_perfs = ms
    BY <1>1 DEF RInv, FileOK
  <2>2. Gone = Tid
    BY <2>1 DEF MainOK, AfterJoin, Gone, Workers
  <2>3. PICK perfs, n : perfs = ms /\ n = Len(ms)
    OBVIOUS
  <2>4. perfs \in Seq(PerfEntry) /\ n \in Nat /\ DOMAIN perfs = 1 .. n /\ n = Len(perfs)
    BY <2>1, <2>3 DEF Type
  <2>5. /\ n = Cardinality(Tid) /\ n # 0 /\ perfs[n]["tid"] = 0
        /\ \A k \in 1 .. n : /\ perfs[k]["tid"] \in Tid
                             /\ \A name \in Measurement :
                                  perfs[k][name] = meta[perfs[k]["tid"]][name]
        /\ \A t \in Tid : \E k \in 1 .. n : perfs[k]["tid"] = t
    BY <2>1, <2>2, <2>3 DEF EntriesOK
  <2>6. {perfs[k].tid : k \in DOMAIN perfs} = Tid
    BY <2>4, <2>5
  <2>7. Last(perfs) = perfs[n] /\ n \in 1 .. n
    BY <2>4, <2>5 DEF Last
  <2>8. perfs[n]["global_flush"] > 0
    BY <2>1, <2>5, <2>7 DEF MainOK, AfterJoin, Measurement
  <2>9. ASSUME NEW k \in 1 .. n
        PROVE  /\ perfs[k]["thread_reserve"] = 1 /\ perfs[k]["thread_flush"] = 1
               /\ perfs[k]["markers_submission"] = 1
    <3>1. PICK t \in Tid : t = perfs[k]["tid"]
      BY <2>5
    <3>2. at[t] = "gone"
      BY <2>2 DEF Gone
    <3>3. /\ meta[t]["thread_reserve"] = 1 /\ meta[t]["thread_flush"] = 1
          /\ meta[t]["markers_submission"] = 1
      BY <2>1, <3>2 DEF MetaOK, Measured, BeforeReserve, BeforeStop, BeforeFlush
    <3> QED
      BY <2>5, <3>1, <3>3 DEF Measurement
  <2> QED
    BY <2>1, <2>3, <2>4, <2>5, <2>6, <2>7, <2>8, <2>9
<1> QED
  BY <1>1, RunInvariance, PTL

-----------------------------------------------------------------------------
(* The index of a percentile is within the values, the 0th percentile is   *)
(* the first, the 100th the last, and a greater one is not before it.      *)
Percent == 0 .. 10000
Positive == Nat \ {0}
IndexesWithin(n, p, q) ==
  /\ percentile_index(n, p) \in 0 .. n - 1 /\ percentile_index(n, q) \in 0 .. n - 1
  /\ percentile_index(n, p) <= percentile_index(n, q)

LEMMA PercentileIndexes ==
  ASSUME NEW n \in Positive, NEW p \in Percent, NEW q \in Percent, p <= q
  PROVE  IndexesWithin(n, p, q)
<1>1. PICK m : m = n - 1
  OBVIOUS
<1>2. PICK x, y : x = p * m /\ y = q * m
  OBVIOUS
<1>3. m \in Nat /\ p \in Nat /\ q \in Nat /\ p <= 10000 /\ q <= 10000
  BY <1>1 DEF Positive, Percent
<1>4. x \in Nat /\ y \in Nat /\ y <= 10000 * m /\ x <= y
  BY <1>2, <1>3
<1>5. 2 * p * m = 2 * x /\ 2 * q * m = 2 * y
  BY <1>2, <1>3
<1>6. /\ (2 * x + 10000) \div 20000 \in 0 .. m /\ (2 * y + 10000) \div 20000 \in 0 .. m
      /\ (2 * x + 10000) \div 20000 <= (2 * y + 10000) \div 20000
  BY <1>3, <1>4
<1> QED
  BY <1>1, <1>5, <1>6 DEF percentile_index, IndexesWithin

LEMMA PercentileEnds ==
  ASSUME NEW n \in Nat \ {0}
  PROVE  percentile_index(n, 0) = 0 /\ percentile_index(n, 10000) = n - 1
  BY DEF percentile_index

(* The values that a value is not below, and how many they are. *)
NotAbove(values, v) == {j \in DOMAIN values : values[j] <= v}
Candidates(values, index) ==
  {v \in Range(values) : Cardinality(NotAbove(values, v)) > index}

LEMMA RankType ==
  ASSUME NEW values \in Seq(Int), NEW v \in Int
  PROVE  /\ Cardinality(NotAbove(values, v)) \in 0 .. Len(values)
         /\ IsFiniteSet(NotAbove(values, v))
         /\ Cardinality(NotAbove(values, v)) = Len(values) =>
              NotAbove(values, v) = DOMAIN values
<1>1. Len(values) \in Nat /\ DOMAIN values = 1 .. Len(values)
  OBVIOUS
<1>2. IsFiniteSet(1 .. Len(values)) /\ Cardinality(1 .. Len(values)) = Len(values)
  BY <1>1, FS_Interval
<1>3. NotAbove(values, v) \in SUBSET (1 .. Len(values))
  BY <1>1 DEF NotAbove
<1>4. /\ IsFiniteSet(NotAbove(values, v))
      /\ Cardinality(NotAbove(values, v)) <= Cardinality(1 .. Len(values))
      /\ Cardinality(1 .. Len(values)) = Cardinality(NotAbove(values, v)) =>
           1 .. Len(values) = NotAbove(values, v)
  BY <1>2, <1>3, FS_Subset
<1>5. Cardinality(NotAbove(values, v)) \in Nat
  BY <1>4, FS_CardinalityType
<1> QED
  BY <1>1, <1>2, <1>4, <1>5

(* A greater one of the values has more of them that it is not below. *)
LEMMA RankGrows ==
  ASSUME NEW values \in Seq(Int), NEW v \in Range(values), NEW w \in Range(values), v < w
  PROVE  Cardinality(NotAbove(values, v)) < Cardinality(NotAbove(values, w))
<1>1. v \in Int /\ w \in Int /\ \A j \in DOMAIN values : values[j] \in Int
  BY DEF Range
<1>2. PICK j \in DOMAIN values : values[j] = w
  BY DEF Range
<1>3. NotAbove(values, v) \in SUBSET NotAbove(values, w)
  BY <1>1 DEF NotAbove
<1>4. j \in NotAbove(values, w) /\ j \notin NotAbove(values, v)
  BY <1>1, <1>2 DEF NotAbove
<1>5. /\ Cardinality(NotAbove(values, v)) \in Nat
      /\ Cardinality(NotAbove(values, w)) \in Nat
      /\ IsFiniteSet(NotAbove(values, w))
  BY <1>1, RankType
<1>6. /\ Cardinality(NotAbove(values, v)) <= Cardinality(NotAbove(values, w))
      /\ Cardinality(NotAbove(values, w)) = Cardinality(NotAbove(values, v)) =>
           NotAbove(values, w) = NotAbove(values, v)
  BY <1>3, <1>5, FS_Subset
<1> QED
  BY <1>4, <1>5, <1>6

(* One of the values is not below any. *)
LEMMA GreatestValue ==
  ASSUME NEW values \in Seq(Int), values # <<>>
  PROVE  \E v \in Range(values) : Cardinality(NotAbove(values, v)) = Len(values)
<1>1. /\ Len(values) \in Nat /\ Len(values) # 0 /\ DOMAIN values = 1 .. Len(values)
      /\ \A j \in DOMAIN values : values[j] \in Int
  BY EmptySeq
<1>2. \A v \in Range(values) :
        v \in Int /\ Cardinality(NotAbove(values, v)) \in 0 .. Len(values)
  BY <1>1, RankType DEF Range
<1> DEFINE Left(v) == Len(values) - Cardinality(NotAbove(values, v))
           S == {Left(v) : v \in Range(values)}
<1>3. S \in SUBSET Nat
  BY <1>1, <1>2
<1>4. values[1] \in Range(values)
  BY <1>1 DEF Range
<1>5. Left(values[1]) \in S
  BY <1>4
<1>6. PICK k \in S : \A j \in S : k <= j
  <2> HIDE DEF S
  <2> QED
    BY <1>3, <1>5, LeastNumber
<1>7. PICK v \in Range(values) : k = Left(v)
  BY <1>6
<1>8. ASSUME NEW w \in Range(values) PROVE w <= v
  <2>1. CASE v < w
    <3>1. Cardinality(NotAbove(values, v)) < Cardinality(NotAbove(values, w))
      BY <2>1, RankGrows
    <3>2. Left(v) <= Left(w)
      BY <1>6, <1>7
    <3> QED
      BY <1>1, <1>2, <3>1, <3>2
  <2> QED
    BY <1>2, <2>1
<1>9. NotAbove(values, v) = 1 .. Len(values)
  BY <1>1, <1>8 DEF NotAbove, Range
<1>10. Cardinality(1 .. Len(values)) = Len(values)
  BY <1>1, FS_Interval
<1> QED
  BY <1>9, <1>10

LEMMA SortedAt ==
  ASSUME NEW values \in Seq(Int), values # <<>>, NEW index \in 0 .. Len(values) - 1
  PROVE  /\ sorted_at(values, index) \in Candidates(values, index)
         /\ \A v \in Candidates(values, index) : sorted_at(values, index) <= v
<1>1. /\ Len(values) \in Nat
      /\ \A v \in Range(values) :
           v \in Int /\ Cardinality(NotAbove(values, v)) \in 0 .. Len(values)
  <2>1. Len(values) \in Nat /\ \A v \in Range(values) : v \in Int
    BY DEF Range
  <2> QED
    BY <2>1, RankType
<1>2. PICK top \in Range(values) : Cardinality(NotAbove(values, top)) = Len(values)
  BY GreatestValue
<1>3. top \in Candidates(values, index)
  BY <1>1, <1>2 DEF Candidates
<1> DEFINE S == {Cardinality(NotAbove(values, v)) : v \in Candidates(values, index)}
<1>4. S \in SUBSET Nat
  BY <1>1 DEF Candidates
<1>5. Cardinality(NotAbove(values, top)) \in S
  BY <1>3
<1>6. PICK k \in S : \A j \in S : k <= j
  <2> HIDE DEF S
  <2> QED
    BY <1>4, <1>5, LeastNumber
<1>7. PICK v \in Candidates(values, index) : k = Cardinality(NotAbove(values, v))
  BY <1>6
<1>8. \A w \in Candidates(values, index) : v <= w
  <2> SUFFICES ASSUME NEW w \in Candidates(values, index), ~(v <= w) PROVE FALSE
    OBVIOUS
  <2>1. v \in Range(values) /\ w \in Range(values) /\ w < v
    BY <1>1 DEF Candidates
  <2>2. Cardinality(NotAbove(values, w)) < Cardinality(NotAbove(values, v))
    BY <2>1, RankGrows
  <2>3. Cardinality(NotAbove(values, v)) <= Cardinality(NotAbove(values, w))
    BY <1>6, <1>7
  <2> QED
    BY <1>1, <2>1, <2>2, <2>3
<1>9. sorted_at(values, index) = Min(Candidates(values, index))
  BY DEF sorted_at, Candidates, NotAbove
<1> QED
  BY <1>7, <1>8, <1>9 DEF Min

(* What is reported of any values: from the least to the greatest. *)
LEMMA ReportInOrder ==
  ASSUME NEW values \in Seq(Int), values # <<>>
  PROVE  InOrder(values)
<1>1. PICK n : n = Len(values)
  OBVIOUS
<1>2. /\ n \in Nat \ {0} /\ DOMAIN values = 1 .. n
      /\ \A j \in DOMAIN values : values[j] \in Int
  BY <1>1, EmptySeq
<1>3. PICK reported : reported = write_val_unit_stats(values)
  OBVIOUS
<1>4. /\ DOMAIN reported \subseteq 0 .. 10000 /\ {0, 10000} \subseteq DOMAIN reported
      /\ \A p \in DOMAIN reported : reported[p] = sorted_at(values, percentile_index(n, p))
  BY <1>1, <1>3 DEF write_val_unit_stats, compute_from, Percentiles
<1>5. ASSUME NEW p \in DOMAIN reported, NEW q \in DOMAIN reported, p <= q
      PROVE  reported[p] <= reported[q]
  <2>1. PICK i, j : i = percentile_index(n, p) /\ j = percentile_index(n, q)
    OBVIOUS
  <2>2. i \in 0 .. n - 1 /\ j \in 0 .. n - 1 /\ i <= j
    <3>1. p \in Percent /\ q \in Percent /\ n \in Positive
      BY <1>2, <1>4 DEF Percent, Positive
    <3>2. IndexesWithin(n, p, q)
      BY <1>5, <3>1, PercentileIndexes
    <3> QED
      BY <2>1, <3>2 DEF IndexesWithin
  <2>3. Candidates(values, j) \subseteq Candidates(values, i)
    <3>1. \A v \in Range(values) : v \in Int
      BY <1>2 DEF Range
    <3>2. \A v \in Range(values) : Cardinality(NotAbove(values, v)) \in 0 .. Len(values)
      BY <3>1, RankType
    <3> QED
      BY <2>2, <3>2 DEF Candidates
  <2>4. /\ sorted_at(values, j) \in Candidates(values, j)
        /\ \A v \in Candidates(values, i) : sorted_at(values, i) <= v
    BY <1>1, <2>2, SortedAt
  <2> QED
    BY <1>4, <2>1, <2>3, <2>4
<1>6. ASSUME NEW j \in DOMAIN values
      PROVE  reported[0] <= values[j] /\ values[j] <= reported[10000]
  <2>1. percentile_index(n, 0) = 0 /\ percentile_index(n, 10000) = n - 1
    BY <1>2, PercentileEnds
  <2>2. reported[0] = sorted_at(values, 0) /\ reported[10000] = sorted_at(values, n - 1)
    BY <1>4, <2>1
  <2>3. 0 \in 0 .. n - 1 /\ n - 1 \in 0 .. n - 1
    BY <1>2
  <2>4. /\ \A v \in Candidates(values, 0) : sorted_at(values, 0) <= v
        /\ sorted_at(values, n - 1) \in Candidates(values, n - 1)
    BY <1>1, <2>3, SortedAt
  <2>5. values[j] \in Candidates(values, 0)
    <3>1. j \in NotAbove(values, values[j]) /\ values[j] \in Int
      BY <1>2 DEF NotAbove
    <3>2. /\ IsFiniteSet(NotAbove(values, values[j]))
          /\ Cardinality(NotAbove(values, values[j])) \in 0 .. n
      BY <1>1, <3>1, RankType
    <3>3. Cardinality(NotAbove(values, values[j])) # 0
      BY <3>1, <3>2, FS_EmptySet
    <3> QED
      BY <1>2, <3>2, <3>3 DEF Candidates, Range
  <2>6. PICK top : top = sorted_at(values, n - 1)
    OBVIOUS
  <2>7. top \in Int /\ Cardinality(NotAbove(values, top)) > n - 1
    BY <1>2, <2>4, <2>6 DEF Candidates, Range
  <2>8. NotAbove(values, top) = DOMAIN values
    BY <1>1, <1>2, <2>7, RankType
  <2>9. values[j] <= top
    BY <2>8 DEF NotAbove
  <2> QED
    BY <2>2, <2>4, <2>5, <2>6, <2>9
<1> QED
  BY <1>3, <1>5, <1>6 DEF InOrder

-----------------------------------------------------------------------------
(* f[k] is what of the first k events is of the thread. *)
Added(events, tid, f) ==
  /\ f \in [0 .. Len(events) -> Seq(Event)]
  /\ f[0] = <<>>
  /\ \A k \in 1 .. Len(events) :
       f[k] = IF events[k].tid = tid THEN Append(f[k - 1], events[k]) ELSE f[k - 1]

LEMMA AddedExists ==
  ASSUME NEW events \in Seq(Event), NEW tid
  PROVE  \E f : Added(events, tid, f) /\ OfThread(events, tid) = f[Len(events)]
<1>1. PICK m : m = Len(events)
  OBVIOUS
<1>2. m \in Nat /\ \A k \in 1 .. m : events[k] \in Event
  BY <1>1
<1>3. PICK steps : steps = [k \in Nat |-> [r \in Seq(Event) |->
        IF k \in 1 .. m /\ events[k].tid = tid THEN Append(r, events[k]) ELSE r]]
  OBVIOUS
<1>4. /\ steps \in [Nat -> [Seq(Event) -> Seq(Event)]]
      /\ \A k \in 1 .. m : \A r \in Seq(Event) :
           steps[k][r] = IF events[k].tid = tid THEN Append(r, events[k]) ELSE r
  BY <1>2, <1>3
<1>5. <<>> \in Seq(Event)
  OBVIOUS
<1>6. PICK f : Follows(Seq(Event), steps, <<>>, m, f)
  BY <1>2, <1>4, <1>5, FollowsExist
<1> DEFINE Def(g) == [k \in 0 .. m |->
             IF k = 0 THEN <<>>
             ELSE IF events[k].tid = tid THEN Append(g[k - 1], events[k]) ELSE g[k - 1]]
           h == CHOOSE g : g = Def(g)
<1>7. OfThread(events, tid) = h[m]
  BY <1>1 DEF OfThread
<1>8. f = Def(f)
  <2>1. /\ f \in [0 .. m -> Seq(Event)] /\ f[0] = <<>>
        /\ \A k \in 1 .. m : f[k] = steps[k][f[k - 1]]
    BY <1>6 DEF Follows
  <2>2. ASSUME NEW k \in 0 .. m, k # 0
        PROVE  f[k] = IF events[k].tid = tid THEN Append(f[k - 1], events[k]) ELSE f[k - 1]
    <3>1. k \in 1 .. m /\ k - 1 \in 0 .. m
      BY <1>2, <2>2
    <3> QED
      BY <1>4, <2>1, <3>1
  <2> QED
    BY <2>1, <2>2
<1> HIDE DEF h
<1>9. h = Def(h)
  BY <1>8 DEF h
<1>10. /\ h = [k \in 0 .. m |-> h[k]] /\ h[0] = <<>>
       /\ \A k \in 1 .. m :
            h[k] = IF events[k].tid = tid THEN Append(h[k - 1], events[k]) ELSE h[k - 1]
  <2>1. \A k \in 0 .. m :
          h[k] = IF k = 0 THEN <<>>
                 ELSE IF events[k].tid = tid THEN Append(h[k - 1], events[k]) ELSE h[k - 1]
    BY <1>9
  <2>2. 0 \in 0 .. m /\ \A k \in 1 .. m : k \in 0 .. m /\ k # 0
    BY <1>2
  <2>3. h = [k \in 0 .. m |-> h[k]]
    BY <1>9
  <2> QED
    BY <2>1, <2>2, <2>3
<1>11. Follows(Seq(Event), steps, <<>>, m, h)
  <2>1. \A k \in 1 .. m : h[k - 1] \in Seq(Event) => h[k] = steps[k][h[k - 1]]
    BY <1>4, <1>10
  <2> HIDE DEF Def
  <2> QED
    BY <1>2, <1>4, <1>5, <1>10, <2>1, FollowsStay
<1>12. h \in [0 .. m -> Seq(Event)]
  BY <1>11 DEF Follows
<1>13. Added(events, tid, h)
  BY <1>1, <1>10, <1>12 DEF Added
<1> QED
  BY <1>1, <1>7, <1>13

(* There is only one such function. *)
LEMMA OfThreadIs ==
  ASSUME NEW events \in Seq(Event), NEW tid, NEW f, Added(events, tid, f)
  PROVE  OfThread(events, tid) = f[Len(events)]
<1>1. PICK h : Added(events, tid, h) /\ OfThread(events, tid) = h[Len(events)]
  BY AddedExists
<1>2. Len(events) \in Nat
  OBVIOUS
<1> DEFINE S == {k \in Nat : k <= Len(events) => h[k] = f[k]}
<1>3. 0 \in S
  BY <1>1 DEF Added
<1>4. ASSUME NEW k \in S PROVE k + 1 \in S
  <2>1. k \in Nat /\ k + 1 \in Nat
    BY <1>4
  <2>2. ASSUME k + 1 <= Len(events) PROVE h[k + 1] = f[k + 1]
    <3>1. PICK j : j = k + 1
      OBVIOUS
    <3>2. j \in 1 .. Len(events) /\ j - 1 = k /\ k <= Len(events)
      BY <1>2, <2>1, <2>2, <3>1
    <3>3. h[j - 1] = f[j - 1]
      BY <1>4, <3>2
    <3>4. h[j] = f[j]
      BY <1>1, <3>2, <3>3 DEF Added
    <3> QED
      BY <3>1, <3>4
  <2> QED
    BY <2>1, <2>2
<1> HIDE DEF S
<1>5. S \in SUBSET Nat
  BY DEF S
<1>6. S = Nat
  BY <1>3, <1>4, <1>5, AllNaturals
<1> QED
  BY <1>1, <1>2, <1>6 DEF S

LEMMA OfThreadType ==
  ASSUME NEW events \in Seq(Event), NEW tid
  PROVE  OfThread(events, tid) \in Seq(Event)
<1>1. PICK f : Added(events, tid, f) /\ OfThread(events, tid) = f[Len(events)]
  BY AddedExists
<1>2. Len(events) \in 0 .. Len(events)
  OBVIOUS
<1> QED
  BY <1>1, <1>2 DEF Added

(* A thread that recorded none of the events, or all of them. *)
LEMMA OfNoThread ==
  ASSUME NEW events \in Seq(Event), NEW tid,
         \A k \in DOMAIN events : events[k].tid # tid
  PROVE  OfThread(events, tid) = <<>>
<1>1. PICK f : f = [k \in 0 .. Len(events) |-> <<>>]
  OBVIOUS
<1>2. Len(events) \in Nat /\ DOMAIN events = 1 .. Len(events) /\ <<>> \in Seq(Event)
  OBVIOUS
<1>3. \A k \in 1 .. Len(events) : k - 1 \in 0 .. Len(events) /\ k \in 0 .. Len(events)
  BY <1>2
<1>4. Added(events, tid, f)
  BY <1>1, <1>2, <1>3 DEF Added
<1>5. OfThread(events, tid) = f[Len(events)]
  BY <1>4, OfThreadIs
<1> QED
  BY <1>1, <1>2, <1>5

AppendsLast(x, y, e) == Append(x \o y, e) = x \o Append(y, e)

LEMMA AppendToConcat ==
  ASSUME NEW T, NEW x \in Seq(T), NEW y \in Seq(T), NEW e \in T
  PROVE  AppendsLast(x, y, e)
<1>1. Append(x \o y, e) = (x \o y) \o <<e>>
  BY AppendIsConcat
<1>2. Append(y, e) = y \o <<e>>
  BY AppendIsConcat
<1>3. <<e>> \in Seq(T)
  OBVIOUS
<1>4. (x \o y) \o <<e>> = x \o (y \o <<e>>)
  BY <1>3, ConcatAssociative
<1> QED
  BY <1>1, <1>2, <1>4 DEF AppendsLast

(* The events of one thread, after those of any: what a flush appends.     *)
AddsOfThread(p, q, u, tid) ==
  OfThread(p \o q, tid) = IF tid = u THEN OfThread(p, tid) \o q ELSE OfThread(p, tid)

LEMMA OfThreadConcat ==
  ASSUME NEW p \in Seq(Event), NEW q \in Seq(Event), NEW u,
         \A k \in DOMAIN q : q[k].tid = u, NEW tid
  PROVE  AddsOfThread(p, q, u, tid)
<1>1. PICK f : Added(p, tid, f) /\ OfThread(p, tid) = f[Len(p)]
  BY AddedExists
<1>2. PICK r, x, n, m : r = p \o q /\ x = f[Len(p)] /\ n = Len(p) /\ m = Len(q)
  OBVIOUS
<1>3. /\ n \in Nat /\ m \in Nat /\ r \in Seq(Event) /\ Len(r) = n + m
      /\ (\A k \in 1 .. n : r[k] = p[k]) /\ \A k \in 1 .. m : r[n + k] = q[k]
      /\ DOMAIN q = 1 .. m
  BY <1>2
<1>4. /\ f \in [0 .. n -> Seq(Event)] /\ f[0] = <<>> /\ x \in Seq(Event)
      /\ \A k \in 1 .. n :
           f[k] = IF p[k].tid = tid THEN Append(f[k - 1], p[k]) ELSE f[k - 1]
  BY <1>1, <1>2, <1>3 DEF Added
<1>5. PICK g : g = [k \in 0 .. n + m |->
        IF k <= n THEN f[k] ELSE IF tid = u THEN x \o SubSeq(q, 1, k - n) ELSE x]
  OBVIOUS
<1>6. \A j \in 1 .. m : SubSeq(q, 1, j) \in Seq(Event)
  BY <1>3
<1>7. g \in [0 .. n + m -> Seq(Event)] /\ g[0] = <<>>
  <2>1. ASSUME NEW k \in 0 .. n + m, ~(k <= n) PROVE x \o SubSeq(q, 1, k - n) \in Seq(Event)
    <3>1. k - n \in 1 .. m
      BY <1>3, <2>1
    <3> QED
      BY <1>4, <1>6, <3>1
  <2>2. \A k \in 0 .. n + m : k <= n => f[k] \in Seq(Event)
    BY <1>3, <1>4
  <2>3. ASSUME NEW k \in 0 .. n + m PROVE g[k] \in Seq(Event)
    <3>1. g[k] = IF k <= n THEN f[k] ELSE IF tid = u THEN x \o SubSeq(q, 1, k - n) ELSE x
      BY <1>5
    <3> QED
      BY <1>4, <2>1, <2>2, <3>1
  <2>4. g[0] = f[0] /\ DOMAIN g = 0 .. n + m /\ g = [k \in 0 .. n + m |-> g[k]]
    BY <1>3, <1>5
  <2> QED
    BY <1>4, <2>3, <2>4
<1>8. ASSUME NEW k \in 1 .. n + m
      PROVE  g[k] = IF r[k].tid = tid THEN Append(g[k - 1], r[k]) ELSE g[k - 1]
  <2>1. k \in 0 .. n + m /\ k - 1 \in 0 .. n + m /\ k \in Nat
    BY <1>3
  <2>2. CASE k <= n
    <3>1. k \in 1 .. n /\ k - 1 <= n
      BY <1>3, <2>1, <2>2
    <3>2. g[k] = f[k] /\ g[k - 1] = f[k - 1] /\ r[k] = p[k]
      BY <1>3, <1>5, <2>1, <2>2, <3>1
    <3> QED
      BY <1>4, <3>1, <3>2
  <2>3. CASE ~(k <= n)
    <3>1. PICK j : j = k - n
      OBVIOUS
    <3>2. j \in 1 .. m /\ n + j = k /\ k - 1 - n = j - 1
      BY <1>3, <2>1, <2>3, <3>1
    <3>3. r[k] = q[j] /\ q[j].tid = u /\ q[j] \in Event
      BY <1>3, <3>2
    <3>4. g[k] = IF tid = u THEN x \o SubSeq(q, 1, j) ELSE x
      BY <1>5, <2>1, <2>3, <3>1
    <3>5. g[k - 1] = IF tid = u THEN x \o SubSeq(q, 1, j - 1) ELSE x
      <4>1. CASE j = 1
        <5>1. k - 1 = n /\ SubSeq(q, 1, j - 1) = <<>>
          BY <1>3, <3>2, <4>1
        <5>2. g[k - 1] = x /\ x \o <<>> = x
          BY <1>2, <1>3, <1>4, <1>5, <2>1, <5>1
        <5> QED
          BY <5>1, <5>2
      <4>2. CASE j # 1
        <5>1. ~(k - 1 <= n)
          BY <1>3, <3>2, <4>2
        <5> QED
          BY <1>5, <2>1, <3>2, <5>1
      <4> QED
        BY <4>1, <4>2
    <3>6. Append(x \o SubSeq(q, 1, j - 1), q[j]) = x \o SubSeq(q, 1, j)
      <4>1. PICK y, z : y = SubSeq(q, 1, j - 1) /\ z = SubSeq(q, 1, j)
        OBVIOUS
      <4>2. y \in Seq(Event) /\ z \in Seq(Event) /\ z = Append(y, q[j])
        BY <1>3, <3>2, <4>1
      <4>3. Append(x \o y, q[j]) = x \o Append(y, q[j])
        <5>1. x \in Seq(Event) /\ y \in Seq(Event) /\ q[j] \in Event
          BY <1>4, <3>3, <4>2
        <5>2. AppendsLast(x, y, q[j])
          BY <5>1, AppendToConcat, Zenon
        <5> QED
          BY <5>2 DEF AppendsLast
      <4> QED
        BY <4>1, <4>2, <4>3
    <3> QED
      BY <3>3, <3>4, <3>5, <3>6
  <2> QED
    BY <2>2, <2>3
<1>9. Added(r, tid, g)
  BY <1>3, <1>7, <1>8 DEF Added
<1>10. OfThread(r, tid) = g[n + m]
  BY <1>3, <1>9, OfThreadIs
<1>11. CASE m = 0
  <2>1. g[n + m] = x /\ q = <<>> /\ x \o <<>> = x
    BY <1>2, <1>3, <1>4, <1>5, <1>11, EmptySeq
  <2> QED
    BY <1>1, <1>2, <1>10, <2>1 DEF AddsOfThread
<1>12. CASE m # 0
  <2>1. n + m \in 0 .. n + m /\ ~(n + m <= n) /\ (n + m) - n = m
    BY <1>3, <1>12
  <2>2. g[n + m] = IF tid = u THEN x \o SubSeq(q, 1, m) ELSE x
    BY <1>5, <2>1
  <2>3. SubSeq(q, 1, m) = q
    BY <1>2, <1>3
  <2> QED
    BY <1>1, <1>2, <1>10, <2>2, <2>3 DEF AddsOfThread
<1> QED
  BY <1>11, <1>12

(* When all the events are of one thread. *)
LEMMA OfOneThread ==
  ASSUME NEW q \in Seq(Event), NEW u, \A k \in DOMAIN q : q[k].tid = u
  PROVE  OfThread(q, u) = q
<1>1. PICK p : p = <<>>
  OBVIOUS
<1>2. p \in Seq(Event) /\ DOMAIN p = {} /\ p \o q = q
  BY <1>1, EmptySeq, ConcatEmptySeq
<1>3. AddsOfThread(p, q, u, u)
  BY <1>2, OfThreadConcat, Zenon
<1>4. OfThread(p, u) = <<>>
  BY <1>2, OfNoThread
<1> QED
  BY <1>1, <1>2, <1>3, <1>4 DEF AddsOfThread

-----------------------------------------------------------------------------
(* The three readings of the clock an iteration may take, and when its     *)
(* last event ends.                                                        *)
Moment == {m \in [a : Nat, b : Nat, c : Nat] : m.a <= m.b /\ m.b <= m.c}
Marked(prog, t, m) == Iteration(prog, t, m.a, m.b, m.c)
Ended(prog, m) == Last(Marked(prog, 0, m)).ts + Last(Marked(prog, 0, m)).dur

Programs == {"mt_counter", "st_instant", "st_guarded_instant",
             "st_complete", "st_duration"}
InPairs(prog) == prog \in {"st_guarded_instant", "st_duration"}

(* The moments of the iterations follow one another, up to the clock. *)
Timed(prog, s, upto) ==
  /\ s \in Seq(Moment)
  /\ \A k \in 1 .. Len(s) : Ended(prog, s[k]) <= upto
  /\ \A k \in 1 .. Len(s) - 1 : Ended(prog, s[k]) <= s[k + 1].a

(* The events a thread recorded at these moments. *)
Laid(prog, t, s, events) ==
  /\ events \in Seq(Event)
  /\ IF InPairs(prog)
     THEN /\ Len(events) = 2 * Len(s)
          /\ \A k \in 1 .. Len(s) : /\ events[2 * k - 1] = Marked(prog, t, s[k])[1]
                                    /\ events[2 * k] = Marked(prog, t, s[k])[2]
     ELSE /\ Len(events) = Len(s)
          /\ \A k \in 1 .. Len(s) : events[k] = Marked(prog, t, s[k])[1]

Recorded(prog, t, events, n, upto) ==
  \E s : Timed(prog, s, upto) /\ Len(s) = n /\ Laid(prog, t, s, events)

(* q is what a thread u marks in one iteration, of n events, up to end. *)
Marks(u, q, n, end) ==
  /\ q \in Seq(Event) /\ Len(q) = n
  /\ \A k \in 1 .. n : q[k] \in Event /\ q[k].tid = u
  /\ Last(q).ts + Last(q).dur = end

LEMMA OneMark ==
  ASSUME NEW u, NEW e \in Event, e.tid = u, NEW q, q = <<e>>
  PROVE  Marks(u, q, 1, e.ts + e.dur)
<1>1. q \in Seq(Event) /\ Len(q) = 1 /\ q[1] = e
  OBVIOUS
<1> QED
  BY <1>1 DEF Marks, Last

LEMMA TwoMarks ==
  ASSUME NEW u, NEW d \in Event, NEW e \in Event, d.tid = u, e.tid = u, NEW q, q = <<d, e>>
  PROVE  Marks(u, q, 2, e.ts + e.dur)
<1>1. q \in Seq(Event) /\ Len(q) = 2 /\ q[1] = d /\ q[2] = e
  OBVIOUS
<1>2. \A k \in 1 .. 2 : k = 1 \/ k = 2
  OBVIOUS
<1> QED
  BY <1>1, <1>2 DEF Marks, Last

LEMMA MarkedIs ==
  ASSUME NEW prog \in Programs, NEW t \in Nat, NEW m \in Moment
  PROVE  /\ Marked(prog, t, m) \in Seq(Event)
         /\ Len(Marked(prog, t, m)) = IF InPairs(prog) THEN 2 ELSE 1
         /\ Marked(prog, t, m)[1] \in Event /\ Marked(prog, t, m)[1].tid = t
         /\ InPairs(prog) => Marked(prog, t, m)[2] \in Event /\ Marked(prog, t, m)[2].tid = t
         /\ Last(Marked(prog, t, m)).ts + Last(Marked(prog, t, m)).dur = Ended(prog, m)
         /\ Ended(prog, m) \in Nat /\ m.a <= Ended(prog, m)
<1>1. m.a \in Nat /\ m.b \in Nat /\ m.c \in Nat /\ m.a <= m.b /\ m.b <= m.c
  BY DEF Moment
<1>2. PICK x, y : x = m.b - m.a /\ y = m.c - m.a
  OBVIOUS
<1>3. x \in Nat /\ y \in Nat /\ m.a + x = m.b /\ m.a + y = m.c
  BY <1>1, <1>2
<1>4. CASE prog = "mt_counter"
  <2>1. ASSUME NEW u \in Nat PROVE Marks(u, Marked(prog, u, m), 1, m.a)
    <3>1. PICK e : e = Evt(u, "C", "Counter", m.a, 0)
      OBVIOUS
    <3>2. e \in Event
      BY <1>1, <1>3, <3>1 DEF Evt, Event
    <3>3. e.tid = u /\ e.ts + e.dur = m.a
      <4>1. e.tid = u /\ e.ts = m.a /\ e.dur = 0
        BY <3>1 DEF Evt
      <4> QED
        BY <1>1, <4>1
    <3>4. Marked(prog, u, m) = <<e>>
      BY <1>4, <3>1 DEF Marked, Iteration, mt_counter
    <3> QED
      BY <3>2, <3>3, <3>4, OneMark
  <2> QED
    BY <1>1, <1>4, <2>1 DEF InPairs, Ended, Marks
<1>5. CASE prog = "st_instant"
  <2>1. ASSUME NEW u \in Nat PROVE Marks(u, Marked(prog, u, m), 1, m.a)
    <3>1. PICK e : e = Evt(u, "i", "some instant ...", m.a, 0)
      OBVIOUS
    <3>2. e \in Event
      BY <1>1, <1>3, <3>1 DEF Evt, Event
    <3>3. e.tid = u /\ e.ts + e.dur = m.a
      <4>1. e.tid = u /\ e.ts = m.a /\ e.dur = 0
        BY <3>1 DEF Evt
      <4> QED
        BY <1>1, <4>1
    <3>4. Marked(prog, u, m) = <<e>>
      BY <1>5, <3>1 DEF Marked, Iteration, st_instant
    <3> QED
      BY <3>2, <3>3, <3>4, OneMark
  <2> QED
    BY <1>1, <1>5, <2>1 DEF InPairs, Ended, Marks
<1>6. CASE prog = "st_guarded_instant"
  <2>1. ASSUME NEW u \in Nat PROVE Marks(u, Marked(prog, u, m), 2, m.c)
    <3>1. PICK d, e : d = Evt(u, "i", "some instant ...", m.b, 0) /\ e = Evt(u, "X", "complete over instant event", m.a, y)
      OBVIOUS
    <3>2. d \in Event /\ e \in Event
      BY <1>1, <1>3, <3>1 DEF Evt, Event
    <3>3. d.tid = u /\ e.tid = u /\ e.ts + e.dur = m.c
      <4>1. d.tid = u /\ e.tid = u /\ e.ts = m.a /\ e.dur = y
        BY <3>1 DEF Evt
      <4> QED
        BY <1>3, <4>1
    <3>4. Marked(prog, u, m) = <<d, e>>
      BY <1>2, <1>6, <3>1 DEF Marked, Iteration, st_guarded_instant
    <3> QED
      BY <3>2, <3>3, <3>4, TwoMarks
  <2> QED
    BY <1>1, <1>6, <2>1 DEF InPairs, Ended, Marks
<1>7. CASE prog = "st_complete"
  <2>1. ASSUME NEW u \in Nat PROVE Marks(u, Marked(prog, u, m), 1, m.b)
    <3>1. PICK e : e = Evt(u, "X", "complete ...", m.a, x)
      OBVIOUS
    <3>2. e \in Event
      BY <1>1, <1>3, <3>1 DEF Evt, Event
    <3>3. e.tid = u /\ e.ts + e.dur = m.b
      <4>1. e.tid = u /\ e.ts = m.a /\ e.dur = x
        BY <3>1 DEF Evt
      <4> QED
        BY <1>3, <4>1
    <3>4. Marked(prog, u, m) = <<e>>
      BY <1>2, <1>7, <3>1 DEF Marked, Iteration, st_complete
    <3> QED
      BY <3>2, <3>3, <3>4, OneMark
  <2> QED
    BY <1>1, <1>7, <2>1 DEF InPairs, Ended, Marks
<1>8. CASE prog = "st_duration"
  <2>1. ASSUME NEW u \in Nat PROVE Marks(u, Marked(prog, u, m), 2, m.b)
    <3>1. PICK d, e : d = Evt(u, "B", "begin marker ...", m.a, 0) /\ e = Evt(u, "E", "", m.b, 0)
      OBVIOUS
    <3>2. d \in Event /\ e \in Event
      BY <1>1, <1>3, <3>1 DEF Evt, Event
    <3>3. d.tid = u /\ e.tid = u /\ e.ts + e.dur = m.b
      <4>1. d.tid = u /\ e.tid = u /\ e.ts = m.b /\ e.dur = 0
        BY <3>1 DEF Evt
      <4> QED
        BY <1>1, <4>1
    <3>4. Marked(prog, u, m) = <<d, e>>
      BY <1>8, <3>1 DEF Marked, Iteration, st_duration
    <3> QED
      BY <3>2, <3>3, <3>4, TwoMarks
  <2> QED
    BY <1>1, <1>8, <2>1 DEF InPairs, Ended, Marks
<1> QED
  BY <1>4, <1>5, <1>6, <1>7, <1>8 DEF Programs

LEMMA EndedNat ==
  ASSUME NEW prog \in Programs, NEW m \in Moment
  PROVE  Ended(prog, m) \in Nat
<1>1. 0 \in Nat
  OBVIOUS
<1> QED
  BY <1>1, MarkedIs

(* One more iteration. *)
LEMMA RecordedMore ==
  ASSUME NEW prog \in Programs, NEW t \in Nat, NEW n \in Nat, NEW upto \in Nat,
         NEW events, Recorded(prog, t, events, n, upto), NEW m \in Moment, upto <= m.a
  PROVE  Recorded(prog, t, events \o Marked(prog, t, m), n + 1, Ended(prog, m))
<1>1. PICK s : Timed(prog, s, upto) /\ Len(s) = n /\ Laid(prog, t, s, events)
  BY DEF Recorded
<1>2. PICK s2, q, r : s2 = Append(s, m) /\ q = Marked(prog, t, m) /\ r = events \o q
  OBVIOUS
<1>3. /\ s \in Seq(Moment) /\ s2 \in Seq(Moment) /\ Len(s2) = n + 1
      /\ (\A k \in 1 .. n : s2[k] = s[k]) /\ s2[n + 1] = m
  BY <1>1, <1>2 DEF Timed
<1>4. /\ q \in Seq(Event) /\ Len(q) = (IF InPairs(prog) THEN 2 ELSE 1)
      /\ Ended(prog, m) \in Nat /\ m.a <= Ended(prog, m) /\ m.a \in Nat
  BY <1>2, MarkedIs DEF Moment
<1>5. \A k \in 1 .. n : Ended(prog, s[k]) \in Nat
  BY <1>1, <1>3, EndedNat
<1>6. Timed(prog, s2, Ended(prog, m))
  <2>1. ASSUME NEW k \in 1 .. n + 1 PROVE Ended(prog, s2[k]) <= Ended(prog, m)
    <3>1. CASE k = n + 1
      BY <1>3, <1>4, <3>1
    <3>2. CASE k # n + 1
      <4>1. k \in 1 .. n
        BY <3>2
      <4>2. Ended(prog, s[k]) <= upto /\ Ended(prog, s[k]) \in Nat /\ s2[k] = s[k]
        BY <1>1, <1>3, <1>5, <4>1 DEF Timed
      <4> QED
        BY <1>4, <4>2
    <3> QED
      BY <3>1, <3>2
  <2>2. ASSUME NEW k \in 1 .. (n + 1) - 1 PROVE Ended(prog, s2[k]) <= s2[k + 1].a
    <3>1. k \in 1 .. n /\ s2[k] = s[k]
      BY <1>3
    <3>2. CASE k = n
      <4>1. Ended(prog, s[k]) <= upto /\ Ended(prog, s[k]) \in Nat /\ s2[k + 1] = m
        BY <1>1, <1>3, <1>5, <3>1, <3>2 DEF Timed
      <4> QED
        BY <1>4, <3>1, <4>1
    <3>3. CASE k # n
      <4>1. k \in 1 .. n - 1 /\ k + 1 \in 1 .. n
        BY <3>1, <3>3
      <4>2. Ended(prog, s[k]) <= s[k + 1].a
        BY <1>1, <4>1 DEF Timed
      <4> QED
        BY <1>3, <3>1, <4>1, <4>2
    <3> QED
      BY <3>2, <3>3
  <2> QED
    BY <1>3, <2>1, <2>2 DEF Timed
<1>7. events \in Seq(Event) /\ r \in Seq(Event)
  BY <1>1, <1>2, <1>4 DEF Laid
<1>8. CASE ~InPairs(prog)
  <2>1. Len(events) = n /\ \A k \in 1 .. n : events[k] = Marked(prog, t, s[k])[1]
    BY <1>1, <1>8 DEF Laid
  <2>2. Len(q) = 1
    BY <1>4, <1>8
  <2>3. /\ Len(r) = n + 1 /\ (\A k \in 1 .. n : r[k] = events[k]) /\ r[n + 1] = q[1]
    <3>1. /\ Len(r) = Len(events) + Len(q)
          /\ \A k \in 1 .. Len(events) + Len(q) :
               r[k] = IF k <= Len(events) THEN events[k] ELSE q[k - Len(events)]
      BY <1>2, <1>4, <1>7, ConcatProperties
    <3> QED
      BY <1>4, <2>1, <2>2, <3>1
  <2>4. ASSUME NEW k \in 1 .. n + 1 PROVE r[k] = Marked(prog, t, s2[k])[1]
    <3>1. CASE k = n + 1
      BY <1>2, <1>3, <2>3, <3>1
    <3>2. CASE k # n + 1
      <4>1. k \in 1 .. n
        BY <3>2
      <4> QED
        BY <1>3, <2>1, <2>3, <4>1
    <3> QED
      BY <3>1, <3>2
  <2>5. Laid(prog, t, s2, r)
    BY <1>3, <1>7, <1>8, <2>3, <2>4 DEF Laid
  <2> QED
    BY <1>2, <1>3, <1>6, <2>5 DEF Recorded
<1>9. CASE InPairs(prog)
  <2>1. /\ Len(events) = 2 * n
        /\ \A k \in 1 .. n : /\ events[2 * k - 1] = Marked(prog, t, s[k])[1]
                             /\ events[2 * k] = Marked(prog, t, s[k])[2]
    BY <1>1, <1>9 DEF Laid
  <2>2. Len(q) = 2
    BY <1>4, <1>9
  <2>3. /\ Len(r) = 2 * n + 2 /\ \A k \in 1 .. 2 * n : r[k] = events[k]
        /\ r[2 * n + 1] = q[1] /\ r[2 * n + 2] = q[2]
    <3>1. /\ Len(r) = Len(events) + Len(q)
          /\ \A k \in 1 .. Len(events) + Len(q) :
               r[k] = IF k <= Len(events) THEN events[k] ELSE q[k - Len(events)]
      BY <1>2, <1>4, <1>7, ConcatProperties
    <3>2. PICK l : l = 2 * n
      OBVIOUS
    <3>3. l \in Nat /\ Len(events) = l /\ Len(q) = 2
      BY <2>1, <2>2, <3>2
    <3>4. Len(r) = l + 2 /\ \A k \in 1 .. l : r[k] = events[k]
      BY <3>1, <3>3
    <3>5. r[l + 1] = q[1] /\ r[l + 2] = q[2]
      <4>1. l + 1 \in 1 .. l + 2 /\ ~(l + 1 <= l) /\ (l + 1) - l = 1
        BY <3>3
      <4>2. l + 2 \in 1 .. l + 2 /\ ~(l + 2 <= l) /\ (l + 2) - l = 2
        BY <3>3
      <4> QED
        BY <3>1, <3>3, <4>1, <4>2
    <3> QED
      BY <3>2, <3>4, <3>5
  <2>4. ASSUME NEW k \in 1 .. n + 1
        PROVE  r[2 * k - 1] = Marked(prog, t, s2[k])[1] /\ r[2 * k] = Marked(prog, t, s2[k])[2]
    <3>1. CASE k = n + 1
      <4>1. 2 * k - 1 = 2 * n + 1 /\ 2 * k = 2 * n + 2
        BY <3>1
      <4> QED
        BY <1>2, <1>3, <2>3, <3>1, <4>1
    <3>2. CASE k # n + 1
      <4>1. k \in 1 .. n /\ 2 * k - 1 \in 1 .. 2 * n /\ 2 * k \in 1 .. 2 * n
        BY <3>2
      <4> QED
        BY <1>3, <2>1, <2>3, <4>1
    <3> QED
      BY <3>1, <3>2
  <2>5. Laid(prog, t, s2, r)
    <3>1. 2 * (n + 1) = 2 * n + 2
      OBVIOUS
    <3> QED
      BY <1>3, <1>7, <1>9, <2>3, <2>4, <3>1 DEF Laid
  <2> QED
    BY <1>2, <1>3, <1>6, <2>5 DEF Recorded
<1> QED
  BY <1>8, <1>9

LEMMA RecordedNone ==
  ASSUME NEW prog, NEW t, NEW upto
  PROVE  Recorded(prog, t, <<>>, 0, upto)
<1>1. Timed(prog, <<>>, upto)
  BY EmptySeq DEF Timed
<1>2. Len(<<>>) = 0 /\ <<>> \in Seq(Event) /\ 2 * 0 = 0
  BY EmptySeq
<1>3. Laid(prog, t, <<>>, <<>>)
  BY <1>2 DEF Laid
<1> QED
  BY <1>1, <1>2, <1>3 DEF Recorded

LEMMA RecordedLater ==
  ASSUME NEW prog \in Programs, NEW t, NEW events, NEW n, NEW upto \in Nat, NEW later \in Nat,
         upto <= later, Recorded(prog, t, events, n, upto)
  PROVE  Recorded(prog, t, events, n, later)
<1>1. PICK s : Timed(prog, s, upto) /\ Len(s) = n /\ Laid(prog, t, s, events)
  BY DEF Recorded
<1>2. \A k \in 1 .. Len(s) : Ended(prog, s[k]) <= later
  <2>1. s \in Seq(Moment)
    BY <1>1 DEF Timed
  <2>2. \A k \in 1 .. Len(s) : Ended(prog, s[k]) \in Nat
    BY <2>1, EndedNat
  <2> QED
    BY <1>1, <2>2 DEF Timed
<1> QED
  BY <1>1, <1>2 DEF Recorded, Timed

(* All the events are the thread's. *)
LEMMA RecordedTid ==
  ASSUME NEW prog \in Programs, NEW t \in Nat, NEW events, NEW n, NEW upto,
         Recorded(prog, t, events, n, upto)
  PROVE  /\ n \in Nat /\ events \in Seq(Event)
         /\ Len(events) = IF InPairs(prog) THEN 2 * n ELSE n
         /\ \A k \in DOMAIN events : events[k].tid = t
<1>1. PICK s : Timed(prog, s, upto) /\ Len(s) = n /\ Laid(prog, t, s, events)
  BY DEF Recorded
<1>2. s \in Seq(Moment) /\ n \in Nat /\ events \in Seq(Event)
      /\ \A k \in 1 .. n : s[k] \in Moment
  BY <1>1 DEF Timed, Laid
<1>3. \A k \in 1 .. n : /\ Marked(prog, t, s[k])[1].tid = t
                        /\ InPairs(prog) => Marked(prog, t, s[k])[2].tid = t
  BY <1>2, MarkedIs
<1>4. CASE ~InPairs(prog)
  BY <1>1, <1>2, <1>3, <1>4 DEF Laid
<1>5. CASE InPairs(prog)
  <2>1. /\ Len(events) = 2 * n
        /\ \A k \in 1 .. n : /\ events[2 * k - 1] = Marked(prog, t, s[k])[1]
                             /\ events[2 * k] = Marked(prog, t, s[k])[2]
    BY <1>1, <1>5 DEF Laid
  <2>2. ASSUME NEW k \in 1 .. 2 * n PROVE events[k].tid = t
    <3>1. PICK j : j = (k + 1) \div 2
      OBVIOUS
    <3>2. j \in 1 .. n /\ (k = 2 * j - 1 \/ k = 2 * j)
      BY <1>2, <3>1
    <3> QED
      BY <1>3, <1>5, <2>1, <3>2
  <2> QED
    BY <1>2, <1>5, <2>1, <2>2
<1> QED
  BY <1>4, <1>5

-----------------------------------------------------------------------------
(* What the iterations of each program mark, and when they end. *)
LEMMA OneOf ==
  ASSUME NEW q, NEW e, q = <<e>>
  PROVE  q[1] = e /\ Last(q) = e
<1>1. Len(q) = 1 /\ q[1] = e
  OBVIOUS
<1> QED
  BY <1>1 DEF Last

LEMMA TwoOf ==
  ASSUME NEW q, NEW d, NEW e, q = <<d, e>>
  PROVE  q[1] = d /\ q[2] = e /\ Last(q) = e
<1>1. Len(q) = 2 /\ q[1] = d /\ q[2] = e
  OBVIOUS
<1> QED
  BY <1>1 DEF Last

IsEvt(e, ph, name, ts, dur) ==
  /\ e.ph = ph /\ e.name = name /\ e.ts = ts /\ e.dur = dur

LEMMA EvtIs ==
  ASSUME NEW t, NEW ph, NEW name, NEW ts, NEW dur, NEW e, e = Evt(t, ph, name, ts, dur)
  PROVE  IsEvt(e, ph, name, ts, dur)
  BY DEF Evt, IsEvt

LEMMA CounterMark ==
  ASSUME NEW prog, prog = "mt_counter", NEW t, NEW m \in Moment
  PROVE  /\ IsEvt(Marked(prog, t, m)[1], "C", "Counter", m.a, 0)
         /\ Ended(prog, m) = m.a
<1>1. m.a \in Nat /\ m.b \in Nat /\ m.c \in Nat
  BY DEF Moment
<1>2. ASSUME NEW u
      PROVE  /\ IsEvt(Marked(prog, u, m)[1], "C", "Counter", m.a, 0)
             /\ Last(Marked(prog, u, m)) = Marked(prog, u, m)[1]
  <2>1. PICK q, e : q = Marked(prog, u, m) /\ e = Evt(u, "C", "Counter", m.a, 0)
    OBVIOUS
  <2>2. q = <<e>>
    BY <2>1 DEF Marked, Iteration, mt_counter
  <2>3. q[1] = e /\ Last(q) = e
    BY <2>2, OneOf
  <2>4. IsEvt(e, "C", "Counter", m.a, 0)
    BY <2>1, EvtIs
  <2> QED
    BY <2>1, <2>3, <2>4
<1>3. PICK e : e = Marked(prog, 0, m)[1]
  OBVIOUS
<1>4. Last(Marked(prog, 0, m)) = e /\ IsEvt(e, "C", "Counter", m.a, 0)
  BY <1>2, <1>3
<1>5. e.ts = m.a /\ e.dur = 0
  BY <1>4 DEF IsEvt
<1>6. Ended(prog, m) = e.ts + e.dur
  BY <1>4 DEF Ended
<1>7. Ended(prog, m) = m.a
  BY <1>1, <1>5, <1>6
<1> QED
  BY <1>2, <1>7

LEMMA InstantMark ==
  ASSUME NEW prog, prog = "st_instant", NEW t, NEW m \in Moment
  PROVE  /\ IsEvt(Marked(prog, t, m)[1], "i", "some instant ...", m.a, 0)
         /\ Ended(prog, m) = m.a
<1>1. m.a \in Nat /\ m.b \in Nat /\ m.c \in Nat
  BY DEF Moment
<1>2. ASSUME NEW u
      PROVE  /\ IsEvt(Marked(prog, u, m)[1], "i", "some instant ...", m.a, 0)
             /\ Last(Marked(prog, u, m)) = Marked(prog, u, m)[1]
  <2>1. PICK q, e : q = Marked(prog, u, m) /\ e = Evt(u, "i", "some instant ...", m.a, 0)
    OBVIOUS
  <2>2. q = <<e>>
    BY <2>1 DEF Marked, Iteration, st_instant
  <2>3. q[1] = e /\ Last(q) = e
    BY <2>2, OneOf
  <2>4. IsEvt(e, "i", "some instant ...", m.a, 0)
    BY <2>1, EvtIs
  <2> QED
    BY <2>1, <2>3, <2>4
<1>3. PICK e : e = Marked(prog, 0, m)[1]
  OBVIOUS
<1>4. Last(Marked(prog, 0, m)) = e /\ IsEvt(e, "i", "some instant ...", m.a, 0)
  BY <1>2, <1>3
<1>5. e.ts = m.a /\ e.dur = 0
  BY <1>4 DEF IsEvt
<1>6. Ended(prog, m) = e.ts + e.dur
  BY <1>4 DEF Ended
<1>7. Ended(prog, m) = m.a
  BY <1>1, <1>5, <1>6
<1> QED
  BY <1>2, <1>7

LEMMA GuardedMark ==
  ASSUME NEW prog, prog = "st_guarded_instant", NEW t, NEW m \in Moment
  PROVE  /\ IsEvt(Marked(prog, t, m)[1], "i", "some instant ...", m.b, 0)
         /\ IsEvt(Marked(prog, t, m)[2], "X", "complete over instant event", m.a, m.c - m.a)
         /\ Ended(prog, m) = m.c
<1>1. m.a \in Nat /\ m.b \in Nat /\ m.c \in Nat
  BY DEF Moment
<1>2. ASSUME NEW u
      PROVE  /\ IsEvt(Marked(prog, u, m)[1], "i", "some instant ...", m.b, 0)
             /\ IsEvt(Marked(prog, u, m)[2], "X", "complete over instant event", m.a, m.c - m.a)
             /\ Last(Marked(prog, u, m)) = Marked(prog, u, m)[2]
  <2>1. PICK q, d, e : q = Marked(prog, u, m) /\ d = Evt(u, "i", "some instant ...", m.b, 0) /\ e = Evt(u, "X", "complete over instant event", m.a, m.c - m.a)
    OBVIOUS
  <2>2. q = <<d, e>>
    BY <2>1 DEF Marked, Iteration, st_guarded_instant
  <2>3. q[1] = d /\ Last(q) = e /\ q[2] = e
    BY <2>2, TwoOf
  <2>4. IsEvt(d, "i", "some instant ...", m.b, 0) /\ IsEvt(e, "X", "complete over instant event", m.a, m.c - m.a)
    BY <2>1, EvtIs
  <2> QED
    BY <2>1, <2>3, <2>4
<1>3. PICK e : e = Marked(prog, 0, m)[2]
  OBVIOUS
<1>4. Last(Marked(prog, 0, m)) = e /\ IsEvt(e, "X", "complete over instant event", m.a, m.c - m.a)
  BY <1>2, <1>3
<1>5. e.ts = m.a /\ e.dur = m.c - m.a
  BY <1>4 DEF IsEvt
<1>6. Ended(prog, m) = e.ts + e.dur
  BY <1>4 DEF Ended
<1>7. Ended(prog, m) = m.c
  BY <1>1, <1>5, <1>6
<1> QED
  BY <1>2, <1>7

LEMMA CompleteMark ==
  ASSUME NEW prog, prog = "st_complete", NEW t, NEW m \in Moment
  PROVE  /\ IsEvt(Marked(prog, t, m)[1], "X", "complete ...", m.a, m.b - m.a)
         /\ Ended(prog, m) = m.b
<1>1. m.a \in Nat /\ m.b \in Nat /\ m.c \in Nat
  BY DEF Moment
<1>2. ASSUME NEW u
      PROVE  /\ IsEvt(Marked(prog, u, m)[1], "X", "complete ...", m.a, m.b - m.a)
             /\ Last(Marked(prog, u, m)) = Marked(prog, u, m)[1]
  <2>1. PICK q, e : q = Marked(prog, u, m) /\ e = Evt(u, "X", "complete ...", m.a, m.b - m.a)
    OBVIOUS
  <2>2. q = <<e>>
    BY <2>1 DEF Marked, Iteration, st_complete
  <2>3. q[1] = e /\ Last(q) = e
    BY <2>2, OneOf
  <2>4. IsEvt(e, "X", "complete ...", m.a, m.b - m.a)
    BY <2>1, EvtIs
  <2> QED
    BY <2>1, <2>3, <2>4
<1>3. PICK e : e = Marked(prog, 0, m)[1]
  OBVIOUS
<1>4. Last(Marked(prog, 0, m)) = e /\ IsEvt(e, "X", "complete ...", m.a, m.b - m.a)
  BY <1>2, <1>3
<1>5. e.ts = m.a /\ e.dur = m.b - m.a
  BY <1>4 DEF IsEvt
<1>6. Ended(prog, m) = e.ts + e.dur
  BY <1>4 DEF Ended
<1>7. Ended(prog, m) = m.b
  BY <1>1, <1>5, <1>6
<1> QED
  BY <1>2, <1>7

LEMMA DurationMark ==
  ASSUME NEW prog, prog = "st_duration", NEW t, NEW m \in Moment
  PROVE  /\ IsEvt(Marked(prog, t, m)[1], "B", "begin marker ...", m.a, 0)
         /\ IsEvt(Marked(prog, t, m)[2], "E", "", m.b, 0)
         /\ Ended(prog, m) = m.b
<1>1. m.a \in Nat /\ m.b \in Nat /\ m.c \in Nat
  BY DEF Moment
<1>2. ASSUME NEW u
      PROVE  /\ IsEvt(Marked(prog, u, m)[1], "B", "begin marker ...", m.a, 0)
             /\ IsEvt(Marked(prog, u, m)[2], "E", "", m.b, 0)
             /\ Last(Marked(prog, u, m)) = Marked(prog, u, m)[2]
  <2>1. PICK q, d, e : q = Marked(prog, u, m) /\ d = Evt(u, "B", "begin marker ...", m.a, 0) /\ e = Evt(u, "E", "", m.b, 0)
    OBVIOUS
  <2>2. q = <<d, e>>
    BY <2>1 DEF Marked, Iteration, st_duration
  <2>3. q[1] = d /\ Last(q) = e /\ q[2] = e
    BY <2>2, TwoOf
  <2>4. IsEvt(d, "B", "begin marker ...", m.a, 0) /\ IsEvt(e, "E", "", m.b, 0)
    BY <2>1, EvtIs
  <2> QED
    BY <2>1, <2>3, <2>4
<1>3. PICK e : e = Marked(prog, 0, m)[2]
  OBVIOUS
<1>4. Last(Marked(prog, 0, m)) = e /\ IsEvt(e, "E", "", m.b, 0)
  BY <1>2, <1>3
<1>5. e.ts = m.b /\ e.dur = 0
  BY <1>4 DEF IsEvt
<1>6. Ended(prog, m) = e.ts + e.dur
  BY <1>4 DEF Ended
<1>7. Ended(prog, m) = m.b
  BY <1>1, <1>5, <1>6
<1> QED
  BY <1>2, <1>7

(* From the first reading of each iteration to its end. *)
Spans(prog, s) == [k \in 1 .. Len(s) |-> <<s[k].a, Ended(prog, s[k])>>]

SpansOK(spans, n) ==
  /\ spans \in Seq(Nat \X Nat) /\ Len(spans) = n /\ DOMAIN spans = 1 .. n
  /\ monotonic(spans)
  /\ Lengths(spans) \in Seq(Int) /\ Len(Lengths(spans)) = n
  /\ n > 0 => get_diffs(spans) \in Seq(Int) /\ Len(get_diffs(spans)) = n - 1

LEMMA SpansOf ==
  ASSUME NEW prog \in Programs, NEW s, NEW upto, Timed(prog, s, upto)
  PROVE  SpansOK(Spans(prog, s), Len(s))
<1>1. PICK n, spans : n = Len(s) /\ spans = Spans(prog, s)
  OBVIOUS
<1>2. s \in Seq(Moment) /\ n \in Nat /\ \A k \in 1 .. n : s[k] \in Moment
  BY <1>1 DEF Timed
<1>3. \A k \in 1 .. n : s[k].a \in Nat /\ Ended(prog, s[k]) \in Nat
  BY <1>2, MarkedIs DEF Moment
<1>4. /\ spans \in Seq(Nat \X Nat) /\ Len(spans) = n /\ DOMAIN spans = 1 .. n
      /\ \A k \in 1 .. n : /\ spans[k][1] = s[k].a /\ spans[k][2] = Ended(prog, s[k])
                           /\ spans[k][1] \in Nat /\ spans[k][2] \in Nat
  BY <1>1, <1>2, <1>3, IsASeq DEF Spans
<1>5. monotonic(spans)
  <2>1. \A k \in 1 .. n - 1 : k \in 1 .. n /\ k + 1 \in 1 .. n
    BY <1>2
  <2>2. \A k \in 1 .. n - 1 : Ended(prog, s[k]) <= s[k + 1].a
    BY <1>1 DEF Timed
  <2> QED
    BY <1>4, <2>1, <2>2 DEF monotonic
<1>6. Lengths(spans) \in Seq(Int) /\ Len(Lengths(spans)) = n
  <2>1. Lengths(spans) = [k \in 1 .. n |-> spans[k][2] - spans[k][1]]
    BY <1>4 DEF Lengths
  <2>2. Lengths(spans) \in [1 .. n -> Int]
    BY <1>4, <2>1
  <2> QED
    BY <1>2, <2>2, IsASeq
<1>7. ASSUME n > 0 PROVE get_diffs(spans) \in Seq(Int) /\ Len(get_diffs(spans)) = n - 1
  <2>1. get_diffs(spans) = [k \in 1 .. n - 1 |-> spans[k + 1][1] - spans[k][2]]
    BY <1>4 DEF get_diffs
  <2>2. \A k \in 1 .. n - 1 : k \in 1 .. n /\ k + 1 \in 1 .. n
    BY <1>2
  <2>3. get_diffs(spans) \in [1 .. n - 1 -> Int] /\ n - 1 \in Nat
    <3>1. \A k \in 1 .. n - 1 : spans[k + 1][1] - spans[k][2] \in Int
      BY <1>4, <2>2
    <3>2. n - 1 \in Nat
      BY <1>2, <1>7
    <3> QED
      BY <2>1, <3>1, <3>2
  <2> QED
    BY <2>3, IsASeq
<1> QED
  BY <1>1, <1>4, <1>5, <1>6, <1>7 DEF SpansOK

(* Samples that compute_from accepts, one of them of so many intervals. *)
Reportable(values, intervals) ==
  /\ \A k \in DOMAIN values : values[k] \in Seq(Int) /\ values[k] # <<>>
  /\ \E k \in DOMAIN values : Len(values[k]) = intervals

(* Two iterations are enough, one is not. *)
Verdict(name, events, n, intervals) ==
  /\ n >= 2 => /\ Required(name, events)
               /\ Reportable(Values(name, events), intervals)
  /\ n = 1 => \/ ~Required(name, events)
              \/ \E k \in DOMAIN Values(name, events) : Values(name, events)[k] = <<>>

LEMMA InstantVerdict ==
  ASSUME NEW prog, prog = "st_instant", NEW events, NEW n, NEW upto, n > 0,
         Recorded(prog, 0, events, n, upto)
  PROVE  Verdict(prog, events, n, n - 1)
<1>1. PICK s : Timed(prog, s, upto) /\ Len(s) = n /\ Laid(prog, 0, s, events)
  BY DEF Recorded
<1>2. s \in Seq(Moment) /\ n \in Nat /\ \A k \in 1 .. n : s[k] \in Moment
  BY <1>1 DEF Timed
<1>3. prog \in Programs /\ ~InPairs(prog)
  BY DEF Programs, InPairs
<1>4. Len(events) = n /\ DOMAIN events = 1 .. n
      /\ \A k \in 1 .. n : /\ IsEvt(events[k], "i", "some instant ...", s[k].a, 0)
                           /\ Ended(prog, s[k]) = s[k].a
  <2>1. Len(events) = n /\ DOMAIN events = 1 .. n
        /\ \A k \in 1 .. n : events[k] = Marked(prog, 0, s[k])[1]
    BY <1>1, <1>2, <1>3 DEF Laid
  <2> QED
    BY <1>2, <2>1, InstantMark
<1>5. SpansOK(Spans(prog, s), n)
  BY <1>1, <1>3, SpansOf
<1>6. Instants(events) = Spans(prog, s)
  <2>1. \A k \in 1 .. n : events[k].ts = s[k].a /\ Ended(prog, s[k]) = s[k].a
    BY <1>4 DEF IsEvt
  <2> QED
    BY <1>1, <1>4, <2>1 DEF Instants, Spans
<1>7. Values(prog, events) = <<get_diffs(Spans(prog, s))>>
  BY <1>6 DEF Values, InstantValues
<1>8. Required(prog, events) <=> n >= 2
  <2>1. AllAre(events, "i", "some instant ...")
    BY <1>4 DEF AllAre, IsEvt
  <2>2. Required(prog, events) <=> InstantRequired(events)
    BY DEF Required
  <2> QED
    BY <1>4, <1>5, <1>6, <2>1, <2>2 DEF InstantRequired, SpansOK
<1>9. n >= 2 => Reportable(<<get_diffs(Spans(prog, s))>>, n - 1)
  <2>1. PICK d : d = get_diffs(Spans(prog, s))
    OBVIOUS
  <2>2. d \in Seq(Int) /\ Len(d) = n - 1
    BY <1>5, <2>1 DEF SpansOK
  <2>3. n >= 2 => d # <<>>
    BY <1>2, <2>2, EmptySeq
  <2> QED
    BY <2>1, <2>2, <2>3 DEF Reportable
<1> QED
  BY <1>7, <1>8, <1>9 DEF Verdict

LEMMA CompleteVerdict ==
  ASSUME NEW prog, prog = "st_complete", NEW events, NEW n, NEW upto, n > 0,
         Recorded(prog, 0, events, n, upto)
  PROVE  Verdict(prog, events, n, n - 1)
<1>1. PICK s : Timed(prog, s, upto) /\ Len(s) = n /\ Laid(prog, 0, s, events)
  BY DEF Recorded
<1>2. /\ s \in Seq(Moment) /\ n \in Nat
      /\ \A k \in 1 .. n : s[k] \in Moment /\ s[k].a \in Nat /\ s[k].b \in Nat
  BY <1>1 DEF Timed, Moment
<1>3. prog \in Programs /\ ~InPairs(prog)
  BY DEF Programs, InPairs
<1>4. Len(events) = n /\ DOMAIN events = 1 .. n
      /\ \A k \in 1 .. n :
           /\ IsEvt(events[k], "X", "complete ...", s[k].a, s[k].b - s[k].a)
           /\ Ended(prog, s[k]) = s[k].b
  <2>1. Len(events) = n /\ DOMAIN events = 1 .. n
        /\ \A k \in 1 .. n : events[k] = Marked(prog, 0, s[k])[1]
    BY <1>1, <1>2, <1>3 DEF Laid
  <2> QED
    BY <1>2, <2>1, CompleteMark
<1>5. SpansOK(Spans(prog, s), n)
  BY <1>1, <1>3, SpansOf
<1>6. Completes(events) = Spans(prog, s)
  <2>1. \A k \in 1 .. n : events[k].ts = s[k].a /\ events[k].dur = s[k].b - s[k].a
    BY <1>4 DEF IsEvt
  <2>2. \A k \in 1 .. n : events[k].ts = s[k].a /\ events[k].ts + events[k].dur = Ended(prog, s[k])
    <3> SUFFICES ASSUME NEW k \in 1 .. n
                 PROVE  events[k].ts = s[k].a /\ events[k].ts + events[k].dur = Ended(prog, s[k])
      OBVIOUS
    <3>1. events[k].ts = s[k].a /\ events[k].dur = s[k].b - s[k].a /\ Ended(prog, s[k]) = s[k].b
      BY <1>4, <2>1
    <3>2. s[k].a + (s[k].b - s[k].a) = s[k].b
      BY <1>2
    <3> QED
      BY <3>1, <3>2
  <2> QED
    BY <1>1, <1>4, <2>2 DEF Completes, Spans
<1>7. Values(prog, events) = <<Lengths(Spans(prog, s)), get_diffs(Spans(prog, s))>>
  BY <1>6 DEF Values, CompleteValues
<1>8. Required(prog, events) <=> n >= 2
  <2>1. AllAre(events, "X", "complete ...")
    BY <1>4 DEF AllAre, IsEvt
  <2>2. Required(prog, events) <=> CompleteRequired(events)
    BY DEF Required
  <2> QED
    <3>1. Len(events) > 1 <=> n >= 2
      <4>1. n > 1 <=> n >= 2
        BY <1>2
      <4> QED
        BY <1>4, <4>1
    <3>2. monotonic(Completes(events))
      BY <1>5, <1>6 DEF SpansOK
    <3> QED
      BY <2>1, <2>2, <3>1, <3>2 DEF CompleteRequired
<1>9. n >= 2 => Reportable(<<Lengths(Spans(prog, s)), get_diffs(Spans(prog, s))>>, n - 1)
  <2>1. PICK d, l : d = get_diffs(Spans(prog, s)) /\ l = Lengths(Spans(prog, s))
    OBVIOUS
  <2>2. d \in Seq(Int) /\ Len(d) = n - 1 /\ l \in Seq(Int) /\ Len(l) = n
    BY <1>5, <2>1 DEF SpansOK
  <2>3. n >= 2 => d # <<>> /\ l # <<>>
    BY <1>2, <2>2, EmptySeq
  <2> QED
    BY <2>1, <2>2, <2>3 DEF Reportable
<1> QED
  BY <1>7, <1>8, <1>9 DEF Verdict

(* Of the events of two an iteration, the first ones and the second ones. *)
LEMMA OddAndEven ==
  ASSUME NEW n \in Nat, NEW events, Len(events) = 2 * n
  PROVE  /\ DOMAIN Odd(events) = 1 .. n /\ DOMAIN Even(events) = 1 .. n
         /\ Len(Odd(events)) = n /\ Len(Even(events)) = n
         /\ \A k \in 1 .. n : /\ Odd(events)[k] = events[2 * k - 1]
                              /\ Even(events)[k] = events[2 * k]
<1>1. (2 * n + 1) \div 2 = n /\ (2 * n) \div 2 = n
  OBVIOUS
<1>2. Odd(events) = [k \in 1 .. n |-> events[2 * k - 1]]
  BY <1>1 DEF Odd
<1>3. Even(events) = [k \in 1 .. n |-> events[2 * k]]
  BY <1>1 DEF Even
<1> QED
  BY <1>2, <1>3

LEMMA GuardedVerdict ==
  ASSUME NEW prog, prog = "st_guarded_instant", NEW events, NEW n, NEW upto, n > 0,
         Recorded(prog, 0, events, n, upto)
  PROVE  Verdict(prog, events, n, n - 1)
<1>1. PICK s : Timed(prog, s, upto) /\ Len(s) = n /\ Laid(prog, 0, s, events)
  BY DEF Recorded
<1>2. /\ s \in Seq(Moment) /\ n \in Nat
      /\ \A k \in 1 .. n : /\ s[k] \in Moment
                           /\ s[k].a \in Nat /\ s[k].b \in Nat /\ s[k].c \in Nat
                           /\ s[k].a <= s[k].b /\ s[k].b <= s[k].c
  BY <1>1 DEF Timed, Moment
<1>3. prog \in Programs /\ InPairs(prog)
  BY DEF Programs, InPairs
<1>4. Len(events) = 2 * n
      /\ \A k \in 1 .. n :
           /\ IsEvt(events[2 * k - 1], "i", "some instant ...", s[k].b, 0)
           /\ IsEvt(events[2 * k], "X", "complete over instant event", s[k].a, s[k].c - s[k].a)
           /\ Ended(prog, s[k]) = s[k].c
  <2>1. Len(events) = 2 * n
        /\ \A k \in 1 .. n : /\ events[2 * k - 1] = Marked(prog, 0, s[k])[1]
                             /\ events[2 * k] = Marked(prog, 0, s[k])[2]
    BY <1>1, <1>3 DEF Laid
  <2> QED
    <3>1. ASSUME NEW k \in 1 .. n, NEW m, m = s[k]
          PROVE  /\ IsEvt(Marked(prog, 0, m)[1], "i", "some instant ...", m.b, 0)
                 /\ IsEvt(Marked(prog, 0, m)[2], "X", "complete over instant event",
                          m.a, m.c - m.a)
                 /\ Ended(prog, m) = m.c
      <4>1. m \in Moment
        BY <1>2, <3>1
      <4> QED
        BY <4>1, GuardedMark
    <3> QED
      BY <2>1, <3>1
<1>5. SpansOK(Spans(prog, s), n)
  BY <1>1, <1>3, SpansOf
<1>6. PICK odd, even : odd = Odd(events) /\ even = Even(events)
  OBVIOUS
<1>7. /\ DOMAIN odd = 1 .. n /\ DOMAIN even = 1 .. n
      /\ \A k \in 1 .. n :
           /\ IsEvt(odd[k], "i", "some instant ...", s[k].b, 0)
           /\ IsEvt(even[k], "X", "complete over instant event", s[k].a, s[k].c - s[k].a)
  <2>1. /\ DOMAIN odd = 1 .. n /\ DOMAIN even = 1 .. n
        /\ \A k \in 1 .. n : odd[k] = events[2 * k - 1] /\ even[k] = events[2 * k]
    BY <1>2, <1>4, <1>6, OddAndEven
  <2> QED
    BY <1>4, <2>1
<1>8. Completes(even) = Spans(prog, s)
  <2>1. ASSUME NEW k \in 1 .. n
        PROVE  even[k].ts = s[k].a /\ even[k].ts + even[k].dur = Ended(prog, s[k])
    <3>1. even[k].ts = s[k].a /\ even[k].dur = s[k].c - s[k].a /\ Ended(prog, s[k]) = s[k].c
      BY <1>4, <1>7 DEF IsEvt
    <3>2. s[k].a + (s[k].c - s[k].a) = s[k].c
      BY <1>2
    <3> QED
      BY <3>1, <3>2
  <2> QED
    BY <1>1, <1>7, <2>1 DEF Completes, Spans
<1>9. PICK spans : spans = Spans(prog, s)
  OBVIOUS
<1>10. DOMAIN spans = 1 .. n
       /\ \A k \in 1 .. n : spans[k][1] = s[k].a /\ spans[k][2] = s[k].c
  BY <1>1, <1>4, <1>9 DEF Spans
<1>11. PICK center : center = [k \in 1 .. n |-> 2 * odd[k].ts - (spans[k][1] + spans[k][2])]
  OBVIOUS
<1>12. center \in Seq(Int) /\ Len(center) = n
  <2>1. \A k \in 1 .. n : odd[k].ts = s[k].b
    BY <1>7 DEF IsEvt
  <2>2. \A k \in 1 .. n : 2 * odd[k].ts - (spans[k][1] + spans[k][2]) \in Int
    <3> SUFFICES ASSUME NEW k \in 1 .. n
                 PROVE  2 * odd[k].ts - (spans[k][1] + spans[k][2]) \in Int
      OBVIOUS
    <3>1. odd[k].ts \in Nat /\ spans[k][1] \in Nat /\ spans[k][2] \in Nat
      BY <1>2, <1>10, <2>1
    <3> QED
      BY <3>1
  <2>3. center \in [1 .. n -> Int]
    BY <1>11, <2>2
  <2> QED
    BY <1>2, <2>3, IsASeq
<1>13. Values(prog, events) = <<Lengths(spans), get_diffs(spans), center>>
  <2>1. GuardedValues(events) =
          <<Lengths(spans), get_diffs(spans),
            [k \in DOMAIN spans |-> 2 * odd[k].ts - (spans[k][1] + spans[k][2])]>>
    BY <1>6, <1>8, <1>9 DEF GuardedValues
  <2>2. Values(prog, events) = GuardedValues(events)
    BY DEF Values
  <2> QED
    BY <1>10, <1>11, <2>1, <2>2
<1>14. Required(prog, events)
  <2>1. AllAre(odd, "i", "some instant ...") /\ AllAre(even, "X", "complete over instant event")
    BY <1>7 DEF AllAre, IsEvt
  <2>2. \A k \in 1 .. n : spans[k][1] <= odd[k].ts /\ odd[k].ts <= spans[k][2]
    BY <1>2, <1>7, <1>10 DEF IsEvt
  <2>3. Len(events) > 0 /\ Len(events) % 2 = 0
    <3>1. 2 * n > 0 /\ (2 * n) % 2 = 0
      BY <1>2
    <3> QED
      BY <1>4, <3>1
  <2>4. monotonic(spans)
    BY <1>5, <1>9 DEF SpansOK
  <2>5. GuardedRequired(events)
    BY <1>6, <1>8, <1>9, <1>10, <2>1, <2>2, <2>3, <2>4 DEF GuardedRequired
  <2> QED
    BY <2>5 DEF Required
<1>15. PICK d, l : d = get_diffs(spans) /\ l = Lengths(spans)
  OBVIOUS
<1>16. d \in Seq(Int) /\ Len(d) = n - 1 /\ l \in Seq(Int) /\ Len(l) = n
  BY <1>5, <1>9, <1>15 DEF SpansOK
<1>17. n >= 2 => Reportable(<<l, d, center>>, n - 1)
  <2>1. n >= 2 => d # <<>> /\ l # <<>> /\ center # <<>>
    BY <1>2, <1>12, <1>16, EmptySeq
  <2> QED
    BY <1>12, <1>16, <2>1 DEF Reportable
<1>18. n = 1 => <<l, d, center>>[2] = <<>> /\ 2 \in DOMAIN <<l, d, center>>
  BY <1>16, EmptySeq
<1> QED
  BY <1>13, <1>14, <1>15, <1>17, <1>18 DEF Verdict

LEMMA DurationVerdict ==
  ASSUME NEW prog, prog = "st_duration", NEW events, NEW n, NEW upto, n > 0,
         Recorded(prog, 0, events, n, upto)
  PROVE  Verdict(prog, events, n, n - 1)
<1>1. PICK s : Timed(prog, s, upto) /\ Len(s) = n /\ Laid(prog, 0, s, events)
  BY DEF Recorded
<1>2. /\ s \in Seq(Moment) /\ n \in Nat
      /\ \A k \in 1 .. n : /\ s[k] \in Moment
                           /\ s[k].a \in Nat /\ s[k].b \in Nat /\ s[k].a <= s[k].b
  BY <1>1 DEF Timed, Moment
<1>3. prog \in Programs /\ InPairs(prog)
  BY DEF Programs, InPairs
<1>4. Len(events) = 2 * n
      /\ \A k \in 1 .. n : /\ IsEvt(events[2 * k - 1], "B", "begin marker ...", s[k].a, 0)
                           /\ IsEvt(events[2 * k], "E", "", s[k].b, 0)
                           /\ Ended(prog, s[k]) = s[k].b
  <2>1. Len(events) = 2 * n
        /\ \A k \in 1 .. n : /\ events[2 * k - 1] = Marked(prog, 0, s[k])[1]
                             /\ events[2 * k] = Marked(prog, 0, s[k])[2]
    BY <1>1, <1>3 DEF Laid
  <2> QED
    <3>1. ASSUME NEW k \in 1 .. n, NEW m, m = s[k]
          PROVE  /\ IsEvt(Marked(prog, 0, m)[1], "B", "begin marker ...", m.a, 0)
                 /\ IsEvt(Marked(prog, 0, m)[2], "E", "", m.b, 0)
                 /\ Ended(prog, m) = m.b
      <4>1. m \in Moment
        BY <1>2, <3>1
      <4> QED
        BY <4>1, DurationMark
    <3> QED
      BY <2>1, <3>1
<1>5. SpansOK(Spans(prog, s), n)
  BY <1>1, <1>3, SpansOf
<1>6. PICK odd, even : odd = Odd(events) /\ even = Even(events)
  OBVIOUS
<1>7. /\ DOMAIN odd = 1 .. n /\ DOMAIN even = 1 .. n
      /\ \A k \in 1 .. n : /\ IsEvt(odd[k], "B", "begin marker ...", s[k].a, 0)
                           /\ IsEvt(even[k], "E", "", s[k].b, 0)
  <2>1. /\ DOMAIN odd = 1 .. n /\ DOMAIN even = 1 .. n
        /\ \A k \in 1 .. n : odd[k] = events[2 * k - 1] /\ even[k] = events[2 * k]
    BY <1>2, <1>4, <1>6, OddAndEven
  <2> QED
    BY <1>4, <2>1
<1>8. Durations(events) = Spans(prog, s)
  <2>1. \A k \in 1 .. n : odd[k].ts = s[k].a /\ even[k].ts = s[k].b
    BY <1>7 DEF IsEvt
  <2>2. Durations(events) = [k \in 1 .. n |-> <<odd[k].ts, even[k].ts>>]
    BY <1>6, <1>7 DEF Durations
  <2>3. Spans(prog, s) = [k \in 1 .. n |-> <<s[k].a, Ended(prog, s[k])>>]
    BY <1>1 DEF Spans
  <2>4. \A k \in 1 .. n : <<odd[k].ts, even[k].ts>> = <<s[k].a, Ended(prog, s[k])>>
    BY <1>4, <2>1
  <2> QED
    BY <2>2, <2>3, <2>4
<1>9. PICK spans : spans = Spans(prog, s)
  OBVIOUS
<1>10. Values(prog, events) = <<Lengths(spans), get_diffs(spans)>>
  BY <1>8, <1>9 DEF Values, DurationValues
<1>11. Required(prog, events)
  <2>1. AllAre(odd, "B", "begin marker ...")
    BY <1>7 DEF AllAre, IsEvt
  <2>2. \A k \in 1 .. n : even[k].ph = "E" /\ odd[k].ts <= even[k].ts
    BY <1>2, <1>7 DEF IsEvt
  <2>3. Len(events) > 0 /\ Len(events) % 2 = 0
    <3>1. 2 * n > 0 /\ (2 * n) % 2 = 0
      BY <1>2
    <3> QED
      BY <1>4, <3>1
  <2>4. monotonic(spans)
    BY <1>5, <1>9 DEF SpansOK
  <2>5. DurationRequired(events)
    BY <1>6, <1>7, <1>8, <1>9, <2>1, <2>2, <2>3, <2>4 DEF DurationRequired
  <2> QED
    BY <2>5 DEF Required
<1>12. PICK d, l : d = get_diffs(spans) /\ l = Lengths(spans)
  OBVIOUS
<1>13. d \in Seq(Int) /\ Len(d) = n - 1 /\ l \in Seq(Int) /\ Len(l) = n
  BY <1>5, <1>9, <1>12 DEF SpansOK
<1>14. n >= 2 => Reportable(<<l, d>>, n - 1)
  <2>1. n >= 2 => d # <<>> /\ l # <<>>
    BY <1>2, <1>13, EmptySeq
  <2> QED
    BY <1>13, <2>1 DEF Reportable
<1>15. n = 1 => <<l, d>>[2] = <<>> /\ 2 \in DOMAIN <<l, d>>
  BY <1>13, EmptySeq
<1> QED
  BY <1>10, <1>11, <1>12, <1>14, <1>15 DEF Verdict

-----------------------------------------------------------------------------
(* What is left of a set is a sequence of its elements, each of them once. *)
LEMMA SetToSeqIs ==
  ASSUME NEW S, IsFiniteSet(S)
  PROVE  SetToSeq(S) \in [1 .. Cardinality(S) -> S]
<1>1. ExistsBijection(1 .. Cardinality(S), S)
  BY FS_CardinalityType
<1>2. \E f \in [1 .. Cardinality(S) -> S] : IsInjective(f)
  BY <1>1 DEF ExistsBijection, Bijection, Injection
<1> QED
  BY <1>2 DEF SetToSeq

(* Sequences of one length, joined. *)
OfOneLength(T, N, c, q) ==
  N \in Nat /\ c \in Nat /\ q \in [1 .. N -> Seq(T)] /\ \A k \in 1 .. N : Len(q[k]) = c
Joined(T, N, c, r) == r \in Seq(T) /\ Len(r) = N * c

LEMMA FlattenedLen ==
  ASSUME NEW T, NEW N, NEW c, NEW q, OfOneLength(T, N, c, q)
  PROVE  Joined(T, N, c, FlattenSeq(q))
<1>0. N \in Nat /\ c \in Nat /\ q \in [1 .. N -> Seq(T)] /\ \A k \in 1 .. N : Len(q[k]) = c
  BY DEF OfOneLength
<1>1. PICK steps : steps = [k \in Nat |-> [r \in Seq(T) |-> IF k \in 1 .. N THEN r \o q[k] ELSE r]]
  OBVIOUS
<1>2. /\ steps \in [Nat -> [Seq(T) -> Seq(T)]]
      /\ \A k \in 1 .. N : \A r \in Seq(T) : steps[k][r] = r \o q[k]
  BY <1>0, <1>1
<1>3. <<>> \in Seq(T)
  OBVIOUS
<1>4. PICK F : Follows(Seq(T), steps, <<>>, N, F)
  BY <1>0, <1>2, <1>3, FollowsExist
<1>5. /\ F \in [0 .. N -> Seq(T)] /\ F[0] = <<>>
      /\ \A k \in 1 .. N : F[k] = F[k - 1] \o q[k]
  <2>1. /\ F \in [0 .. N -> Seq(T)] /\ F[0] = <<>>
        /\ \A k \in 1 .. N : F[k] = steps[k][F[k - 1]]
    BY <1>4 DEF Follows
  <2>2. \A k \in 1 .. N : k - 1 \in 0 .. N
    BY <1>0
  <2> QED
    BY <1>2, <2>1, <2>2
<1>6. FlattenSeq(q) = F[N]
  BY <1>0, <1>5, Flattened
<1> DEFINE S == {k \in Nat : k <= N => Len(F[k]) = k * c}
<1>7. 0 \in S
  BY <1>0, <1>5, EmptySeq
<1>8. ASSUME NEW k \in S PROVE k + 1 \in S
  <2>1. k \in Nat /\ k + 1 \in Nat
    BY <1>8
  <2>2. ASSUME k + 1 <= N PROVE Len(F[k + 1]) = (k + 1) * c
    <3>1. PICK j : j = k + 1
      OBVIOUS
    <3>2. j \in 1 .. N /\ j - 1 = k /\ k \in 0 .. N /\ k <= N
      BY <1>0, <2>1, <2>2, <3>1
    <3>3. Len(F[k]) = k * c /\ F[k] \in Seq(T) /\ q[j] \in Seq(T) /\ Len(q[j]) = c
      BY <1>0, <1>5, <1>8, <3>2
    <3>4. F[j] = F[k] \o q[j]
      BY <1>5, <3>2
    <3>5. Len(F[j]) = k * c + c
      <4>1. PICK x, y : x = F[k] /\ y = q[j]
        OBVIOUS
      <4>2. x \in Seq(T) /\ y \in Seq(T) /\ Len(x) = k * c /\ Len(y) = c
        BY <3>3, <4>1
      <4>3. Len(x \o y) = Len(x) + Len(y)
        BY <4>2, ConcatProperties
      <4> QED
        BY <3>4, <4>1, <4>2, <4>3
    <3>6. (k + 1) * c = k * c + c
      BY <1>0, <2>1
    <3> QED
      BY <3>1, <3>5, <3>6
  <2> QED
    BY <2>1, <2>2
<1> HIDE DEF S
<1>9. S \in SUBSET Nat
  BY DEF S
<1>10. S = Nat
  BY <1>7, <1>8, <1>9, AllNaturals
<1>11. Len(F[N]) = N * c
  BY <1>0, <1>10 DEF S
<1>12. N \in 0 .. N
  BY <1>0
<1> QED
  BY <1>5, <1>6, <1>11, <1>12 DEF Joined

(* The events of one thread of mt_counter. *)
CounterThread(q, n) ==
  /\ Len(q) = n /\ AllAre(q, "C", "Counter")
  /\ monotonic(Instants(q))
  /\ n > 0 => get_diffs(Instants(q)) \in Seq(Int) /\ Len(get_diffs(Instants(q))) = n - 1

LEMMA CounterRecorded ==
  ASSUME NEW prog, prog = "mt_counter", NEW t, NEW q, NEW n, NEW upto, Recorded(prog, t, q, n, upto)
  PROVE  CounterThread(q, n)
<1>1. PICK s : Timed(prog, s, upto) /\ Len(s) = n /\ Laid(prog, t, s, q)
  BY DEF Recorded
<1>2. s \in Seq(Moment) /\ n \in Nat /\ \A k \in 1 .. n : s[k] \in Moment
  BY <1>1 DEF Timed
<1>3. prog \in Programs /\ ~InPairs(prog)
  BY DEF Programs, InPairs
<1>4. Len(q) = n /\ DOMAIN q = 1 .. n
      /\ \A k \in 1 .. n : IsEvt(q[k], "C", "Counter", s[k].a, 0) /\ Ended(prog, s[k]) = s[k].a
  <2>1. Len(q) = n /\ DOMAIN q = 1 .. n
        /\ \A k \in 1 .. n : q[k] = Marked(prog, t, s[k])[1]
    BY <1>1, <1>2, <1>3 DEF Laid
  <2> QED
    BY <1>2, <2>1, CounterMark
<1>5. SpansOK(Spans(prog, s), n)
  BY <1>1, <1>3, SpansOf
<1>6. Instants(q) = Spans(prog, s)
  <2>1. \A k \in 1 .. n : q[k].ts = s[k].a
    BY <1>4 DEF IsEvt
  <2> QED
    BY <1>1, <1>4, <2>1 DEF Instants, Spans
<1>7. AllAre(q, "C", "Counter")
  BY <1>4 DEF AllAre, IsEvt
<1> QED
  BY <1>4, <1>5, <1>6, <1>7 DEF CounterThread, SpansOK

LEMMA CounterVerdict ==
  ASSUME NEW prog, prog = "mt_counter", num_threads \in Nat \ {0}, NEW events \in Seq(Event),
         \A k \in DOMAIN events : events[k].tid \in Tid, AllAre(events, "C", "Counter"),
         NEW n, NEW upto, n > 0, \A t \in Tid : Recorded(prog, t, OfThread(events, t), n, upto)
  PROVE  Verdict(prog, events, n, Cardinality(Tid) * (n - 1))
<1>1. 0 \in Tid /\ Tid \in SUBSET Nat /\ IsFiniteSet(Tid)
  BY Threads
<1>2. prog \in Programs
  BY DEF Programs
<1>3. \A t \in Tid : CounterThread(OfThread(events, t), n)
  BY CounterRecorded
<1>4. n \in Nat
  BY <1>1, <1>2, RecordedTid
<1>5. Tids(events) = Tid
  <2>1. Tids(events) \subseteq Tid
    BY DEF Tids
  <2>2. ASSUME NEW t \in Tid, t \notin Tids(events) PROVE FALSE
    <3>1. \A k \in DOMAIN events : events[k].tid # t
      BY <2>2 DEF Tids
    <3>2. OfThread(events, t) = <<>>
      BY <3>1, OfNoThread
    <3>3. Len(OfThread(events, t)) = n
      BY <1>3 DEF CounterThread
    <3> QED
      BY <1>4, <3>2, <3>3, EmptySeq
  <2> QED
    BY <2>1, <2>2
<1>6. Required(prog, events) <=> n >= 2
  <2>1. Required(prog, events) <=> CounterRequired(events)
    BY DEF Required
  <2>2. \A t \in Tid : monotonic(Instants(OfThread(events, t))) /\ Len(OfThread(events, t)) = n
    BY <1>3 DEF CounterThread
  <2>3. n > 1 <=> n >= 2
    BY <1>4
  <2> QED
    BY <1>1, <1>5, <2>1, <2>2, <2>3 DEF CounterRequired
<1>7. PICK N, tids : N = Cardinality(Tid) /\ tids = SetToSeq(Tid)
  OBVIOUS
<1>8. N \in Nat /\ N # 0 /\ tids \in [1 .. N -> Tid]
  <2>1. N \in Nat /\ tids \in [1 .. N -> Tid]
    BY <1>1, <1>7, FS_CardinalityType, SetToSeqIs
  <2>2. N # 0
    BY <1>1, <1>7, FS_EmptySet
  <2> QED
    BY <2>1, <2>2
<1>9. PICK q : q = [k \in 1 .. N |-> get_diffs(Instants(OfThread(events, tids[k])))]
  OBVIOUS
<1>10. q \in [1 .. N -> Seq(Int)] /\ (\A k \in 1 .. N : Len(q[k]) = n - 1) /\ n - 1 \in Nat
  BY <1>3, <1>4, <1>8, <1>9 DEF CounterThread
<1>11. Values(prog, events) = <<FlattenSeq(q)>>
  <2>1. Values(prog, events) = CounterValues(events)
    BY DEF Values
  <2>2. DOMAIN tids = 1 .. N
    BY <1>8
  <2> QED
    BY <1>5, <1>7, <1>9, <2>1, <2>2 DEF CounterValues
<1>12. PICK flat : flat = FlattenSeq(q)
  OBVIOUS
<1>13. flat \in Seq(Int) /\ Len(flat) = N * (n - 1)
  <2>1. PICK c : c = n - 1
    OBVIOUS
  <2>2. c \in Nat /\ \A k \in 1 .. N : Len(q[k]) = c
    BY <1>10, <2>1
  <2>3. OfOneLength(Int, N, c, q)
    BY <1>8, <1>10, <2>2 DEF OfOneLength
  <2>4. Joined(Int, N, c, flat)
    BY <1>12, <2>3, FlattenedLen
  <2> QED
    BY <2>1, <2>4 DEF Joined
<1>14. n >= 2 => Reportable(<<flat>>, N * (n - 1))
  <2>1. n >= 2 => N * (n - 1) # 0
    BY <1>4, <1>8
  <2>2. n >= 2 => flat # <<>>
    BY <1>13, <2>1, EmptySeq
  <2> QED
    BY <1>13, <2>2 DEF Reportable
<1> QED
  BY <1>4, <1>6, <1>7, <1>11, <1>12, <1>14 DEF Verdict

-----------------------------------------------------------------------------
(* What a thread has recorded is first in its list, then in the sink.      *)
Drained(t) == at[t] \notin BeforeFlush

TraceType ==
  /\ benchmark \in Programs /\ num_iters \in Nat /\ traced \in BOOLEAN
  /\ clock \in Nat
  /\ iter \in [Tid -> Nat]
  /\ list \in [Tid -> Seq(Event)] /\ seen \in [Tid -> Seq(Event)] /\ sink \in Seq(Event)

IterOK ==
  \A t \in Tid : /\ iter[t] <= num_iters
                 /\ at[t] \in BeforeReserve => iter[t] = 0
                 /\ at[t] \notin BeforeStop => iter[t] = num_iters

RecordedOK ==
  traced => \A t \in Tid :
    /\ ~Drained(t) => Recorded(benchmark, t, list[t], iter[t], clock)
    /\ Drained(t) => Recorded(benchmark, t, OfThread(sink, t), num_iters, clock)

SinkOK ==
  /\ \A k \in DOMAIN sink : sink[k].tid \in Tid /\ Drained(sink[k].tid)
  /\ benchmark = "mt_counter" => AllAre(sink, "C", "Counter")

(* A sink without a lock is one thread's alone. *)
LinkOK == \A t \in Tid : at[t] = "link" => Tid = {0} /\ seen[t] = sink

(* Nothing is marked by a program that is built without, or iterates never. *)
BareOK == ~traced \/ num_iters = 0 => sink = <<>> /\ \A t \in Tid : list[t] = <<>>

TraceInv == TraceType /\ IterOK /\ RecordedOK /\ SinkOK /\ LinkOK /\ BareOK

(* Steps that touch no event. *)
LEMMA Steady ==
  ASSUME TraceInv, UNCHANGED <<args, iter, clock, list, sink, seen>>,
         \A t \in Tid :
           /\ at'[t] \in BeforeFlush <=> at[t] \in BeforeFlush
           /\ at'[t] = "link" => at[t] = "link"
           /\ at'[t] \in BeforeReserve => at[t] \in BeforeReserve
           /\ at'[t] \notin BeforeStop => at[t] \notin BeforeStop \/ iter[t] = num_iters
  PROVE  TraceInv'
<1>1. TraceType /\ IterOK /\ RecordedOK /\ SinkOK /\ LinkOK /\ BareOK
  BY DEF TraceInv
<1>2. /\ Tid' = Tid /\ benchmark' = benchmark /\ num_iters' = num_iters
      /\ traced' = traced /\ iter' = iter /\ clock' = clock /\ list' = list
      /\ sink' = sink /\ seen' = seen
  BY SameThreads DEF args
<1>3. \A t \in Tid : Drained(t)' <=> Drained(t)
  BY DEF Drained
<1>4. TraceType' /\ IterOK'
  BY <1>1, <1>2 DEF TraceType, IterOK
<1>5. RecordedOK'
  BY <1>1, <1>2, <1>3 DEF RecordedOK
<1>6. SinkOK'
  BY <1>1, <1>2, <1>3 DEF SinkOK
<1>7. LinkOK' /\ BareOK'
  BY <1>1, <1>2 DEF LinkOK, BareOK
<1> QED
  BY <1>4, <1>5, <1>6, <1>7 DEF TraceInv

LEMMA SteadyMoves ==
  ASSUME RInv, TraceInv, UNCHANGED <<args, iter, clock, list, sink, seen>>,
         NEW t \in Tid, NEW place, at' = [at EXCEPT ![t] = place],
         place \in BeforeFlush <=> at[t] \in BeforeFlush,
         place # "link", place \notin BeforeReserve,
         place \notin BeforeStop => at[t] \notin BeforeStop \/ iter[t] = num_iters
  PROVE  TraceInv'
<1>1. at \in [Tid -> Place]
  BY DEF RInv, Type
<1>2. \A u \in Tid : at'[u] = IF u = t THEN place ELSE at[u]
  BY <1>1
<1> QED
  BY <1>2, Steady

LEMMA InitTrace ==
  ASSUME Init
  PROVE  TraceInv
<1>1. benchmark \in Programs /\ num_iters \in Nat /\ num_threads \in Nat \ {0}
  BY RunAssumption DEF Init, Programs
<1>2. <<>> \in Seq(Event) /\ 0 \in Nat
  OBVIOUS
<1>3. TraceType
  BY <1>1, <1>2 DEF Init, TraceType
<1>4. \A t \in Tid : at[t] \in BeforeReserve /\ iter[t] = 0 /\ list[t] = <<>>
  BY DEF Init, BeforeReserve
<1>5. IterOK
  BY <1>1, <1>4 DEF IterOK, BeforeStop
<1>6. RecordedOK
  BY <1>4, RecordedNone DEF RecordedOK, Drained, BeforeStop, BeforeFlush
<1>7. DOMAIN sink = {} /\ sink = <<>>
  BY EmptySeq DEF Init
<1>8. SinkOK
  BY <1>7 DEF SinkOK, AllAre
<1>9. LinkOK
  BY <1>4 DEF LinkOK, BeforeReserve
<1>10. BareOK
  BY <1>4, <1>7 DEF BareOK
<1> QED
  BY <1>3, <1>5, <1>6, <1>8, <1>9, <1>10 DEF TraceInv

(* One more iteration. *)
LEMMA IterateStep ==
  ASSUME RInv, TraceInv, NEW t \in Tid, Iterate(t)
  PROVE  TraceInv'
<1>1. TraceType /\ IterOK /\ RecordedOK /\ SinkOK /\ LinkOK /\ BareOK
  BY DEF TraceInv
<1>2. /\ Tid' = Tid /\ benchmark' = benchmark /\ num_iters' = num_iters
      /\ traced' = traced /\ at' = at /\ sink' = sink /\ seen' = seen
      /\ at[t] = "iterate" /\ iter[t] < num_iters
      /\ iter' = [iter EXCEPT ![t] = @ + 1]
  BY SameThreads DEF Iterate, args
<1>3. /\ \A u \in Tid : iter'[u] = IF u = t THEN iter[t] + 1 ELSE iter[u]
      /\ iter[t] \in Nat /\ iter' \in [Tid -> Nat] /\ t \in Nat
  BY <1>1, <1>2, Threads DEF TraceType, RInv, Type
<1>4. \A u \in Tid : Drained(u)' <=> Drained(u)
  BY <1>2 DEF Drained
<1>5. ~Drained(t) /\ at[t] \in BeforeStop /\ at[t] \notin BeforeReserve
  BY <1>2 DEF Drained, BeforeStop, BeforeFlush, BeforeReserve
<1>6. IterOK'
  <2>1. iter[t] + 1 <= num_iters
    BY <1>1, <1>2, <1>3 DEF TraceType
  <2>2. \A u \in Tid : /\ iter'[u] <= num_iters
                       /\ at[u] \in BeforeReserve => iter'[u] = 0
                       /\ at[u] \notin BeforeStop => iter'[u] = num_iters
    BY <1>1, <1>3, <1>5, <2>1 DEF IterOK
  <2> QED
    BY <1>2, <2>2 DEF IterOK
<1>7. SinkOK' /\ LinkOK'
  BY <1>1, <1>2, <1>4 DEF SinkOK, LinkOK
<1>8. CASE ~traced
  <2>1. list' = list /\ clock' = clock
    BY <1>8 DEF Iterate
  <2>2. TraceType' /\ BareOK' /\ RecordedOK'
    BY <1>1, <1>2, <1>3, <1>8, <2>1 DEF TraceType, BareOK, RecordedOK
  <2> QED
    BY <1>6, <1>7, <2>2 DEF TraceInv
<1>9. CASE traced
  <2>1. PICK a \in clock .. clock + 1 : \E b \in a .. a + 1 : \E c \in b .. b + 1 :
          LET marked == Iteration(benchmark, t, a, b, c)
          IN  /\ list' = [list EXCEPT ![t] = @ \o marked]
              /\ clock' = Last(marked).ts + Last(marked).dur
    BY <1>9 DEF Iterate
  <2>15. PICK b \in a .. a + 1 : \E c \in b .. b + 1 :
          LET marked == Iteration(benchmark, t, a, b, c)
          IN  /\ list' = [list EXCEPT ![t] = @ \o marked]
              /\ clock' = Last(marked).ts + Last(marked).dur
    BY <2>1
  <2>2. PICK c \in b .. b + 1 :
          LET marked == Iteration(benchmark, t, a, b, c)
          IN  /\ list' = [list EXCEPT ![t] = @ \o marked]
              /\ clock' = Last(marked).ts + Last(marked).dur
    BY <2>15
  <2>3. /\ clock \in Nat /\ a \in Nat /\ b \in Nat /\ c \in Nat
        /\ clock <= a /\ a <= b /\ b <= c
    BY <1>1 DEF TraceType
  <2>4. PICK m : m = [a |-> a, b |-> b, c |-> c]
    OBVIOUS
  <2>5. m \in Moment /\ m.a = a /\ m.b = b /\ m.c = c
    BY <2>3, <2>4 DEF Moment
  <2>6. PICK marked : marked = Marked(benchmark, t, m)
    OBVIOUS
  <2>7. marked = Iteration(benchmark, t, a, b, c)
    BY <2>5, <2>6 DEF Marked
  <2>8. /\ list' = [list EXCEPT ![t] = list[t] \o marked]
        /\ clock' = Last(marked).ts + Last(marked).dur
    BY <2>2, <2>7
  <2>9. /\ marked \in Seq(Event) /\ clock' = Ended(benchmark, m)
        /\ clock' \in Nat /\ clock <= clock'
    <3>1. /\ marked \in Seq(Event)
          /\ Last(marked).ts + Last(marked).dur = Ended(benchmark, m)
          /\ Ended(benchmark, m) \in Nat /\ m.a <= Ended(benchmark, m)
      BY <1>1, <1>3, <2>5, <2>6, MarkedIs DEF TraceType
    <3> QED
      BY <2>3, <2>5, <2>8, <3>1
  <2>10. /\ \A u \in Tid : list'[u] = IF u = t THEN list[t] \o marked ELSE list[u]
         /\ list[t] \in Seq(Event) /\ list[t] \o marked \in Seq(Event)
    BY <1>1, <2>8, <2>9, ConcatProperties DEF TraceType
  <2>11. list' \in [Tid -> Seq(Event)]
    BY <1>1, <2>8, <2>10 DEF TraceType
  <2>12. TraceType' /\ BareOK'
    <3>1. num_iters # 0
      BY <1>1, <1>2, <1>3 DEF TraceType
    <3> QED
      BY <1>1, <1>2, <1>3, <1>9, <2>9, <2>11, <3>1 DEF TraceType, BareOK
  <2>13. Recorded(benchmark, t, list[t] \o marked, iter[t] + 1, clock')
    <3>1. Recorded(benchmark, t, list[t], iter[t], clock)
      BY <1>1, <1>5, <1>9 DEF RecordedOK
    <3>2. clock <= m.a /\ benchmark \in Programs
      BY <1>1, <2>3, <2>5 DEF TraceType
    <3>3. Recorded(benchmark, t, list[t] \o Marked(benchmark, t, m), iter[t] + 1,
                   Ended(benchmark, m))
      BY <1>3, <2>3, <2>5, <3>1, <3>2, RecordedMore
    <3> QED
      BY <2>6, <2>9, <3>3
  <2>14. RecordedOK'
    <3>1. ASSUME NEW u \in Tid, ~Drained(u)
          PROVE  Recorded(benchmark, u, list'[u], iter'[u], clock')
      <4>1. CASE u = t
        BY <1>3, <2>10, <2>13, <4>1
      <4>2. CASE u # t
        <5>1. Recorded(benchmark, u, list[u], iter[u], clock)
          BY <1>1, <1>9, <3>1 DEF RecordedOK
        <5>2. list'[u] = list[u] /\ iter'[u] = iter[u]
          BY <1>3, <2>10, <4>2
        <5> QED
          BY <1>1, <2>9, <5>1, <5>2, RecordedLater DEF TraceType
      <4> QED
        BY <4>1, <4>2
    <3>2. ASSUME NEW u \in Tid, Drained(u)
          PROVE  Recorded(benchmark, u, OfThread(sink, u), num_iters, clock')
      <4>1. Recorded(benchmark, u, OfThread(sink, u), num_iters, clock)
        BY <1>1, <1>9, <3>2 DEF RecordedOK
      <4> QED
        BY <1>1, <2>9, <4>1, RecordedLater DEF TraceType
    <3> QED
      BY <1>2, <1>4, <3>1, <3>2 DEF RecordedOK
  <2> QED
    BY <1>6, <1>7, <2>12, <2>14 DEF TraceInv
<1> QED
  BY <1>8, <1>9

(* A thread finds the sink without a lock, which no other thread uses. *)
LEMMA LinkStep ==
  ASSUME RInv, TraceInv, NEW t \in Tid, at[t] = "flush", ~SinkIsThreadSafe,
         seen' = [seen EXCEPT ![t] = sink], at' = [at EXCEPT ![t] = "link"],
         UNCHANGED <<args, iter, clock, list, sink>>
  PROVE  TraceInv'
<1>1. TraceType /\ IterOK /\ RecordedOK /\ SinkOK /\ LinkOK /\ BareOK
  BY DEF TraceInv
<1>2. /\ Tid' = Tid /\ benchmark' = benchmark /\ num_iters' = num_iters
      /\ traced' = traced /\ iter' = iter /\ clock' = clock /\ list' = list /\ sink' = sink
  BY SameThreads DEF args
<1>3. \A u \in Tid : at'[u] = IF u = t THEN "link" ELSE at[u]
  BY DEF RInv, Type
<1>4. at[t] \in BeforeFlush /\ "link" \in BeforeFlush
      /\ at[t] \notin BeforeStop /\ "link" \notin BeforeStop /\ "link" \notin BeforeReserve
  BY DEF BeforeFlush, BeforeStop, BeforeReserve
<1>5. \A u \in Tid : Drained(u)' <=> Drained(u)
  BY <1>3, <1>4 DEF Drained
<1>6. Tid = {0}
  <2>1. num_threads = 1
    BY DEF SinkIsThreadSafe, RInv, Type
  <2>2. 0 .. 1 - 1 = {0}
    OBVIOUS
  <2> QED
    BY <2>1, <2>2 DEF Tid
<1>7. TraceType' /\ IterOK'
  BY <1>1, <1>2, <1>3, <1>4 DEF TraceType, IterOK
<1>8. RecordedOK' /\ BareOK'
  BY <1>1, <1>2, <1>5 DEF RecordedOK, BareOK
<1>9. SinkOK'
  BY <1>1, <1>2, <1>5 DEF SinkOK
<1>10. LinkOK'
  BY <1>1, <1>2, <1>6 DEF LinkOK, TraceType
<1> QED
  BY <1>7, <1>8, <1>9, <1>10 DEF TraceInv

(* The events of a thread's list go to the end of the sink. *)
LEMMA DrainStep ==
  ASSUME RInv, TraceInv, NEW t \in Tid, at[t] \in {"flush", "link"}, Drain(t, sink),
         UNCHANGED <<args, iter, clock, seen>>
  PROVE  TraceInv'
<1>1. TraceType /\ IterOK /\ RecordedOK /\ SinkOK /\ LinkOK /\ BareOK
  BY DEF TraceInv
<1>2. /\ Tid' = Tid /\ benchmark' = benchmark /\ num_iters' = num_iters
      /\ traced' = traced /\ iter' = iter /\ clock' = clock /\ seen' = seen
      /\ sink' = sink \o list[t] /\ list' = [list EXCEPT ![t] = <<>>]
  BY SameThreads DEF args, Drain
<1>3. PICK place : place \in {"join", "exit"} /\ at' = [at EXCEPT ![t] = place]
  BY DEF Drain, Goto
<1>4. \A u \in Tid : /\ at'[u] = (IF u = t THEN place ELSE at[u])
                     /\ list'[u] = (IF u = t THEN <<>> ELSE list[u])
  BY <1>1, <1>2, <1>3 DEF RInv, Type, TraceType
<1>5. /\ place \notin BeforeFlush /\ place \notin BeforeStop /\ place \notin BeforeReserve
      /\ at[t] \notin BeforeStop /\ at[t] \in BeforeFlush /\ place # "link"
  BY <1>3 DEF BeforeFlush, BeforeStop, BeforeReserve
<1>6. /\ ~Drained(t) /\ Drained(t)'
      /\ \A u \in Tid : u # t => (Drained(u)' <=> Drained(u))
  BY <1>4, <1>5 DEF Drained
<1>7. PICK more : more = list[t]
  OBVIOUS
<1>8. more \in Seq(Event) /\ sink \in Seq(Event) /\ sink' = sink \o more /\ iter[t] = num_iters
      /\ t \in Nat /\ benchmark \in Programs
  BY <1>1, <1>2, <1>5, <1>7, Threads DEF TraceType, IterOK, RInv, Type
<1>9. /\ \A k \in DOMAIN more : more[k].tid = t
      /\ benchmark = "mt_counter" => AllAre(more, "C", "Counter")
      /\ traced => Recorded(benchmark, t, more, num_iters, clock)
  <2>1. CASE ~traced
    <3>1. more = <<>>
      BY <1>1, <1>7, <2>1 DEF BareOK
    <3>2. DOMAIN more = {}
      BY <3>1, EmptySeq
    <3> QED
      BY <2>1, <3>2 DEF AllAre
  <2>2. CASE traced
    <3>1. Recorded(benchmark, t, more, num_iters, clock)
      BY <1>1, <1>6, <1>7, <1>8, <2>2 DEF RecordedOK
    <3>2. \A k \in DOMAIN more : more[k].tid = t
      BY <1>8, <3>1, RecordedTid
    <3>3. benchmark = "mt_counter" => AllAre(more, "C", "Counter")
      BY <3>1, CounterRecorded DEF CounterThread
    <3> QED
      BY <3>1, <3>2, <3>3
  <2> QED
    BY <2>1, <2>2
<1>10. /\ sink' \in Seq(Event)
       /\ \A k \in DOMAIN sink' : \/ k \in DOMAIN sink /\ sink'[k] = sink[k]
                                  \/ \E j \in DOMAIN more : sink'[k] = more[j]
  <2>1. /\ sink' \in Seq(Event) /\ Len(sink') = Len(sink) + Len(more)
        /\ \A k \in 1 .. Len(sink) + Len(more) :
             sink'[k] = IF k <= Len(sink) THEN sink[k] ELSE more[k - Len(sink)]
    BY <1>8, ConcatProperties
  <2>2. ASSUME NEW k \in DOMAIN sink'
        PROVE  \/ k \in DOMAIN sink /\ sink'[k] = sink[k]
               \/ \E j \in DOMAIN more : sink'[k] = more[j]
    <3>1. k \in 1 .. Len(sink) + Len(more) /\ Len(sink) \in Nat /\ Len(more) \in Nat
      BY <1>8, <2>1
    <3>2. CASE k <= Len(sink)
      BY <1>8, <2>1, <3>1, <3>2
    <3>3. CASE ~(k <= Len(sink))
      <4>1. k - Len(sink) \in DOMAIN more
        BY <1>8, <3>1, <3>3
      <4> QED
        BY <2>1, <3>1, <3>3, <4>1
    <3> QED
      BY <3>2, <3>3
  <2> QED
    BY <2>1, <2>2
<1>11. TraceType'
  <2>1. list' \in [Tid -> Seq(Event)]
    BY <1>1, <1>2 DEF TraceType
  <2> QED
    BY <1>1, <1>2, <1>10, <2>1 DEF TraceType
<1>12. IterOK'
  BY <1>1, <1>2, <1>4, <1>5 DEF IterOK
<1>13. SinkOK'
  <2>3. \A u \in Tid : u = t \/ Drained(u) => at'[u] \notin BeforeFlush
    BY <1>6 DEF Drained
  <2>1. ASSUME NEW k \in DOMAIN sink'
        PROVE  sink'[k].tid \in Tid /\ at'[sink'[k].tid] \notin BeforeFlush
    <3>1. CASE k \in DOMAIN sink /\ sink'[k] = sink[k]
      BY <1>1, <2>3, <3>1 DEF SinkOK
    <3>2. CASE \E j \in DOMAIN more : sink'[k] = more[j]
      BY <1>9, <2>3, <3>2
    <3> QED
      BY <1>10, <3>1, <3>2
  <2>2. benchmark = "mt_counter" => AllAre(sink', "C", "Counter")
    BY <1>1, <1>9, <1>10 DEF SinkOK, AllAre
  <2> QED
    BY <1>2, <2>1, <2>2 DEF SinkOK, Drained
<1>14. RecordedOK'
  <2>1. ASSUME traced, NEW u \in Tid, ~Drained(u)'
        PROVE  Recorded(benchmark, u, list'[u], iter[u], clock)
    BY <1>1, <1>4, <1>6, <2>1 DEF RecordedOK
  <2>2. ASSUME traced, NEW u \in Tid, Drained(u)'
        PROVE  Recorded(benchmark, u, OfThread(sink', u), num_iters, clock)
    <3>1. OfThread(sink \o more, u) =
            IF u = t THEN OfThread(sink, u) \o more ELSE OfThread(sink, u)
      <4>1. AddsOfThread(sink, more, t, u)
        BY <1>8, <1>9, OfThreadConcat, Zenon
      <4> QED
        BY <4>1 DEF AddsOfThread
    <3>2. CASE u = t
      <4>1. \A k \in DOMAIN sink : sink[k].tid # t
        BY <1>1, <1>6 DEF SinkOK
      <4>2. OfThread(sink, t) = <<>>
        BY <1>8, <4>1, OfNoThread
      <4>3. <<>> \o more = more
        BY <1>8, ConcatEmptySeq
      <4>4. OfThread(sink', u) = more
        BY <1>8, <3>1, <3>2, <4>2, <4>3
      <4> QED
        BY <1>9, <2>2, <3>2, <4>4
    <3>3. CASE u # t
      <4>1. Drained(u)
        BY <1>6, <2>2, <3>3
      <4> QED
        BY <1>1, <1>8, <2>2, <3>1, <3>3, <4>1 DEF RecordedOK
    <3> QED
      BY <3>2, <3>3
  <2> QED
    BY <1>2, <2>1, <2>2 DEF RecordedOK
<1>15. LinkOK'
  <2>1. ASSUME NEW u \in Tid, at'[u] = "link" PROVE FALSE
    <3>1. u # t /\ at[u] = "link"
      BY <1>4, <1>5, <2>1
    <3>2. Tid = {0}
      BY <1>1, <3>1 DEF LinkOK
    <3> QED
      BY <3>1, <3>2
  <2> QED
    BY <1>2, <2>1 DEF LinkOK
<1>16. BareOK'
  <2>1. ASSUME ~traced \/ num_iters = 0 PROVE sink' = <<>> /\ \A u \in Tid : list'[u] = <<>>
    <3>1. sink = <<>> /\ more = <<>> /\ \A u \in Tid : list[u] = <<>>
      BY <1>1, <1>7, <2>1 DEF BareOK
    <3>2. sink \o more = <<>>
      BY <1>8, <3>1, ConcatEmptySeq
    <3> QED
      BY <1>4, <1>8, <3>1, <3>2
  <2> QED
    BY <1>2, <2>1 DEF BareOK
<1> QED
  BY <1>11, <1>12, <1>13, <1>14, <1>15, <1>16 DEF TraceInv

-----------------------------------------------------------------------------
LEMMA SpawnTrace ==
  ASSUME RInv, TraceInv, SpawnWorkers
  PROVE  TraceInv'
<1>1. /\ UNCHANGED <<args, iter, clock, list, sink, seen>>
      /\ at[0] = "spawn" /\ \A t \in Tid : at'[t] = "reserve"
  BY DEF SpawnWorkers
<1>2. \A t \in Tid : at[t] \in {"spawn", "unborn"}
  BY <1>1 DEF RInv, MainOK, Workers
<1>3. /\ {"reserve", "spawn", "unborn"} \subseteq BeforeReserve
      /\ BeforeReserve \subseteq BeforeStop /\ BeforeStop \subseteq BeforeFlush
  BY DEF BeforeReserve, BeforeStop, BeforeFlush
<1>4. \A t \in Tid : /\ at[t] \in BeforeReserve /\ at'[t] \in BeforeReserve
                     /\ at'[t] # "link"
  BY <1>1, <1>2, <1>3
<1> QED
  BY <1>1, <1>3, <1>4, Steady

LEMMA FlushTrace ==
  ASSUME RInv, TraceInv, NEW t \in Tid, thread_flush(t)
  PROVE  TraceInv'
<1>1. UNCHANGED <<args, iter, clock>>
  BY DEF thread_flush
<1>2. CASE at[t] = "flush" /\ SinkIsThreadSafe /\ Drain(t, sink) /\ UNCHANGED seen
  BY <1>1, <1>2, DrainStep
<1>3. CASE /\ at[t] = "flush" /\ ~SinkIsThreadSafe
           /\ seen' = [seen EXCEPT ![t] = sink]
           /\ Goto(t, "link") /\ UNCHANGED <<sink, list, meta>>
  BY <1>1, <1>3, LinkStep DEF Goto
<1>4. CASE at[t] = "link" /\ Drain(t, seen[t]) /\ UNCHANGED seen
  <2>1. seen[t] = sink
    BY <1>4 DEF TraceInv, LinkOK
  <2> QED
    BY <1>1, <1>4, <2>1, DrainStep
<1> QED
  BY <1>2, <1>3, <1>4 DEF thread_flush

LEMMA TraceStep ==
  ASSUME RInv, TraceInv, Next
  PROVE  TraceInv'
<1>1. 0 \in Tid
  BY Threads DEF RInv, Type
<1>2. /\ "iterate" \in BeforeStop /\ "iterate" \in BeforeFlush /\ "iterate" \notin BeforeReserve
      /\ "reserve" \in BeforeFlush
      /\ "flush" \in BeforeFlush /\ "flush" \notin BeforeReserve
      /\ \A place \in {"join", "exit"} \cup AfterJoin :
           place \notin BeforeFlush /\ place \notin BeforeStop /\ place \notin BeforeReserve
  BY DEF BeforeReserve, BeforeStop, BeforeFlush, AfterJoin
<1>3. "global_flush" \in AfterJoin /\ "return" \in AfterJoin /\ "gone" \in AfterJoin
  BY DEF AfterJoin
<1>4. ASSUME NEW t \in Tid, thread_reserve(t) PROVE TraceInv'
  <2>1. /\ UNCHANGED <<args, iter, clock, list, sink, seen>>
        /\ at[t] = "reserve" /\ at' = [at EXCEPT ![t] = "iterate"]
    BY <1>4 DEF thread_reserve, Goto
  <2> QED
    BY <1>2, <2>1, SteadyMoves
<1>5. ASSUME NEW t \in Tid, StopIterating(t) PROVE TraceInv'
  <2>1. /\ UNCHANGED <<args, iter, clock, list, sink, seen>>
        /\ at[t] = "iterate" /\ iter[t] = num_iters /\ at' = [at EXCEPT ![t] = "flush"]
    BY <1>5 DEF StopIterating, Goto
  <2> QED
    BY <1>2, <2>1, SteadyMoves
<1>6. ASSUME NEW t \in Tid, ExitThread(t) PROVE TraceInv'
  <2>1. /\ UNCHANGED <<args, iter, clock, list, sink, seen>>
        /\ at[t] = "exit" /\ at' = [at EXCEPT ![t] = "gone"]
    BY <1>6 DEF ExitThread, Goto
  <2> QED
    BY <1>2, <1>3, <2>1, SteadyMoves
<1>7. CASE global_flush_target
  <2>1. /\ UNCHANGED <<args, iter, clock, list, sink, seen>>
        /\ at[0] = "join" /\ at' = [at EXCEPT ![0] = "global_flush"]
    BY <1>7 DEF global_flush_target, Goto
  <2> QED
    BY <1>1, <1>2, <1>3, <2>1, SteadyMoves
<1>8. CASE global_flush
  <2>1. /\ UNCHANGED <<args, iter, clock, list, sink, seen>>
        /\ at[0] = "global_flush" /\ at' = [at EXCEPT ![0] = "return"]
    BY <1>8 DEF global_flush, Goto
  <2> QED
    BY <1>1, <1>2, <1>3, <2>1, SteadyMoves
<1>9. CASE ReturnFromMain
  <2>1. /\ UNCHANGED <<args, iter, clock, list, sink, seen>>
        /\ at[0] = "return" /\ at' = [at EXCEPT ![0] = "exit"]
    BY <1>9 DEF ReturnFromMain, Goto
  <2> QED
    BY <1>1, <1>2, <1>3, <2>1, SteadyMoves
<1>10. CASE WriteMetaFile \/ process_benchmark
  <2>1. UNCHANGED <<args, at, iter, clock, list, sink, seen>>
    BY <1>10 DEF WriteMetaFile, process_benchmark
  <2> QED
    BY <2>1, Steady
<1> QED
  BY <1>4, <1>5, <1>6, <1>7, <1>8, <1>9, <1>10, SpawnTrace, IterateStep, FlushTrace DEF Next

-----------------------------------------------------------------------------
(* What the files say when main has flushed the sink. *)
Late == {"return", "exit", "gone"}
WrittenOK ==
  /\ at[0] \in Late => results_file = IF sink # <<>> THEN sink ELSE NoFile
  /\ meta_file # NoFile => meta_file.traced = traced

LEMMA StillWritten ==
  ASSUME WrittenOK, UNCHANGED <<args, sink, results_file, meta_file>>,
         at'[0] \in Late => at[0] \in Late
  PROVE  WrittenOK'
  BY DEF WrittenOK, args

LEMMA WrittenStep ==
  ASSUME RInv, WrittenOK, Next
  PROVE  WrittenOK'
<1>1. 0 \in Tid /\ at \in [Tid -> Place]
  BY Threads DEF RInv, Type
<1>2. CASE SpawnWorkers
  <2>1. UNCHANGED <<args, sink, results_file, meta_file>> /\ at'[0] = "reserve"
    BY <1>1, <1>2 DEF SpawnWorkers, files
  <2> QED
    BY <2>1, StillWritten DEF Late
<1>3. ASSUME NEW t \in Tid, thread_reserve(t) \/ StopIterating(t) PROVE WrittenOK'
  <2>1. PICK place : place \in {"iterate", "flush"} /\ at' = [at EXCEPT ![t] = place]
    BY <1>3 DEF thread_reserve, StopIterating, Goto
  <2>2. UNCHANGED <<args, sink, results_file, meta_file>>
    BY <1>3 DEF thread_reserve, StopIterating, files
  <2> QED
    BY <1>1, <2>1, <2>2, StillWritten DEF Late
<1>4. ASSUME NEW t \in Tid, Iterate(t) PROVE WrittenOK'
  <2>1. UNCHANGED <<args, at, sink, results_file, meta_file>>
    BY <1>4 DEF Iterate, files
  <2> QED
    BY <2>1, StillWritten
<1>5. ASSUME NEW t \in Tid, thread_flush(t) PROVE WrittenOK'
  <2>1. /\ at[t] \in {"flush", "link"} /\ UNCHANGED <<args, meta_file>>
        /\ \E place \in {"link", "join", "exit"} : /\ at' = [at EXCEPT ![t] = place]
                                                   /\ t = 0 => place # "exit"
    BY <1>5 DEF thread_flush, Drain, Goto, files
  <2>2. at'[0] \notin Late
    <3>1. CASE t = 0
      BY <1>1, <2>1, <3>1 DEF Late
    <3>2. CASE t # 0
      <4>1. at[0] \notin AfterJoin
        BY <2>1, <3>2 DEF RInv, MainOK, Workers
      <4> QED
        BY <1>1, <2>1, <3>2, <4>1 DEF Late, AfterJoin
    <3> QED
      BY <3>1, <3>2
  <2> QED
    BY <2>1, <2>2 DEF WrittenOK, args
<1>6. ASSUME NEW t \in Tid, ExitThread(t) PROVE WrittenOK'
  <2>1. /\ UNCHANGED <<args, sink, results_file, meta_file>>
        /\ at[t] = "exit" /\ at' = [at EXCEPT ![t] = "gone"]
    BY <1>6 DEF ExitThread, Goto, files
  <2> QED
    BY <1>1, <2>1, StillWritten DEF Late
<1>7. CASE global_flush_target
  <2>1. /\ UNCHANGED <<args, sink, results_file, meta_file>>
        /\ at' = [at EXCEPT ![0] = "global_flush"]
    BY <1>7 DEF global_flush_target, Goto, files
  <2> QED
    BY <1>1, <2>1, StillWritten DEF Late
<1>8. CASE global_flush
  <2>1. /\ UNCHANGED <<args, sink, meta_file>>
        /\ results_file' = IF sink # <<>> THEN sink ELSE NoFile
    BY <1>8 DEF global_flush
  <2> QED
    BY <2>1 DEF WrittenOK, args
<1>9. CASE ReturnFromMain
  <2>1. /\ UNCHANGED <<args, sink, results_file, meta_file>> /\ at[0] = "return"
    BY <1>9 DEF ReturnFromMain, files
  <2> QED
    BY <2>1, StillWritten DEF Late
<1>10. CASE WriteMetaFile
  <2>1. UNCHANGED <<args, at, sink, results_file>> /\ meta_file'.traced = traced
    BY <1>10 DEF WriteMetaFile
  <2> QED
    BY <2>1 DEF WrittenOK, args
<1>11. CASE process_benchmark
  <2>1. UNCHANGED <<args, at, sink, results_file, meta_file>>
    BY <1>11 DEF process_benchmark
  <2> QED
    BY <2>1, StillWritten
<1> QED
  BY <1>2, <1>3, <1>4, <1>5, <1>6, <1>7, <1>8, <1>9, <1>10, <1>11 DEF Next

-----------------------------------------------------------------------------
(* What every program's trace is worth when all its threads have flushed.  *)
LEMMA SinkVerdict ==
  ASSUME RInv, TraceInv, traced, num_iters > 0, \A t \in Tid : Drained(t)
  PROVE  /\ sink # <<>>
         /\ Verdict(benchmark, sink, num_iters, Cardinality(Tid) * (num_iters - 1))
<1>1. TraceType /\ RecordedOK /\ SinkOK /\ num_threads \in Nat \ {0}
  BY DEF TraceInv, RInv, Type
<1>2. 0 \in Tid
  BY <1>1, Threads
<1>3. PICK q, n, upto : q = sink /\ n = num_iters /\ upto = clock
  OBVIOUS
<1>4. /\ q \in Seq(Event) /\ n \in Nat /\ n > 0 /\ upto \in Nat
      /\ \A k \in DOMAIN q : q[k].tid \in Tid
      /\ \A t \in Tid : Recorded(benchmark, t, OfThread(q, t), n, upto)
      /\ benchmark \in Programs
      /\ benchmark = "mt_counter" => AllAre(q, "C", "Counter")
  BY <1>1, <1>3 DEF TraceType, RecordedOK, SinkOK
<1>5. q # <<>>
  <2> SUFFICES ASSUME q = <<>> PROVE FALSE
    OBVIOUS
  <2>1. DOMAIN q = {}
    BY EmptySeq
  <2>2. OfThread(q, 0) = <<>>
    BY <1>4, <2>1, OfNoThread
  <2>3. 0 \in Nat /\ Recorded(benchmark, 0, <<>>, n, upto)
    BY <1>2, <1>4, <2>2
  <2>4. Len(<<>>) = IF InPairs(benchmark) THEN 2 * n ELSE n
    BY <1>4, <2>3, RecordedTid
  <2> QED
    BY <1>4, <2>4, EmptySeq
<1>6. CASE benchmark = "mt_counter"
  <2>1. Verdict(benchmark, q, n, Cardinality(Tid) * (n - 1))
    BY <1>1, <1>4, <1>6, CounterVerdict
  <2> QED
    BY <1>3, <1>5, <2>1
<1>7. CASE benchmark # "mt_counter"
  <2>1. Tid = {0}
    BY <1>7 DEF Tid
  <2>2. Cardinality(Tid) * (n - 1) = n - 1
    <3>1. Cardinality(Tid) = 1
      BY <2>1, FS_Singleton
    <3> QED
      BY <1>4, <3>1
  <2>3. \A k \in DOMAIN q : q[k].tid = 0
    BY <1>4, <2>1
  <2>4. OfThread(q, 0) = q
    BY <1>4, <2>3, OfOneThread
  <2>5. Recorded(benchmark, 0, q, n, upto)
    BY <1>2, <1>4, <2>4
  <2>6. Verdict(benchmark, q, n, n - 1)
    BY <1>4, <1>7, <2>5, InstantVerdict, GuardedVerdict, CompleteVerdict, DurationVerdict
       DEF Programs
  <2> QED
    BY <1>3, <1>5, <2>2, <2>6
<1> QED
  BY <1>6, <1>7

(* ResultsComplete of a report. *)
Sound(made, with, n, threads) ==
  /\ made.accepted <=> ~with \/ n >= 2
  /\ made.accepted /\ with =>
       \E k \in DOMAIN made.values : Len(made.values[k]) = threads * (n - 1)
  /\ made.accepted => \A k \in DOMAIN made.values : InOrder(made.values[k])

LEMMA ReportStep ==
  ASSUME RInv, TraceInv, WrittenOK, process_benchmark
  PROVE  ResultsComplete'
<1>1. PICK perfs : perfs = process_benchmark_thread_perfs(meta_file.thread_perfs)
  OBVIOUS
<1>2. PICK values, name, n, threads :
        /\ values = Values(benchmark, results_file) /\ name = benchmark
        /\ n = num_iters /\ threads = Cardinality(Tid)
  OBVIOUS
<1>3. /\ UNCHANGED args /\ meta_file # NoFile
      /\ report' =
           IF meta_file.traced # (results_file # NoFile) THEN Thrown
           ELSE IF ~meta_file.traced THEN Accepted(perfs, <<>>)
           ELSE IF ~Required(benchmark, results_file) \/ \E k \in DOMAIN values : values[k] = <<>>
                THEN Thrown
           ELSE Accepted(perfs, values)
  BY <1>1, <1>2 DEF process_benchmark
<1>4. at[0] = "gone" /\ \A t \in Tid : at[t] = "gone"
  BY <1>3 DEF RInv, FileOK, MainOK, AfterJoin, Workers
<1>5. /\ meta_file.traced = traced
      /\ results_file = IF sink # <<>> THEN sink ELSE NoFile
  BY <1>3, <1>4 DEF WrittenOK, Late
<1>6. \A t \in Tid : Drained(t)
  BY <1>4 DEF Drained, BeforeFlush, BeforeStop, BeforeReserve
<1>7. n \in Nat /\ sink \in Seq(Event) /\ (~traced \/ n = 0 => sink = <<>>)
      /\ traced \in BOOLEAN
  BY <1>2 DEF TraceInv, TraceType, BareOK
<1>8. Thrown.accepted = FALSE
  BY DEF Thrown
<1>9. \A v : Accepted(perfs, v).accepted = TRUE /\ Accepted(perfs, v).values = v
  BY DEF Accepted
<1>10. Sound(report', traced, n, threads)
  <2>1. CASE ~traced
    <3>1. report' = Accepted(perfs, <<>>)
      BY <1>3, <1>5, <1>7, <2>1
    <3>2. DOMAIN <<>> = {}
      BY EmptySeq
    <3> QED
      BY <1>9, <2>1, <3>1, <3>2 DEF Sound
  <2>2. CASE traced /\ n = 0
    <3>1. report' = Thrown
      BY <1>3, <1>5, <1>7, <2>2
    <3> QED
      BY <1>8, <2>2, <3>1 DEF Sound
  <2>3. CASE traced /\ n # 0
    <3>1. sink # <<>> /\ Verdict(name, sink, n, threads * (n - 1))
      BY <1>2, <1>6, <1>7, <2>3, SinkVerdict
    <3>2. results_file = sink /\ results_file # NoFile
      BY <1>5, <1>7, <3>1, RunAssumption
    <3>3. report' = IF ~Required(name, sink) \/ \E k \in DOMAIN values : values[k] = <<>>
                    THEN Thrown ELSE Accepted(perfs, values)
      BY <1>2, <1>3, <1>5, <2>3, <3>2
    <3>4. values = Values(name, sink)
      BY <1>2, <3>2
    <3>5. CASE n = 1
      <4>1. report' = Thrown
        BY <3>1, <3>3, <3>4, <3>5 DEF Verdict
      <4> QED
        BY <1>8, <2>3, <3>5, <4>1 DEF Sound
    <3>6. CASE n >= 2
      <4>1. Required(name, sink) /\ Reportable(values, threads * (n - 1))
        BY <3>1, <3>4, <3>6 DEF Verdict
      <4>2. report' = Accepted(perfs, values)
        BY <3>3, <4>1 DEF Reportable
      <4>3. \A k \in DOMAIN values : InOrder(values[k])
        BY <4>1, ReportInOrder DEF Reportable
      <4>4. \E k \in DOMAIN values : Len(values[k]) = threads * (n - 1)
        BY <4>1 DEF Reportable
      <4> QED
        BY <1>9, <3>6, <4>2, <4>3, <4>4 DEF Sound
    <3>7. n = 1 \/ n >= 2
      BY <1>7, <2>3
    <3> QED
      BY <3>5, <3>6, <3>7
  <2> QED
    BY <1>7, <2>1, <2>2, <2>3
<1>11. Tid' = Tid /\ traced' = traced /\ num_iters' = num_iters
  BY <1>3, SameThreads DEF args
<1> QED
  BY <1>2, <1>10, <1>11 DEF ResultsComplete, Sound

(* The invariant about the trace: a thread's events are in its list, then  *)
(* in the sink, whole and in the order of the iterations.                  *)
THEOREM TraceInvariance == Spec => [](TraceInv /\ WrittenOK)
<1>1. Init => TraceInv /\ WrittenOK
  <2>1. ASSUME Init PROVE at[0] \notin Late /\ meta_file = NoFile
    <3>1. num_threads \in Nat \ {0}
      BY <2>1, RunAssumption DEF Init
    <3> QED
      BY <2>1, <3>1, Threads DEF Init, Late
  <2> QED
    BY <2>1, InitTrace DEF WrittenOK
<1>2. RInv /\ TraceInv /\ WrittenOK /\ [Next]_vars => (TraceInv /\ WrittenOK)'
  <2> SUFFICES ASSUME RInv, TraceInv, WrittenOK, [Next]_vars
               PROVE  TraceInv' /\ WrittenOK'
    OBVIOUS
  <2>1. CASE Next
    BY <2>1, TraceStep, WrittenStep
  <2>2. CASE UNCHANGED vars
    <3>1. UNCHANGED <<args, at, iter, clock, list, sink, seen, results_file, meta_file>>
      BY <2>2 DEF vars, args
    <3> QED
      BY <3>1, Steady, StillWritten
  <2> QED
    BY <2>1, <2>2
<1> QED
  BY <1>1, <1>2, RunInvariance, PTL DEF Spec

(* What process_benchmark reports of a benchmark: it accepts a program of  *)
(* two iterations or more and counts every interval, whatever the number   *)
(* of threads and the order they ran in, and refuses one of fewer; the     *)
(* order statistics it reports are in order and bound the values.          *)
THEOREM ReportsComplete == Spec => []ResultsComplete
<1>1. Init => ResultsComplete
  BY DEF Init, ResultsComplete
<1>2. /\ RInv /\ TraceInv /\ WrittenOK /\ ResultsComplete /\ [Next]_vars
      => ResultsComplete'
  <2> SUFFICES ASSUME RInv, TraceInv, WrittenOK, ResultsComplete, [Next]_vars
               PROVE  ResultsComplete'
    OBVIOUS
  <2>1. CASE process_benchmark
    BY <2>1, ReportStep
  <2>2. CASE ~process_benchmark
    <3>1. UNCHANGED <<args, report>>
      BY <2>2 DEF Next, vars, args, files, SpawnWorkers, thread_reserve, Iterate,
         StopIterating, thread_flush, ExitThread, global_flush_target, global_flush,
         ReturnFromMain, WriteMetaFile
    <3>2. /\ Tid' = Tid /\ report' = report /\ traced' = traced /\ num_iters' = num_iters
      BY <3>1, SameThreads DEF args
    <3> QED
      BY <3>2 DEF ResultsComplete
  <2> QED
    BY <2>1, <2>2
<1> QED
  BY <1>1, <1>2, RunInvariance, TraceInvariance, PTL DEF Spec
=============================================================================
