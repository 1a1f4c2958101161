-------------------------- MODULE PostprocessingPool --------------------------
(***************************************************************************)
(* tools/large_benchmark/postprocessing: the results of benchmark runs are *)
(* read from many files, one after the other or by a pool of threads, and  *)
(* saved as one.  The main thread is worker 1 of the pool.                 *)
(***************************************************************************)
EXTENDS Integers, Sequences, FiniteSets, SequencesExt

CONSTANTS
  MaxFiles,        (* Input files there may be (a bound).                  *)
  Jobs,            (* Values of the option --jobs.                         *)
  Cores,           (* std::thread::hardware_concurrency().                 *)
  SizeT,           (* 2^w, the number of values of std::size_t.            *)
  MaxVector,       (* max_size() of a vector of threads.                   *)
  ThreadsMayFail   (* May std::thread's constructor throw?                 *)

(* A file that is skipped, one that is processed, one that cannot be. *)
Kind == {"other", "meta", "bad"}

ASSUME PoolAssumption ==
  /\ MaxFiles \in Nat /\ Jobs \subseteq Int /\ Cores \in Nat
  /\ SizeT \in Nat /\ MaxVector \in Nat /\ MaxVector < SizeT - 1
  /\ MaxFiles < MaxVector /\ Cores < MaxVector
  /\ \A j \in Jobs : j < SizeT
  /\ ThreadsMayFail \in BOOLEAN

VARIABLES
  input_files,      (* The kind of each.                                   *)
  num_jobs,
  stage,            (* What the main function does.                        *)
  at,               (* What each worker does.                              *)
  my_file_index,    (* The file each worker has, or, in a sequence, main.  *)
  next_file_index,  (* The atomic counter.                                 *)
  sub_results,      (* Results by file, each named by its file's index.    *)
  benchmarks        (* All results.                                        *)

vars == <<input_files, num_jobs, stage, at, my_file_index, next_file_index,
          sub_results, benchmarks>>
work == <<my_file_index, next_file_index, sub_results>>
input == <<input_files, num_jobs>>

NumFiles == Len(input_files)

LargerOf(a, b) == IF a < b THEN b ELSE a

(* num_ths, once the pool is used at all. *)
NumThreads ==
  CASE num_jobs = 0 -> LargerOf(Cores, 1)
    [] num_jobs < 0 -> NumFiles
    [] OTHER -> num_jobs

Worker == 1 .. LargerOf(NumThreads, 1)

Init ==
  /\ input_files \in UNION {[1 .. n -> Kind] : n \in 0 .. MaxFiles}
  /\ num_jobs \in Jobs
  /\ stage = "start"
  /\ at = [w \in Worker |-> "none"]
  /\ my_file_index = [w \in Worker |-> 0]
  /\ next_file_index = 0
  /\ sub_results = [i \in 1 .. NumFiles |-> <<>>]
  /\ benchmarks = <<>>

-----------------------------------------------------------------------------
(* One job: the main thread takes the files in order.                      *)

StartSequence ==
  /\ stage = "start" /\ num_jobs = 1
  /\ stage' = "sequence"
  /\ UNCHANGED <<input, at, work, benchmarks>>

(* What process_benchmark throws is caught by main. *)
ProcessNext ==
  /\ stage = "sequence" /\ my_file_index[1] < NumFiles
  /\ LET i == my_file_index[1] + 1 IN
       /\ my_file_index' = [my_file_index EXCEPT ![1] = i]
       /\ stage' = IF input_files[i] = "bad" THEN "failed" ELSE stage
       /\ benchmarks' = IF input_files[i] = "meta"
                          THEN Append(benchmarks, i) ELSE benchmarks
  /\ UNCHANGED <<input, at, next_file_index, sub_results>>

EndSequence ==
  /\ stage = "sequence" /\ my_file_index[1] = NumFiles
  /\ stage' = "collected"
  /\ UNCHANGED <<input, at, work, benchmarks>>

-----------------------------------------------------------------------------
(* The pool.                                                               *)

Threads == {w \in Worker \ {1} : at[w] # "none"}

(* ths.reserve(max(num_ths - 1, num_input_files)): the difference is one   *)
(* of std::size_t, and reserve throws if it is more than max_size().       *)
Reserve ==
  /\ stage = "start" /\ num_jobs # 1
  /\ LET wanted == LargerOf((NumThreads - 1) % SizeT, NumFiles) IN
       stage' = IF wanted > MaxVector THEN "failed" ELSE "spawn"
  /\ UNCHANGED <<input, at, work, benchmarks>>

MutantUnwound == "failed"

(* An exception in the main thread ends in its handler, unless it destroys *)
(* threads that were not joined.                                           *)
Unwound == IF Threads = {} THEN "failed" ELSE "terminated"

(* The loop that makes workers 2 .. num_ths. *)
Spawn ==
  /\ stage = "spawn"
  /\ \E w \in Worker \ {1} :
       /\ at[w] = "none" /\ \A v \in 2 .. w - 1 : at[v] # "none"
       /\ \/ at' = [at EXCEPT ![w] = "fetch"] /\ UNCHANGED stage
          \/ ThreadsMayFail /\ stage' = Unwound /\ UNCHANGED at
  /\ UNCHANGED <<input, work, benchmarks>>

WorkToo ==
  /\ stage = "spawn" /\ Threads = Worker \ {1}
  /\ stage' = "work"
  /\ at' = [at EXCEPT ![1] = "fetch"]
  /\ UNCHANGED <<input, work, benchmarks>>

Running == stage \notin {"failed", "terminated"}

MutantTaken(w) ==
  /\ my_file_index' = [my_file_index EXCEPT ![w] = next_file_index + 1]
  /\ next_file_index' = IF w = 1 THEN next_file_index ELSE next_file_index + 1

(* next_file_index.fetch_add(1); files are numbered from one here. *)
Taken(w) ==
  /\ my_file_index' = [my_file_index EXCEPT ![w] = next_file_index + 1]
  /\ next_file_index' = next_file_index + 1

MutantAfterFetch(w) == IF NumFiles < my_file_index'[w] THEN "fetch" ELSE "look"

AfterFetch(w) == IF NumFiles < my_file_index'[w] THEN "exited" ELSE "look"

Fetch(w) ==
  /\ Running /\ at[w] = "fetch"
  /\ Taken(w)
  /\ at' = [at EXCEPT ![w] = AfterFetch(w)]
  /\ UNCHANGED <<input, stage, sub_results, benchmarks>>

MutantAfterLook(w) ==
  IF input_files[my_file_index[w]] = "other" THEN "look" ELSE "process"

AfterLook(w) ==
  IF input_files[my_file_index[w]] = "other" THEN "fetch" ELSE "process"

(* Other files are skipped; process_benchmark begins to fill the slot of   *)
(* its file.                                                               *)
Look(w) ==
  /\ Running /\ at[w] = "look"
  /\ at' = [at EXCEPT ![w] = AfterLook(w)]
  /\ UNCHANGED <<input, stage, work, benchmarks>>

(* process_benchmark returns, or throws: out of a thread's function, which *)
(* terminates, or out of the main thread's part of the work.               *)
Process(w) ==
  LET i == my_file_index[w] IN
  /\ Running /\ at[w] = "process"
  /\ \/ /\ input_files[i] = "meta"
        /\ sub_results' = [sub_results EXCEPT ![i] = Append(@, i)]
        /\ at' = [at EXCEPT ![w] = "fetch"]
        /\ UNCHANGED stage
     \/ /\ input_files[i] = "bad"
        /\ stage' = IF w = 1 THEN Unwound ELSE "terminated"
        /\ UNCHANGED <<at, sub_results>>
  /\ UNCHANGED <<input, my_file_index, next_file_index, benchmarks>>

MutantJoined == at[1] = "exited"

(* The main thread's part of the work and the join of every thread. *)
Joined == \A w \in Worker : at[w] = "exited"

JoinAndCollect ==
  /\ stage = "work" /\ Joined
  /\ stage' = "collected"
  /\ benchmarks' = FlattenSeq(sub_results)
  /\ UNCHANGED <<input, at, work>>

-----------------------------------------------------------------------------
(* Sorting, which the order of the results does not matter to, and saving. *)
Save ==
  /\ stage = "collected"
  /\ stage' = "saved"
  /\ UNCHANGED <<input, at, work, benchmarks>>

Finished == stage \in {"saved", "failed", "terminated"}

Main ==
  \/ StartSequence \/ ProcessNext \/ EndSequence
  \/ Reserve \/ Spawn \/ WorkToo \/ JoinAndCollect \/ Save

WorkerStep(w) == Fetch(w) \/ Look(w) \/ Process(w)

Next == Main \/ \E w \in Worker : WorkerStep(w)

Spec == Init /\ [][Next]_vars

(* Threads are run by a preemptive scheduler; nothing they do waits, but   *)
(* for the join.                                                           *)
FairSpec ==
  /\ Spec
  /\ WF_vars(Main)
  /\ \A w \in 1 .. LargerOf(MaxVector, 1) : WF_vars(w \in Worker /\ WorkerStep(w))
-----------------------------------------------------------------------------
(* The types; there is no overflow of the counter, which every worker      *)
(* takes one step past the files: it is bounded by files and workers.      *)
TypeOK ==
  /\ stage \in {"start", "sequence", "spawn", "work", "collected", "saved",
                "failed", "terminated"}
  /\ at \in [Worker -> {"none", "fetch", "look", "process", "exited"}]
  /\ my_file_index \in [Worker -> Nat]
  /\ next_file_index \in 0 .. NumFiles + Cardinality(Worker)
  /\ sub_results \in [1 .. NumFiles -> Seq(1 .. NumFiles)]

(* The slots of sub_results are not protected by a mutex: no two threads   *)
(* are ever inside process_benchmark for the same file, nor does main read *)
(* the slots while one of them is.                                         *)
NoRace ==
  /\ \A v, w \in Worker : v # w /\ at[v] = "process" /\ at[w] = "process" =>
       my_file_index[v] # my_file_index[w]
  /\ stage \in {"collected", "saved"} => \A w \in Worker : at[w] # "process"

(* The results one job collects of the first files, in their order. *)
Sequential ==
  LET first[n \in 0 .. NumFiles] ==
        IF n = 0 THEN <<>>
        ELSE IF input_files[n] = "meta" THEN Append(first[n - 1], n)
        ELSE first[n - 1]
  IN  first

(* What is saved is what one job would save: the result of every file,     *)
(* once and in the files' order, whatever the number of workers and their  *)
(* speed; and nothing is saved if a file could not be processed.           *)
SameAsSequential ==
  stage = "saved" =>
    /\ \A i \in 1 .. NumFiles : input_files[i] # "bad"
    /\ benchmarks = Sequential[NumFiles]

(* The workers use variables of main by reference: none of them is alive   *)
(* when main's block is left, neither normally nor by an exception.        *)
NoWorkerOutlivesMain ==
  stage \in {"collected", "saved", "failed"} =>
    \A w \in Worker \ {1} : at[w] \in {"none", "exited"}

(* The program ends, whatever workers do: no exception, file or number of  *)
(* threads makes main wait forever.                                        *)
Finishes == <>Finished
=============================================================================
