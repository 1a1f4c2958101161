------------------------------- MODULE FileSink -------------------------------
(***************************************************************************)
(* impl::sink::file_sink: where a sink's events go.  A target is set while *)
(* the sink is in use; its destructor writes the events to the custom      *)
(* writer or to the file, in the steps below, which those of other sinks'  *)
(* destructors interleave with.  Of the text, what is kept are the pieces  *)
(* handed to the writer: an opening one, one per event and a closing one.  *)
(***************************************************************************)
EXTENDS Naturals, Sequences, SequencesExt

CONSTANTS
  Sink,          (* The file sinks of a process.                           *)
  GlobalSink,    (* The one that starts with the default target.           *)
  DefaultTarget, (* CXXET_TARGET_FILENAME or its default.                  *)
  File,          (* Files that targets name themselves.                    *)
  Stdout,        (* The file "/dev/stdout".                                *)
  Template,      (* A target that tmp_filename_handle takes for a template. *)
  TempFile,      (* The names mkstemp makes of it (a bound).               *)
  Empty,         (* The target "".                                         *)
  Writer,        (* Custom writers.                                        *)
  NoWriter,      (* An empty unique_ptr.                                   *)
  NoFile,        (* An empty buffer, a stream that was never opened.       *)
  MaxEvents      (* Events each sink may receive (a bound).                *)

Target == File \cup {Stdout, Template, Empty}
AnyFile == File \cup {Stdout} \cup TempFile

ASSUME FileSinkAssumption ==
  /\ GlobalSink \in Sink
  /\ DefaultTarget \in Target
  /\ Stdout \notin File /\ TempFile \cap (File \cup {Stdout}) = {}
  /\ {Template, Empty, NoFile} \cap AnyFile = {}
  /\ Template # Empty /\ Template # NoFile
  /\ NoWriter \notin Writer /\ Writer \cap Target = {}
  /\ MaxEvents \in Nat

VARIABLES
  events,           (* What each sink has received; kept as history when   *)
                    (* the list is destroyed.                              *)
  target_filename,
  custom_writer,
  spare,            (* Writers no sink was given yet.                      *)
  at,               (* How far each sink's destructor is.                  *)
  buffer,           (* The name in each sink's tmp_filename_handle.        *)
  made,             (* History: the files mkstemp made for each sink.      *)
  stream,           (* The file each sink's default_writer opened.         *)
  good,             (* FALSE from the first write that failed silently.    *)
  written,          (* Pieces handed to the writer so far.                 *)
  content,          (* The pieces in each file that exists.                *)
  calls,            (* The calls made on each custom writer.               *)
  reported,         (* Sinks that said "Failed to write out events".       *)
  terminated        (* An exception left a destructor.                     *)

targets == <<target_filename, custom_writer, spare>>
temps == <<buffer, made>>
output == <<stream, good, written, content, calls>>
vars == <<events, targets, at, temps, output, reported, terminated>>

(* What files hold before: the output of an earlier run, or of the program. *)
Before == [k \in 1 .. MaxEvents + 3 |-> "before"]

Init ==
  /\ events = [s \in Sink |-> <<>>]
  /\ target_filename =
       [s \in Sink |-> IF s = GlobalSink THEN DefaultTarget ELSE Empty]
  /\ custom_writer = [s \in Sink |-> NoWriter]
  /\ spare = Writer
  /\ at = [s \in Sink |-> "alive"]
  /\ buffer = [s \in Sink |-> NoFile]
  /\ made = [s \in Sink |-> {}]
  /\ stream = [s \in Sink |-> NoFile]
  /\ good = [s \in Sink |-> TRUE]
  /\ written = [s \in Sink |-> 0]
  /\ content = [f \in File \cup {Stdout} |-> Before]
  /\ calls = [w \in Writer |-> <<>>]
  /\ reported = {}
  /\ terminated = FALSE

-----------------------------------------------------------------------------
(* The sink in use.                                                        *)

(* A collector or a cascade drains into the sink. *)
Receive(s) ==
  /\ at[s] = "alive" /\ Len(events[s]) < MaxEvents
  /\ events' = [events EXCEPT ![s] = Append(@, <<s, Len(@) + 1>>)]
  /\ UNCHANGED <<targets, at, temps, output, reported, terminated>>

SetFilename(s, filename) ==
  /\ at[s] = "alive"
  /\ target_filename' = [target_filename EXCEPT ![s] = filename]
  /\ UNCHANGED <<custom_writer, spare, events, at, temps, output, reported,
                 terminated>>

(* The writer a sink had before is destroyed. *)
SetWriter(s, writer) ==
  /\ at[s] = "alive" /\ writer \in spare
  /\ custom_writer' = [custom_writer EXCEPT ![s] = writer]
  /\ spare' = spare \ {writer}
  /\ UNCHANGED <<target_filename, events, at, temps, output, reported,
                 terminated>>

-----------------------------------------------------------------------------
(* The destructor: write_out_events.                                       *)

Goto(s, step) == at' = [at EXCEPT ![s] = step]

(* The pieces in_trace_event_format writes. *)
Trace(s) == <<"[">> \o events[s] \o <<"]">>

MutantFirstStepNoWriter(s) ==
  CASE events[s] = <<>> -> "gone"
    [] target_filename[s] = Empty -> "gone"
    [] target_filename[s] = Template -> "name"
    [] OTHER -> "prepare"

FirstStep(s) ==
  CASE events[s] = <<>> -> "gone"
    [] events[s] # <<>> /\ custom_writer[s] # NoWriter -> "prepare"
    [] events[s] # <<>> /\ custom_writer[s] = NoWriter ->
         CASE target_filename[s] = Empty -> "gone"
           [] target_filename[s] = Template -> "name"
           [] OTHER -> "prepare"

Destroy(s) ==
  /\ at[s] = "alive"
  /\ Goto(s, FirstStep(s))
  /\ UNCHANGED <<events, targets, temps, output, reported, terminated>>

MutantFail(s) ==
  /\ Goto(s, "finalize")
  /\ reported' = reported \cup {s}
  /\ UNCHANGED <<events, targets, terminated>>

(* A std::exception is caught, reported and the events are destroyed. *)
Fail(s) ==
  /\ Goto(s, "gone")
  /\ reported' = reported \cup {s}
  /\ UNCHANGED <<events, targets, terminated>>

(* Anything else a custom writer throws leaves a noexcept function. *)
Terminate(s) ==
  /\ custom_writer[s] # NoWriter
  /\ terminated' = TRUE
  /\ UNCHANGED <<events, targets, at, reported>>

GoOn(s, step) ==
  /\ Goto(s, step)
  /\ UNCHANGED <<events, targets, reported, terminated>>

(* mkstemp makes an empty file of a new name, or fails. *)
MakeTemp(s, next) ==
  \/ \E f \in TempFile \ DOMAIN content :
       /\ content' = [g \in DOMAIN content \cup {f} |->
                        IF g = f THEN <<>> ELSE content[g]]
       /\ buffer' = [buffer EXCEPT ![s] = f]
       /\ made' = [made EXCEPT ![s] = @ \cup {f}]
       /\ GoOn(s, next)
  \/ /\ buffer' = [buffer EXCEPT ![s] = Template]
     /\ UNCHANGED <<made, content>>
     /\ Fail(s)

MutantConvert(s, next) == MakeTemp(s, next)

(* tmp_filename_handle::operator char const *: makes the file once. *)
Convert(s, next) ==
  \/ buffer[s] = NoFile /\ MakeTemp(s, next)
  \/ buffer[s] # NoFile /\ GoOn(s, next) /\ UNCHANGED <<temps, content>>

(* The name is converted once to log it and once to open it. *)
NameFile(s) ==
  /\ \/ at[s] = "name" /\ Convert(s, "target")
     \/ at[s] = "target" /\ Convert(s, "prepare")
  /\ UNCHANGED <<stream, good, written, calls>>

CallWriter(s, call) ==
  /\ custom_writer[s] # NoWriter
  /\ calls' = [calls EXCEPT ![custom_writer[s]] = Append(@, call)]

Destination(s) ==
  IF target_filename[s] = Template THEN buffer[s] ELSE target_filename[s]

MutantOpened(f) == <<>>

MutantOpenedAppending(f) == content[f]

(* What opening a file for output leaves in it: standard output is opened  *)
(* for appending, everything else is emptied.                              *)
Opened(f) == IF f = Stdout THEN content[f] ELSE <<>>

OpenFile(s) ==
  LET f == Destination(s) IN
    /\ custom_writer[s] = NoWriter
    /\ stream' = [stream EXCEPT ![s] = f]
    /\ content' = [content EXCEPT ![f] = Opened(f)]

(* prepare_for_writing; what it throws is what the code or the writer's    *)
(* author makes of a failure.                                              *)
Prepare(s) ==
  /\ at[s] = "prepare"
  /\ \/ /\ CallWriter(s, "prepare")
        /\ GoOn(s, "write") \/ Fail(s) \/ Terminate(s)
        /\ UNCHANGED <<stream, content>>
     \/ OpenFile(s) /\ GoOn(s, "write") /\ UNCHANGED calls
     \/ /\ custom_writer[s] = NoWriter
        /\ Fail(s) /\ UNCHANGED <<stream, content, calls>>
  /\ UNCHANGED <<temps, good, written>>

(* A file after a stream put a piece at its own position, or at the end of *)
(* a file opened for appending; another stream may have emptied it.        *)
Put(f, s, piece) ==
  LET old == content[f]
      position == IF f = Stdout THEN Len(old) + 1 ELSE written[s] + 1
  IN [k \in 1 .. IF position > Len(old) THEN position ELSE Len(old) |->
        IF k = position THEN piece ELSE IF k <= Len(old) THEN old[k]
        ELSE "hole"]

(* One piece goes to a file; a write that fails leaves the stream's state  *)
(* bad, which nobody looks at.                                             *)
WriteToFile(s, piece) ==
  LET f == stream[s] IN
    /\ custom_writer[s] = NoWriter
    /\ \/ /\ good[s]
          /\ content' = [content EXCEPT ![f] = Put(f, s, piece)]
          /\ UNCHANGED good
       \/ good' = [good EXCEPT ![s] = FALSE] /\ UNCHANGED content

(* The next piece; the exceptions are a custom writer's, or bad_alloc.     *)
Write(s) ==
  LET piece == Trace(s)[written[s] + 1]
      done == written[s] + 1 = Len(Trace(s)) IN
    /\ at[s] = "write"
    /\ \/ CallWriter(s, piece) /\ UNCHANGED <<content, good>>
       \/ WriteToFile(s, piece) /\ UNCHANGED calls
    /\ \/ GoOn(s, IF done THEN "finalize" ELSE "write")
       \/ Fail(s)
       \/ Terminate(s)
    /\ written' = [written EXCEPT ![s] = @ + 1]
    /\ UNCHANGED <<temps, stream>>

(* finalize_and_flush: a stream is closed, whatever its state is. *)
Finalize(s) ==
  /\ at[s] = "finalize"
  /\ \/ /\ CallWriter(s, "finalize")
        /\ GoOn(s, "gone") \/ Fail(s) \/ Terminate(s)
     \/ custom_writer[s] = NoWriter /\ GoOn(s, "gone") /\ UNCHANGED calls
  /\ UNCHANGED <<temps, stream, good, written, content>>

Next ==
  /\ ~terminated
  /\ \E s \in Sink :
       \/ Receive(s)
       \/ \E filename \in Target : SetFilename(s, filename)
       \/ \E writer \in Writer : SetWriter(s, writer)
       \/ Destroy(s)
       \/ NameFile(s)
       \/ Prepare(s)
       \/ Write(s)
       \/ Finalize(s)

Spec == Init /\ [][Next]_vars
-----------------------------------------------------------------------------
(* A file only one sink wrote to holds its whole trace and nothing else,   *)
(* unless the sink reported a failure or its stream went bad.              *)
WholeTrace ==
  \A s \in Sink :
    (/\ at[s] = "gone" /\ s \notin reported /\ good[s]
     /\ stream[s] \in AnyFile \ {Stdout}
     /\ \A o \in Sink \ {s} : stream[o] # stream[s])
    => content[stream[s]] = Trace(s)

(* A sink makes at most one temporary file, opens the one it made, and no  *)
(* other sink ever opens it, also if both were given the same template.    *)
OwnTemp ==
  \A s \in Sink :
    /\ at[s] = "prepare" /\ custom_writer[s] = NoWriter
         /\ target_filename[s] = Template => made[s] = {Destination(s)}
    /\ \A f \in made[s] : made[s] = {f}
    /\ \A f \in made[s], o \in Sink \ {s} : stream[o] # f

(* A writer is prepared once, given the pieces of one sink's trace in      *)
(* order and finalised once, in that order and never after it threw; one   *)
(* that is not used, or not any more, is not called at all.                *)
WriterProtocol ==
  /\ \A w \in Writer :
       \/ calls[w] = <<>>
       \/ \E s \in Sink :
            /\ custom_writer[s] = w
            /\ IsPrefix(calls[w],
                        <<"prepare">> \o Trace(s) \o <<"finalize">>)
  /\ \A s \in Sink :
       (/\ at[s] = "gone" /\ s \notin reported /\ events[s] # <<>>
        /\ custom_writer[s] # NoWriter)
       => /\ calls[custom_writer[s]] # <<>>
          /\ Last(calls[custom_writer[s]]) = "finalize"

(* Events are thrown away without a report only if the sink has nowhere to *)
(* write them or its stream went bad.                                      *)
NothingSkipped ==
  \A s \in Sink :
    (/\ at[s] = "gone" /\ events[s] # <<>> /\ s \notin reported
     /\ written[s] < Len(Trace(s)))
    => target_filename[s] = Empty /\ custom_writer[s] = NoWriter

(* Sinks that share standard output do not erase what others, or the       *)
(* program, wrote there.                                                   *)
StdoutOnlyGrows == [][IsPrefix(content[Stdout], content'[Stdout])]_vars
=============================================================================
