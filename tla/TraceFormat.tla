----------------------------- MODULE TraceFormat -----------------------------
(***************************************************************************)
(* impl::event::any and write_out::in_trace_event_format: what an event    *)
(* is, and the text a file gets for it.  A text is a sequence of           *)
(* characters; an object of "traceEvents" is the sequence of its fields,   *)
(* each a key and what is written after it.  Read is a reader of that text *)
(* which knows JSON and the trace event format only.                       *)
(***************************************************************************)
EXTENDS Integers, Sequences, SequencesExt

CONSTANTS
  Null,           (* nullptr, and a field that is absent.                  *)
  CategoryName    (* get_joined_category_names, by category_flag.          *)

-----------------------------------------------------------------------------
(* The kinds of events; trace_type is the letter after "ph".  A counter's  *)
(* and a metadata event's desc is not its name.                            *)
duration_begin(categories, desc, start_ns) ==
  [ph |-> "B", categories |-> categories, desc |-> desc, ts |-> start_ns]
duration_end(categories, desc, end_ns) ==
  [ph |-> "E", categories |-> categories, desc |-> desc, ts |-> end_ns]
complete(categories, desc, start_ns, duration_ns) ==
  [ph |-> "X", categories |-> categories, desc |-> desc, ts |-> start_ns,
   duration_ns |-> duration_ns]
instant(categories, desc, scope, timestamp_ns) ==
  [ph |-> "i", categories |-> categories, desc |-> desc, ts |-> timestamp_ns,
   scope |-> scope]
counter(categories, name, timestamp_ns, value) ==
  [ph |-> "C", categories |-> categories, desc |-> name, ts |-> timestamp_ns,
   value |-> value]
metadata(categories, type, desc, sort_index) ==
  [ph |-> "M", categories |-> categories, desc |-> desc, type |-> type,
   sort_index |-> sort_index]

SortIndex == {"process_sort_index", "thread_sort_index"}
ArgName == [process_name |-> "name", thread_name |-> "name",
            process_labels |-> "labels", process_sort_index |-> "sort_index",
            thread_sort_index |-> "sort_index"]

(* any::get_name, given the characters behind desc at that moment. *)
get_name(evt, chars) ==
  CASE evt.ph = "M" -> <<evt.type>>
    [] evt.ph = "C" -> <<"Counter">>
    [] evt.ph = "E" /\ chars = Null -> <<>>
    [] OTHER -> chars

-----------------------------------------------------------------------------
(* Characters JSON wants escaped; each other one stands for itself.  The   *)
(* bytes of a UTF-8 sequence are negative chars and not below 32 here.     *)
EscapeOf ==
  [quote |-> <<"backslash", "quote">>, backslash |-> <<"backslash", "backslash">>,
   newline |-> <<"backslash", "n">>, bell |-> <<"backslash", "u", "0", "0", "0", "7">>]

MutantEscaped(c) ==
  IF c \in DOMAIN EscapeOf \ {"backslash"} THEN EscapeOf[c] ELSE <<c>>

Escaped(c) == IF c \in DOMAIN EscapeOf THEN EscapeOf[c] ELSE <<c>>

escape_json_string(str) ==
  IF str = Null THEN <<"null">>
  ELSE <<"quote">> \o FlattenSeq([i \in DOMAIN str |-> Escaped(str[i])])
       \o <<"quote">>

(* C++ division: the remainder has the sign of ns. *)
QuotTrunc(ns, d) == IF ns >= 0 THEN ns \div d ELSE -((-ns) \div d)
RemTrunc(ns, d) == ns - d * QuotTrunc(ns, d)

MutantFractionUs(ns) ==
  [us |-> ns \div 1000, zeros |-> IF ns % 1000 < 100 THEN 1 ELSE 0,
   frac |-> ns % 1000]

(* fraction_us: microseconds, a point, zeros, and the nanoseconds.  The    *)
(* assert(ns >= 0) is not in a release build.                              *)
FractionUs(ns) ==
  LET frac == RemTrunc(ns, 1000)
  IN  [us |-> QuotTrunc(ns, 1000), frac |-> frac,
       zeros |-> (IF frac < 100 THEN 1 ELSE 0) + (IF frac < 10 THEN 1 ELSE 0)]

Args(name, value) == <<<<"args", <<name, value>>>>>>

(* The fields between "cat" and "pid". *)
KindFields(evt, chars, time_point_zero_ns) ==
  LET ts == <<<<"ts", FractionUs(evt.ts - time_point_zero_ns)>>>>
  IN  CASE evt.ph \in {"B", "E"} -> ts
        [] evt.ph = "X" -> Append(ts, <<"dur", FractionUs(evt.duration_ns)>>)
        [] evt.ph = "i" -> Append(ts, <<"s", evt.scope>>)
        [] evt.ph = "C" -> ts \o Args(escape_json_string(chars), evt.value)
        [] evt.ph = "M" ->
             Args(<<"quote", ArgName[evt.type], "quote">>,
                  IF evt.type \in SortIndex THEN evt.sort_index
                  ELSE escape_json_string(chars))

Object(item, text, time_point_zero_ns) ==
  LET evt == item.evt
      chars == IF evt.desc = Null THEN Null ELSE text[evt.desc]
      cat == CategoryName[evt.categories]
  IN  <<<<"name", escape_json_string(get_name(evt, chars))>>, <<"ph", evt.ph>>>>
      \o (IF cat = <<>> THEN <<>> ELSE <<<<"cat", escape_json_string(cat)>>>>)
      \o KindFields(evt, chars, time_point_zero_ns)
      \o <<<<"tid", item.thread_id>>>>

(* The objects of "traceEvents", from the list of a file sink, with the    *)
(* text that names point to while it is written.                           *)
in_trace_event_format(time_point_zero_ns, list, text) ==
  [k \in DOMAIN list |-> Object(list[k], text, time_point_zero_ns)]

-----------------------------------------------------------------------------
(* The reader.  A string ends at the first quote that is not escaped, and  *)
(* may hold no bare control character.                                     *)
Unreadable == <<"unreadable">>

(* The characters whose escapes are at k. *)
EscapesIn(s, k) ==
  {c \in DOMAIN EscapeOf : \A j \in DOMAIN EscapeOf[c] :
     k + j - 1 <= Len(s) /\ s[k + j - 1] = EscapeOf[c][j]}

(* What is read of the last n characters, the closing quote among them,    *)
(* given what is read of fewer.                                            *)
ReadLast(s, n, rest) ==
  LET k == Len(s) + 1 - n
      c == CHOOSE e \in EscapesIn(s, k) : TRUE
  IN  CASE n = 0 -> Unreadable
        [] n = 1 -> IF s[k] = "quote" THEN <<>> ELSE Unreadable
        [] n > 1 /\ EscapesIn(s, k) # {} -> <<c>> \o rest[n - Len(EscapeOf[c])]
        [] n > 1 /\ EscapesIn(s, k) = {} ->
             IF s[k] \in DOMAIN EscapeOf THEN Unreadable ELSE <<s[k]>> \o rest[n - 1]

ReadString(s) ==
  LET rest[n \in 0 .. Len(s)] == ReadLast(s, n, rest)
  IN  IF s = <<"null">> THEN Null
      ELSE IF s = <<>> \/ s[1] # "quote" THEN Unreadable ELSE rest[Len(s) - 1]

(* A JSON number of microseconds, in nanoseconds: a fraction has as many   *)
(* digits as are written, three at most here.  A sign is allowed in front  *)
(* of it only: Null.                                                       *)
ReadStamp(f) ==
  LET digits == IF f.frac < 10 THEN 1 ELSE IF f.frac < 100 THEN 2 ELSE 3
  IN  IF f.frac < 0 THEN Null
      ELSE f.us * 1000 + f.frac * <<100, 10, 1>>[f.zeros + digits]

Has(object, key) == \E k \in DOMAIN object : object[k][1] = key
Field(object, key) == object[CHOOSE k \in DOMAIN object : object[k][1] = key][2]
Reads(object, key, Value(_)) ==
  IF Has(object, key) THEN Value(Field(object, key)) ELSE Null
=============================================================================
