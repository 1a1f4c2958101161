---------------------------- MODULE MCSinkExamples ----------------------------
(* The threads and sinks of all examples together. *)
EXTENDS SinkExamples

MCThread == {"main", "t1", "t2", "t3", "t4", "t11", "t12", "t21", "t22"}
MCFileSink == {"global", "file", "file_2", "file_3", "file_4", "safe_file"}
MCCascade == {"cascade", "cascade_2", "safe_cascade"}
MCThreadSafe == {"global", "safe_file", "safe_cascade"}
=============================================================================
