------------------------------- MODULE MCPool -------------------------------
(* Up to three files; one job, as many as there are cores or files, and    *)
(* more than there are files.                                              *)
EXTENDS PostprocessingPool

MCJobs == {-1, 0, 1, 4}
=============================================================================
