--------------------------- MODULE MCDiggerThreads ---------------------------
(* Instances of DiggerThreads for TLC.  With ProbePeriod, Lateness and     *)
(* MaxBusy as in the cfg files a PROBE comes, and is read, at the last     *)
(* moment a worker waits for.                                              *)
EXTENDS DiggerThreads

=============================================================================
