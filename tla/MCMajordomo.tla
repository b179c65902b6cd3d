----------------------------- MODULE MCMajordomo -----------------------------
(* Instances of Majordomo for TLC.  The identity of a worker is the name   *)
(* of its service, so each service has one worker.                         *)
EXTENDS Majordomo

MCServiceOf == [w \in Workers |-> CHOOSE s \in Services : TRUE]

=============================================================================
