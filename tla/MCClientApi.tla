---------------------------- MODULE MCClientApi -----------------------------
(***************************************************************************)
(* A client of two services, one of which moves.                           *)
(***************************************************************************)
EXTENDS ClientApi, TLC

Symmetric == Permutations(Services)

=============================================================================
