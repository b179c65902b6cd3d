----------------------------- MODULE MCRequests -----------------------------
(***************************************************************************)
(* Two workers and the poller, requests of up to MaxItems items.           *)
(***************************************************************************)
EXTENDS Requests, TLC

Symmetric == Permutations(Workers)

=============================================================================
