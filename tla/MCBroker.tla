------------------------------ MODULE MCBroker ------------------------------
(* Instances of Broker for TLC: two workers that may register for either   *)
(* of two services, so that a letter can meet a worker of another service  *)
(* and a busy or late worker can stand before a free one in the index.     *)
EXTENDS Broker, TLC

MCSymmetry == Permutations(Workers \ Reserved) \cup Permutations(Services)

=============================================================================
