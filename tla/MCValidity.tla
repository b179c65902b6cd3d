----------------------------- MODULE MCValidity -----------------------------
(***************************************************************************)
(* One point with two values.  Points are created in fault (the default),  *)
(* valid, without an instrument, in general fault, or as an operator left  *)
(* them in an exported file.                                               *)
(***************************************************************************)
EXTENDS Validity

MCDelivered ==
  {<<"FAULT", "FAULT">>, <<"VALID", "VALID">>, <<"NO_INSTRUM", "NO_INSTRUM">>,
   <<"GLOBAL_FAULT", "FAULT">>, <<"INQUIRED", "FAULT">>, <<"FAULT_INHIB", "FAULT">>}

=============================================================================
