------------------------------ MODULE MCPoints ------------------------------
(***************************************************************************)
(* A point of every class, created with all the attributes that it takes   *)
(* or with those that it does not, and an acquisition system to link it    *)
(* to.  The dictionary of units is loaded, loaded again with other ids,    *)
(* and loaded with a name twice; the other two are emptied.                *)
(***************************************************************************)
EXTENDS Points, TLC

Accepted(c) == {a \in Attributes : c \in Takers[a] /\ ~Asserts(c, a)}

\* What the file says of a point: all that its class can be created with.
Complete ==
  {[class |-> c,
    given |-> [a \in Accepted(c) |-> IF a = "UNITY" THEN "1" ELSE "odd"]] : c \in Classes}

\* Those that the class is not listed for, or has no part for.
TooMany == {[class |-> c, given |-> [a \in Attributes \ Accepted(c) |-> "1"]] : c \in Classes}

\* A name that the database does not know, and a class it does not know.
Unknown ==
  {[class |-> "TM", given |-> ("TYPO" :> "1")], [class |-> "unknown", given |-> << >>]}

MCFiles ==
  {[p |-> d, q |-> [class |-> "SA", given |-> << >>]] : d \in Complete}
    \cup {[p |-> d, q |-> [class |-> "unknown", given |-> << >>]] : d \in TooMany \cup Unknown}

MCWritten ==
  {"STATUS", "SHORTLABEL", "UNITY", "L_SA", "VALID", "INHIB", "VAL", "VALACQ", "FUNCTION",
   "DATEHOURM", "CURRENT_SHIFT_TIME", "PREV_DISPATCHER", "ALDEST", "TYPO"}

MCContents ==
  [DICT_TSC_VAL_LABEL |-> {<< >>},
   DICT_UNITY_ID |-> {<< <<"0", 1>>, <<"1", 2>> >>, << <<"1", 1>> >>,
                      << <<"0", 1>>, <<"0", 2>> >>},
   XDB_CE |-> {<< >>}]

=============================================================================
