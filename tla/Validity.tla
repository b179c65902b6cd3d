------------------------------ MODULE Validity ------------------------------
(***************************************************************************)
(* The validity of a point.  Clients and the programs that acquire values  *)
(* write the attributes of a point one by one, each in a transaction of    *)
(* its own, and VALIDCHANGE last: the library then calls, within the same  *)
(* transaction, a handler that computes the attributes that are shown      *)
(* (VAL, VALID) from those that were written and from the state of the     *)
(* acquisition system ("SA") the point is linked to.                       *)
(*                                                                         *)
(* Writers take no turns, so that any attribute may be written by another  *)
(* one between the two writes of the first.  A transaction in which a call *)
(* of the library fails is rolled back: it is no step.                     *)
(*                                                                         *)
(* VALIDITY and VALIDITY_ACQ of the database are VALID and VALIDACQ here,  *)
(* as clients name them.  What the module shares with Points has a name of *)
(* its own here, so that one module can extend both and prove about both.  *)
(***************************************************************************)
EXTENDS FiniteSets

CONSTANTS
  Values,            \* values of VAL, VALACQ and VALMANUAL
  Delivered,         \* the <<VALID, VALIDACQ>> that points are created with
  WrittenAttributes  \* the attributes that are written, besides VALIDCHANGE

Validities ==
  {"FAULT", "VALID", "MANUAL", "INHIBITION", "FAULT_INHIB", "FAULT_FORCED",
   "INQUIRED", "NO_INSTRUM", "GLOBAL_FAULT"}

Codes ==
  {"FAULT", "VALID", "FORCED", "INHIB", "MANUAL", "END_INHIB", "END_FORCED",
   "INHIB_GBL", "END_INHIB_GBL", "NULL", "FAULT_GBL", "INHIB_SA", "END_INHIB_SA"}

\* How the handler treats a class of points.
Kinds == {"analog", "discrete", "alarm", "other"}

SAStates == {"FAULT", "INHIB", "WORK"}
Unlinked == "none"

Signal ==
  [VAL : Values, VALACQ : Values, VALMANUAL : Values,
   VALID : Validities, VALIDACQ : Validities,
   INHIB : BOOLEAN, INHIBLOCAL : BOOLEAN, VALIDCHANGE : Codes]

Domain(a) ==
  CASE a \in {"VAL", "VALACQ", "VALMANUAL"} -> Values
    [] a \in {"VALID", "VALIDACQ"} -> Validities
    [] a \in {"INHIB", "INHIBLOCAL"} -> BOOLEAN

ASSUME ValidityAssumption ==
  /\ Values # {}
  /\ Delivered \subseteq Validities \X Validities
  /\ \A d \in Delivered : d[1] = "VALID" => d[2] # "FAULT"
  /\ WrittenAttributes \subseteq
       {"VAL", "VALACQ", "VALMANUAL", "VALID", "VALIDACQ", "INHIB", "INHIBLOCAL"}

VARIABLES
  kind,   \* what the class of the point makes of it
  point,
  sa      \* the state of the SA of the point, Unlinked if it has none

signalVars == <<kind, point, sa>>

SignalInit ==
  /\ kind \in Kinds
  /\ \E d \in Delivered, v \in Values :
       point = [VAL |-> v, VALACQ |-> v, VALMANUAL |-> v,
                VALID |-> d[1], VALIDACQ |-> d[2],
                INHIB |-> FALSE, INHIBLOCAL |-> FALSE, VALIDCHANGE |-> "NULL"]
  /\ sa = Unlinked

-----------------------------------------------------------------------------
(* The handler for analog points: one operator for a code of VALIDCHANGE.  *)
(* It gives the point that the handler leaves; s is the state of the SA.   *)

\* A point without SA is treated as one whose SA works.
SAState == IF sa = Unlinked THEN "WORK" ELSE sa

\* Inhibited or forced: the value shown is not the acquired one.
Held == {"INHIBITION", "MANUAL", "FAULT_INHIB", "FAULT_FORCED"}

AcquiredFault(p, s) ==
  IF s # "WORK" THEN p
  ELSE IF p.VALID \in {"VALID", "NO_INSTRUM"} THEN [p EXCEPT !.VALID = "FAULT"]
  ELSE IF p.VALID \in {"FAULT", "INQUIRED"} /\ p.VALIDACQ # "VALID" THEN p
  ELSE [p EXCEPT !.VALIDACQ = "FAULT"]

\* A mutant: the validity of the acquisition is forgotten.
AcquiredValidOnly(p, s) ==
  IF s # "WORK" \/ p.VALID = "GLOBAL_FAULT" THEN p
  ELSE IF p.VALID \in Held THEN [p EXCEPT !.VALIDACQ = "VALID"]
  ELSE [p EXCEPT !.VAL = p.VALACQ, !.VALID = "VALID"]

\* A mutant: an acquisition is shown whatever the validity was.
AcquiredAlways(p, s) ==
  IF s # "WORK" THEN p
  ELSE [p EXCEPT !.VAL = p.VALACQ, !.VALID = "VALID", !.VALIDACQ = "VALID"]

AcquiredValid(p, s) ==
  IF s # "WORK" \/ p.VALID = "GLOBAL_FAULT" THEN p
  ELSE IF p.VALID \in Held THEN [p EXCEPT !.VALIDACQ = "VALID"]
  ELSE [p EXCEPT !.VAL = p.VALACQ, !.VALID = "VALID",
                 !.VALIDACQ = IF p.VALID # "VALID" /\ @ = "FAULT" THEN "VALID" ELSE @]

\* The validity is computed, and not written.
Forced(p) ==
  [p EXCEPT !.VAL = p.VALMANUAL,
            !.INHIBLOCAL = @ \/ p.VALID \in {"VALID", "INHIBITION", "FAULT",
                                             "INQUIRED", "FAULT_INHIB"}]

WithoutValue(p) == IF p.VALIDACQ = "VALID" THEN "MANUAL" ELSE "FAULT_FORCED"

\* Neither is it here, but for a point of which the value was entered.
Inhibit(p) ==
  IF p.VALID = "INQUIRED"
    THEN [p EXCEPT !.VALID = WithoutValue(p), !.INHIBLOCAL = TRUE]
    ELSE p

ManualOf(v) ==
  CASE v = "FAULT" -> "INQUIRED"
    [] v = "INHIBITION" -> "MANUAL"
    [] v = "FAULT_INHIB" -> "FAULT_FORCED"
    [] OTHER -> v

Manual(p) ==
  IF p.VALID \in {"VALID", "GLOBAL_FAULT"} THEN p
  ELSE [p EXCEPT !.VAL = p.VALMANUAL, !.VALID = ManualOf(@)]

EndOfLocal(p, s) ==
  IF p.VALID \notin Held THEN p
  ELSE [p EXCEPT
          !.VAL = p.VALACQ,
          !.INHIBLOCAL = FALSE,
          !.VALID = IF s = "INHIB" \/ p.INHIB THEN @
                    ELSE IF p.VALIDACQ = "VALID" /\ s = "WORK" THEN "VALID"
                    ELSE "FAULT"]

\* A mutant: the local inhibition is not looked at.
InhibitGloballyOverLocal(p, s) ==
  IF p.VALID \notin Held THEN p
  ELSE [p EXCEPT
          !.VAL = p.VALACQ,
          !.VALID = IF s = "INHIB" \/ p.INHIB THEN @
                    ELSE IF p.VALIDACQ \in {"VALID", "FAULT"} THEN p.VALIDACQ
                    ELSE @]

\* The code that announces an inhibition of a whole level ends one.
InhibitGlobally(p, s) ==
  IF p.VALID \notin Held THEN p
  ELSE [p EXCEPT
          !.VAL = p.VALACQ,
          !.VALID = IF s = "INHIB" \/ p.INHIB \/ p.INHIBLOCAL THEN @
                    ELSE IF p.VALIDACQ \in {"VALID", "FAULT"} THEN p.VALIDACQ
                    ELSE @]

\* The code that announces its end begins one.
EndOfGlobal(p) ==
  [p EXCEPT !.VALID = CASE @ = "VALID" -> "INHIBITION"
                        [] @ = "FAULT" -> "FAULT_INHIB"
                        [] @ = "INQUIRED" -> "FAULT_FORCED"
                        [] OTHER -> @]

GlobalFault(p) == [p EXCEPT !.VALID = IF @ = "VALID" THEN "FAULT" ELSE @]

InhibitSA(p) ==
  [p EXCEPT !.VALID =
     CASE @ = "VALID" \/ (@ = "FAULT" /\ p.VALIDACQ = "VALID") -> "INHIBITION"
       [] @ = "FAULT" /\ p.VALIDACQ # "VALID" -> "FAULT_INHIB"
       [] @ = "INQUIRED" -> WithoutValue(p)
       [] OTHER -> @]

\* A mutant: the value of the operator is left in place.
EndOfSAWithoutValue(p, s) ==
  IF p.VALID \notin Held \/ p.INHIB \/ p.INHIBLOCAL THEN p
  ELSE IF p.VALIDACQ = "VALID" /\ s = "WORK" THEN [p EXCEPT !.VALID = "VALID"]
  ELSE [p EXCEPT !.VALID = "FAULT"]

EndOfSA(p, s) ==
  IF p.VALID \notin Held \/ p.INHIB \/ p.INHIBLOCAL THEN p
  ELSE IF p.VALIDACQ = "VALID" /\ s = "WORK"
    THEN [p EXCEPT !.VALID = "VALID", !.VAL = p.VALACQ]
    ELSE [p EXCEPT !.VALID = "FAULT"]

GOFVALTI(p, c, s) ==
  CASE c = "FAULT" -> AcquiredFault(p, s)
    [] c = "VALID" -> AcquiredValid(p, s)
    [] c = "FORCED" -> Forced(p)
    [] c = "INHIB" -> Inhibit(p)
    [] c = "MANUAL" -> Manual(p)
    [] c \in {"END_INHIB", "END_FORCED"} -> EndOfLocal(p, s)
    [] c = "INHIB_GBL" -> InhibitGlobally(p, s)
    [] c = "END_INHIB_GBL" -> EndOfGlobal(p)
    [] c = "FAULT_GBL" -> GlobalFault(p)
    [] c = "INHIB_SA" -> InhibitSA(p)
    [] c = "END_INHIB_SA" -> EndOfSA(p, s)
    [] c = "NULL" -> p

\* The handlers of discrete points and of alarms are not written yet.
GOFVALTSC(p) == p
GOFVALAL(p) == p

Handle(p, s) ==
  CASE kind = "analog" -> GOFVALTI(p, p.VALIDCHANGE, s)
    [] kind = "discrete" -> GOFVALTSC(p)
    [] kind = "alarm" -> GOFVALAL(p)
    [] kind = "other" -> p

-----------------------------------------------------------------------------
\* writeVALIDCHANGE() knows no 0, the code of FAULT.
StoredCode(c) == IF c = "FAULT" THEN "NULL" ELSE c

WriteChange(c) ==
  /\ point' = Handle([point EXCEPT !.VALIDCHANGE = StoredCode(c)], SAState)
  /\ UNCHANGED <<kind, sa>>

WriteAttribute(a) ==
  /\ \E x \in Domain(a) : point' = [point EXCEPT ![a] = x]
  /\ UNCHANGED <<kind, sa>>

\* L_SA is written, and names a point that may be no SA, or the state of the SA
\* changes, which is not the work of any program of the repository.
SAChanges ==
  /\ sa' \in SAStates \cup {Unlinked}
  /\ UNCHANGED <<kind, point>>

SignalNext ==
  \/ \E c \in Codes : WriteChange(c)
  \/ \E a \in WrittenAttributes : WriteAttribute(a)
  \/ SAChanges

SignalSpec == SignalInit /\ [][SignalNext]_signalVars

-----------------------------------------------------------------------------
\* The attributes of the point keep their types.
SignalTypeOK ==
  /\ kind \in Kinds
  /\ point \in Signal
  /\ sa \in SAStates \cup {Unlinked}

\* A point whose last acquisition was in fault is not shown as VALID, whatever
\* codes of inhibition, forcing and fault came since, in any order.  It is for
\* writers that leave VALID and VALIDACQ to the handler.
ValidMeansAcquired == point.VALID = "VALID" => point.VALIDACQ # "FAULT"

\* A point becomes VALID with the acquired value, never with the one an operator
\* entered while it was forced; not while its SA is inhibited; and out of a
\* fault by an acquisition only, of a SA that works (GOFVALTI).
ValidTakesAcquired ==
  [][\A c \in Codes :
       (/\ WriteChange(c)
        /\ point.VALID # "VALID"
        /\ point'.VALID = "VALID") =>
         /\ point'.VAL = point'.VALACQ
         /\ sa # "INHIB"
         /\ point.VALID \notin Held => c = "VALID" /\ SAState = "WORK"]_signalVars

\* While a point is inhibited or forced no acquisition, fault or further
\* inhibition changes what is shown of it.
HeldAgainstAcquisition ==
  [][\A c \in {"FAULT", "VALID", "NULL", "FAULT_GBL", "INHIB", "INHIB_SA", "END_INHIB_GBL"} :
       (WriteChange(c) /\ point.VALID \in Held) =>
         point'.VAL = point.VAL /\ point'.VALID = point.VALID]_signalVars

\* An inhibition ends when no other one remains: that of the equipment above
\* (INHIB) never does, and the local one ends by its own code only.
LiftedWhenFree ==
  [][\A c \in Codes :
       (/\ WriteChange(c)
        /\ point.VALID \in Held
        /\ point'.VALID \notin Held) =>
         /\ ~point.INHIB
         /\ point.INHIBLOCAL => c \in {"END_INHIB", "END_FORCED"}]_signalVars

=============================================================================
