---------------------------- MODULE PointProofs ----------------------------
(***************************************************************************)
(* Proofs about the points of the real-time database: first Validity, for  *)
(* any values and any writers of attributes, then Points, for any files,   *)
(* any attributes that are written and any rows of the dictionaries.       *)
(***************************************************************************)
EXTENDS Validity, Points, TLAPS

(* Validity.                                                               *)

SAs == SAStates \cup {Unlinked}

LEMMA StateOfSA ==
  ASSUME sa \in SAs
  PROVE  SAState \in SAStates
BY DEF SAs, SAStates, SAState, Unlinked

LEMMA StoredType ==
  ASSUME NEW c \in Codes
  PROVE  StoredCode(c) \in Codes
BY DEF Codes, StoredCode

-----------------------------------------------------------------------------
(* The handler.                                                            *)

(* Each operator of the handler gives a point.                             *)
LEMMA AcquiredType ==
  ASSUME NEW p \in Signal, NEW s \in SAStates
  PROVE  AcquiredFault(p, s) \in Signal /\ AcquiredValid(p, s) \in Signal
BY DEF Signal, Validities, AcquiredFault, AcquiredValid

LEMMA OperatorType ==
  ASSUME NEW p \in Signal
  PROVE  Forced(p) \in Signal /\ Inhibit(p) \in Signal /\ Manual(p) \in Signal
<1>1. Forced(p) \in Signal
  BY DEF Signal, Forced
<1>2. Inhibit(p) \in Signal
  BY DEF Signal, Validities, Inhibit, WithoutValue
<1>3. Manual(p) \in Signal
  BY DEF Signal, Validities, Manual, ManualOf
<1> QED
  BY <1>1, <1>2, <1>3

LEMMA GlobalType ==
  ASSUME NEW p \in Signal, NEW s \in SAStates
  PROVE  /\ InhibitGlobally(p, s) \in Signal /\ EndOfGlobal(p) \in Signal
         /\ GlobalFault(p) \in Signal
<1>1. InhibitGlobally(p, s) \in Signal
  BY DEF Signal, Validities, InhibitGlobally
<1>2. EndOfGlobal(p) \in Signal
  BY DEF Signal, Validities, EndOfGlobal
<1>3. GlobalFault(p) \in Signal
  BY DEF Signal, Validities, GlobalFault
<1> QED
  BY <1>1, <1>2, <1>3

LEMMA EndType ==
  ASSUME NEW p \in Signal, NEW s \in SAStates
  PROVE  EndOfLocal(p, s) \in Signal /\ InhibitSA(p) \in Signal /\ EndOfSA(p, s) \in Signal
<1>1. EndOfLocal(p, s) \in Signal
  BY DEF Signal, Validities, EndOfLocal
<1>2. InhibitSA(p) \in Signal
  BY DEF Signal, Validities, InhibitSA, WithoutValue
<1>3. EndOfSA(p, s) \in Signal
  BY DEF Signal, Validities, EndOfSA
<1> QED
  BY <1>1, <1>2, <1>3

LEMMA HandlerType ==
  ASSUME NEW p \in Signal, NEW s \in SAStates, NEW c \in Codes
  PROVE  GOFVALTI(p, c, s) \in Signal
BY AcquiredType, OperatorType, GlobalType, EndType DEF GOFVALTI, Codes

(* What a write of VALIDCHANGE makes of a point.                           *)
LEMMA ChangedPoint ==
  ASSUME SignalTypeOK, NEW c \in Codes, WriteChange(c)
  PROVE  /\ SAState \in SAStates
         /\ \E p \in Signal :
              /\ p = [point EXCEPT !.VALIDCHANGE = StoredCode(c)]
              /\ point' = GOFVALTI(p, StoredCode(c), SAState) \/ point' = p
<1> DEFINE p == [point EXCEPT !.VALIDCHANGE = StoredCode(c)]
<1>1. p \in Signal /\ p.VALIDCHANGE = StoredCode(c)
  BY StoredType DEF SignalTypeOK, Signal
<1>2. point' = Handle(p, SAState)
  BY DEF WriteChange
<1>3. Handle(p, SAState) \in {GOFVALTI(p, StoredCode(c), SAState), p}
  BY <1>1 DEF SignalTypeOK, Kinds, Handle, GOFVALTSC, GOFVALAL
<1> QED
  BY <1>1, <1>2, <1>3, StateOfSA DEF SignalTypeOK, SAs

-----------------------------------------------------------------------------
(* The type invariant.                                                     *)

LEMMA SignalTypesInit == SignalInit => SignalTypeOK
<1> SUFFICES ASSUME SignalInit PROVE SignalTypeOK
  OBVIOUS
<1>1. PICK d \in Delivered, v \in Values :
        point = [VAL |-> v, VALACQ |-> v, VALMANUAL |-> v,
                 VALID |-> d[1], VALIDACQ |-> d[2],
                 INHIB |-> FALSE, INHIBLOCAL |-> FALSE, VALIDCHANGE |-> "NULL"]
  BY DEF SignalInit
<1>2. d[1] \in Validities /\ d[2] \in Validities
  BY ValidityAssumption
<1>3. point \in Signal
  BY <1>1, <1>2 DEF Signal, Codes
<1> QED
  BY <1>3 DEF SignalInit, SignalTypeOK

LEMMA WriteType ==
  ASSUME SignalTypeOK, NEW a \in WrittenAttributes, WriteAttribute(a)
  PROVE  SignalTypeOK'
<1>1. PICK x \in Domain(a) : point' = [point EXCEPT ![a] = x]
  BY DEF WriteAttribute
<1>2. point' \in Signal
  <2>0. a \in {"VAL", "VALACQ", "VALMANUAL", "VALID", "VALIDACQ", "INHIB", "INHIBLOCAL"}
    BY ValidityAssumption
  <2>1. CASE a \in {"VAL", "VALACQ", "VALMANUAL"}
    BY <2>1, <1>1 DEF SignalTypeOK, Signal, Domain
  <2>2. CASE a \in {"VALID", "VALIDACQ"}
    BY <2>2, <1>1 DEF SignalTypeOK, Signal, Domain
  <2>3. CASE a \in {"INHIB", "INHIBLOCAL"}
    BY <2>3, <1>1 DEF SignalTypeOK, Signal, Domain
  <2> QED
    BY <2>0, <2>1, <2>2, <2>3
<1> QED
  BY <1>2 DEF WriteAttribute, SignalTypeOK

(* The attributes of a point keep their types under every code.            *)
THEOREM SignalTypesKept == SignalSpec => []SignalTypeOK
<1>1. ASSUME SignalTypeOK, [SignalNext]_signalVars PROVE SignalTypeOK'
  <2>1. ASSUME NEW c \in Codes, WriteChange(c) PROVE SignalTypeOK'
    <3>1. PICK p \in Signal :
            point' = GOFVALTI(p, StoredCode(c), SAState) \/ point' = p
      BY <1>1, <2>1, ChangedPoint
    <3>2. point' \in Signal
      BY <1>1, <2>1, <3>1, ChangedPoint, HandlerType, StoredType
    <3> QED
      BY <1>1, <2>1, <3>2 DEF WriteChange, SignalTypeOK
  <2>2. ASSUME NEW a \in WrittenAttributes, WriteAttribute(a) PROVE SignalTypeOK'
    BY <1>1, <2>2, WriteType
  <2>3. CASE SAChanges
    BY <1>1, <2>3 DEF SAChanges, SignalTypeOK
  <2>4. CASE UNCHANGED signalVars
    BY <1>1, <2>4 DEF signalVars, SignalTypeOK
  <2> QED
    BY <1>1, <2>1, <2>2, <2>3, <2>4 DEF SignalNext
<1> QED
  BY <1>1, SignalTypesInit, PTL DEF SignalSpec

-----------------------------------------------------------------------------
(* What is shown of a point.                                               *)

(* No code makes a point in fault VALID.                                   *)
LEMMA HandlerMeansAcquired ==
  ASSUME NEW p \in Signal, NEW s \in SAStates, NEW c \in Codes,
         p.VALID = "VALID" => p.VALIDACQ # "FAULT"
  PROVE  LET q == GOFVALTI(p, c, s) IN q.VALID = "VALID" => q.VALIDACQ # "FAULT"
<1>1. CASE c \in {"FAULT", "VALID", "NULL"}
  BY <1>1 DEF GOFVALTI, Signal, AcquiredFault, AcquiredValid, Held
<1>2. CASE c \in {"FORCED", "INHIB", "MANUAL"}
  BY <1>2 DEF GOFVALTI, Signal, Forced, Inhibit, WithoutValue, Manual, ManualOf
<1>3. CASE c \in {"END_INHIB", "END_FORCED"}
  BY <1>3 DEF GOFVALTI, Signal, EndOfLocal, Held
<1>4. CASE c \in {"INHIB_GBL", "END_INHIB_GBL", "FAULT_GBL"}
  BY <1>4 DEF GOFVALTI, Signal, InhibitGlobally, EndOfGlobal, GlobalFault, Held
<1>5. CASE c \in {"INHIB_SA", "END_INHIB_SA"}
  BY <1>5 DEF GOFVALTI, Signal, InhibitSA, WithoutValue, EndOfSA, Held
<1> QED
  BY <1>1, <1>2, <1>3, <1>4, <1>5 DEF Codes

(* A point whose last acquisition was in fault is never shown as VALID,    *)
(* when only the handler writes VALID and VALIDACQ.                        *)
THEOREM FaultNotShown ==
  ASSUME WrittenAttributes \cap {"VALID", "VALIDACQ"} = {}
  PROVE  SignalSpec => []ValidMeansAcquired
<1>1. SignalInit => ValidMeansAcquired
  BY ValidityAssumption DEF SignalInit, ValidMeansAcquired
<1>2. ASSUME SignalTypeOK, ValidMeansAcquired, [SignalNext]_signalVars PROVE ValidMeansAcquired'
  <2>1. ASSUME NEW c \in Codes, WriteChange(c) PROVE ValidMeansAcquired'
    <3>1. PICK p \in Signal :
            /\ p = [point EXCEPT !.VALIDCHANGE = StoredCode(c)]
            /\ point' = GOFVALTI(p, StoredCode(c), SAState) \/ point' = p
      BY <1>2, <2>1, ChangedPoint
    <3>2. p.VALID = "VALID" => p.VALIDACQ # "FAULT"
      BY <1>2, <3>1 DEF ValidMeansAcquired, SignalTypeOK, Signal
    <3>3. SAState \in SAStates /\ StoredCode(c) \in Codes
      BY <1>2, <2>1, ChangedPoint, StoredType
    <3> QED
      BY <3>1, <3>2, <3>3, HandlerMeansAcquired DEF ValidMeansAcquired
  <2>2. ASSUME NEW a \in WrittenAttributes, WriteAttribute(a) PROVE ValidMeansAcquired'
    <3>1. a \notin {"VALID", "VALIDACQ"}
      OBVIOUS
    <3>2. point'.VALID = point.VALID /\ point'.VALIDACQ = point.VALIDACQ
      BY <1>2, <2>2, <3>1 DEF WriteAttribute, SignalTypeOK, Signal
    <3> QED
      BY <1>2, <3>2 DEF ValidMeansAcquired
  <2>3. CASE SAChanges \/ UNCHANGED signalVars
    BY <1>2, <2>3 DEF SAChanges, signalVars, ValidMeansAcquired
  <2> QED
    BY <1>2, <2>1, <2>2, <2>3 DEF SignalNext
<1> QED
  BY <1>1, <1>2, SignalTypesKept, PTL DEF SignalSpec

-----------------------------------------------------------------------------
(* What a step may do to a point: the action properties follow from what   *)
(* the handler makes of any point, one code after the other.               *)

LEMMA HandlerTakesAcquired ==
  ASSUME NEW p \in Signal, NEW s \in SAStates, NEW c \in Codes,
         p.VALID # "VALID", GOFVALTI(p, c, s).VALID = "VALID"
  PROVE  /\ GOFVALTI(p, c, s).VAL = GOFVALTI(p, c, s).VALACQ
         /\ s # "INHIB"
         /\ p.VALID \notin Held => c = "VALID" /\ s = "WORK"
<1>1. CASE c = "VALID"
  BY <1>1 DEF GOFVALTI, Signal, AcquiredValid, Held, SAStates
<1>2. CASE c \in {"FAULT", "NULL"}
  BY <1>2 DEF GOFVALTI, Signal, AcquiredFault
<1>3. CASE c \in {"FORCED", "INHIB", "MANUAL"}
  BY <1>3 DEF GOFVALTI, Signal, Forced, Inhibit, WithoutValue, Manual, ManualOf
<1>4. CASE c \in {"END_INHIB", "END_FORCED"}
  BY <1>4 DEF GOFVALTI, Signal, EndOfLocal, Held
<1>5. CASE c = "INHIB_GBL"
  BY <1>5 DEF GOFVALTI, Signal, InhibitGlobally, Held
<1>6. CASE c \in {"END_INHIB_GBL", "FAULT_GBL"}
  BY <1>6 DEF GOFVALTI, Signal, EndOfGlobal, GlobalFault
<1>7. CASE c \in {"INHIB_SA", "END_INHIB_SA"}
  BY <1>7 DEF GOFVALTI, Signal, InhibitSA, WithoutValue, EndOfSA, Held
<1> QED
  BY <1>1, <1>2, <1>3, <1>4, <1>5, <1>6, <1>7 DEF Codes

LEMMA HandlerHolds ==
  ASSUME NEW p \in Signal, NEW s \in SAStates, p.VALID \in Held,
         NEW c \in {"VALID", "NULL", "FAULT_GBL", "INHIB", "INHIB_SA", "END_INHIB_GBL"}
  PROVE  /\ GOFVALTI(p, c, s).VAL = p.VAL
         /\ GOFVALTI(p, c, s).VALID = p.VALID
<1>1. CASE c \in {"VALID", "NULL"}
  BY <1>1 DEF GOFVALTI, Signal, AcquiredValid, Held
<1>2. CASE c \in {"FAULT_GBL", "INHIB"}
  BY <1>2 DEF GOFVALTI, Signal, GlobalFault, Inhibit, Held
<1>3. CASE c \in {"INHIB_SA", "END_INHIB_GBL"}
  BY <1>3 DEF GOFVALTI, Signal, InhibitSA, EndOfGlobal, Held
<1> QED
  BY <1>1, <1>2, <1>3

LEMMA HandlerLifts ==
  ASSUME NEW p \in Signal, NEW s \in SAStates, NEW c \in Codes,
         p.VALID \in Held, GOFVALTI(p, c, s).VALID \notin Held
  PROVE  /\ ~p.INHIB
         /\ p.INHIBLOCAL => c \in {"END_INHIB", "END_FORCED"}
<1>1. CASE c \in {"FAULT", "VALID", "NULL"}
  BY <1>1 DEF GOFVALTI, Signal, AcquiredFault, AcquiredValid, Held
<1>2. CASE c \in {"FORCED", "INHIB", "MANUAL"}
  BY <1>2 DEF GOFVALTI, Signal, Forced, Inhibit, Manual, ManualOf, Held
<1>3. CASE c \in {"END_INHIB", "END_FORCED"}
  BY <1>3 DEF GOFVALTI, Signal, EndOfLocal, Held
<1>4. CASE c \in {"INHIB_GBL", "END_INHIB_GBL", "FAULT_GBL"}
  BY <1>4 DEF GOFVALTI, Signal, InhibitGlobally, EndOfGlobal, GlobalFault, Held
<1>5. CASE c \in {"INHIB_SA", "END_INHIB_SA"}
  BY <1>5 DEF GOFVALTI, Signal, InhibitSA, EndOfSA, Held
<1> QED
  BY <1>1, <1>2, <1>3, <1>4, <1>5 DEF Codes

(* A point that a code makes VALID shows the acquired value, its SA is not *)
(* inhibited, and only an acquisition ends a fault.                        *)
THEOREM ShownAsAcquired == SignalSpec => ValidTakesAcquired
<1> DEFINE Taken(c) == /\ point'.VAL = point'.VALACQ
                       /\ sa # "INHIB"
                       /\ point.VALID \notin Held => c = "VALID" /\ SAState = "WORK"
<1>1. ASSUME SignalTypeOK, NEW c \in Codes, WriteChange(c),
             point.VALID # "VALID", point'.VALID = "VALID"
      PROVE  Taken(c)
  <2>1. PICK p \in Signal :
          /\ p = [point EXCEPT !.VALIDCHANGE = StoredCode(c)]
          /\ point' = GOFVALTI(p, StoredCode(c), SAState) \/ point' = p
    BY <1>1, ChangedPoint
  <2>2. p.VALID = point.VALID
    BY <1>1, <2>1 DEF SignalTypeOK, Signal
  <2>3. SAState \in SAStates /\ StoredCode(c) \in Codes
    BY <1>1, ChangedPoint, StoredType
  <2>4. point' = GOFVALTI(p, StoredCode(c), SAState)
    BY <1>1, <2>1, <2>2
  <2>5. /\ point'.VAL = point'.VALACQ
        /\ SAState # "INHIB"
        /\ point.VALID \notin Held => StoredCode(c) = "VALID" /\ SAState = "WORK"
    BY <1>1, <2>2, <2>3, <2>4, HandlerTakesAcquired
  <2> QED
    BY <2>5 DEF StoredCode, SAState, Unlinked
<1>2. SignalTypeOK =>
        [\A c \in Codes :
           (/\ WriteChange(c)
            /\ point.VALID # "VALID"
            /\ point'.VALID = "VALID") =>
             /\ point'.VAL = point'.VALACQ
             /\ sa # "INHIB"
             /\ point.VALID \notin Held => c = "VALID" /\ SAState = "WORK"]_signalVars
  BY <1>1
<1> QED
  BY <1>2, SignalTypesKept, PTL DEF SignalSpec, ValidTakesAcquired

(* What is shown of a point that is inhibited or forced stays as it is     *)
(* under acquisitions, faults and further inhibitions.                     *)
THEOREM HeldAsShown == SignalSpec => HeldAgainstAcquisition
<1>1. ASSUME SignalTypeOK,
             NEW c \in {"FAULT", "VALID", "NULL", "FAULT_GBL", "INHIB", "INHIB_SA",
                        "END_INHIB_GBL"},
             WriteChange(c), point.VALID \in Held
      PROVE  point'.VAL = point.VAL /\ point'.VALID = point.VALID
  <2>1. c \in Codes
    BY DEF Codes
  <2>2. PICK p \in Signal :
          /\ p = [point EXCEPT !.VALIDCHANGE = StoredCode(c)]
          /\ point' = GOFVALTI(p, StoredCode(c), SAState) \/ point' = p
    BY <1>1, <2>1, ChangedPoint
  <2>3. p.VALID = point.VALID /\ p.VAL = point.VAL
    BY <1>1, <2>2 DEF SignalTypeOK, Signal
  <2>4. SAState \in SAStates
    BY <1>1, <2>1, ChangedPoint
  <2>5. StoredCode(c) \in {"VALID", "NULL", "FAULT_GBL", "INHIB", "INHIB_SA", "END_INHIB_GBL"}
    BY DEF StoredCode
  <2>6. /\ GOFVALTI(p, StoredCode(c), SAState).VAL = p.VAL
        /\ GOFVALTI(p, StoredCode(c), SAState).VALID = p.VALID
    BY <1>1, <2>3, <2>4, <2>5, HandlerHolds
  <2> QED
    BY <2>2, <2>3, <2>6
<1>2. SignalTypeOK =>
        [\A c \in {"FAULT", "VALID", "NULL", "FAULT_GBL", "INHIB", "INHIB_SA", "END_INHIB_GBL"} :
           (WriteChange(c) /\ point.VALID \in Held) =>
             point'.VAL = point.VAL /\ point'.VALID = point.VALID]_signalVars
  BY <1>1
<1> QED
  BY <1>2, SignalTypesKept, PTL DEF SignalSpec, HeldAgainstAcquisition

(* A code lifts an inhibition when no other one remains.                   *)
THEOREM LiftedAlone == SignalSpec => LiftedWhenFree
<1>1. ASSUME SignalTypeOK, NEW c \in Codes, WriteChange(c),
             point.VALID \in Held, point'.VALID \notin Held
      PROVE  /\ ~point.INHIB
             /\ point.INHIBLOCAL => c \in {"END_INHIB", "END_FORCED"}
  <2>1. PICK p \in Signal :
          /\ p = [point EXCEPT !.VALIDCHANGE = StoredCode(c)]
          /\ point' = GOFVALTI(p, StoredCode(c), SAState) \/ point' = p
    BY <1>1, ChangedPoint
  <2>2. /\ p.VALID = point.VALID
        /\ p.INHIB = point.INHIB
        /\ p.INHIBLOCAL = point.INHIBLOCAL
    BY <1>1, <2>1 DEF SignalTypeOK, Signal
  <2>3. SAState \in SAStates /\ StoredCode(c) \in Codes
    BY <1>1, ChangedPoint, StoredType
  <2>4. point' = GOFVALTI(p, StoredCode(c), SAState)
    BY <1>1, <2>1, <2>2
  <2>5. /\ ~p.INHIB
        /\ p.INHIBLOCAL => StoredCode(c) \in {"END_INHIB", "END_FORCED"}
    BY <1>1, <2>2, <2>3, <2>4, HandlerLifts
  <2> QED
    BY <2>2, <2>5 DEF StoredCode
<1>2. SignalTypeOK =>
        [\A c \in Codes :
           (/\ WriteChange(c)
            /\ point.VALID \in Held
            /\ point'.VALID \notin Held) =>
             /\ ~point.INHIB
             /\ point.INHIBLOCAL => c \in {"END_INHIB", "END_FORCED"}]_signalVars
  BY <1>1
<1> QED
  BY <1>2, SignalTypesKept, PTL DEF SignalSpec, LiftedWhenFree

-----------------------------------------------------------------------------
(* Points.                                                                 *)

(* The tables of attributes and classes.                                   *)

(* What is gathered of an attribute is what its only list has.             *)
LEMMA GatheredList ==
  ASSUME NEW lists, NEW list \in lists, NEW a \in DOMAIN list,
         \A l \in lists : a \in DOMAIN l => l = list
  PROVE  a \in DOMAIN Gathered(lists) /\ Gathered(lists)[a] = list[a]
<1>1. a \in UNION {DOMAIN l : l \in lists}
  OBVIOUS
<1>2. {l \in lists : a \in DOMAIN l} = {list}
  OBVIOUS
<1>3. UNION {l[a] : l \in {m \in lists : a \in DOMAIN m}} = list[a]
  BY <1>2
<1> QED
  BY <1>1, <1>3 DEF Gathered

LEMMA GatheredDomain ==
  ASSUME NEW lists
  PROVE  DOMAIN Gathered(lists) = UNION {DOMAIN l : l \in lists}
BY DEF Gathered

(* The lists of what can be created.                                       *)
Lists ==
  {OfTypes, OfLimits, OfValues, OfScales, OfNets, OfPipes, OfSupplies, OfPlans,
   OfFlows, OfStates, OfSyntheses, OfAlarms, OfLinks, OfCommands, OfDispatch,
   OfConfirmations, OfDates, OfShifts, OfDispatchers, OfPreviousShifts, OfAny}

LEMMA ListDomains ==
  /\ DOMAIN OfTypes = {"TYPE", "L_EQTTYP", "LOCALFLAG"}
  /\ DOMAIN OfLimits = {"MINVAL", "MAXVAL"}
  /\ DOMAIN OfValues = Valued
  /\ DOMAIN OfScales = {"VALEX", "ALINHIB", "MNVALPHY", "MXVALPHY", "DISPP"}
  /\ DOMAIN OfNets = {"L_TL", "L_TM", "L_NETTYPE", "L_NET", "L_EQTORBORUPS", "L_EQTORBORDWN"}
  /\ DOMAIN OfPipes = {"NMPRESSURE", "KMREFUPS", "KMREFDWN"}
  /\ DOMAIN OfSupplies =
       {"SUPPLIER", "SUPPLIERMODE", "SUPPLIERSTATE", "L_CONSUMER", "L_CORRIDOR"}
  /\ DOMAIN OfPlans = {"PLANFLOW", "PLANPRESSURE", "FUNCTION"}
  /\ DOMAIN OfFlows = {"CONVERTCOEFF", "GRADLEVEL", "MXPRESSURE", "NMFLOW", "MXFLOW"}
  /\ DOMAIN OfStates =
       {"SYNTHSTATE", "DELEGABLE", "FLGREMOTECMD", "FLGMAINTENANCE", "NAMEMAINTENANCE"}
  /\ DOMAIN OfSyntheses = {"TSSYNTHETICAL"}
  /\ DOMAIN OfAlarms = {"ALARMBEGIN", "ALARMBEGINACK", "ALARMENDACK", "ALARMSYNTH"}
  /\ DOMAIN OfLinks = {"L_TYPINFO", "L_EQT"}
  /\ DOMAIN OfCommands = {"REMOTECONTROL", "ACTIONTYP"}
  /\ DOMAIN OfDispatch = {"L_DIPL", "ALDEST", "L_PIPE", "L_PIPELINE"}
  /\ DOMAIN OfConfirmations = {"CONFREMOTECMD"}
  /\ DOMAIN OfDates = {"DATEAINS"}
  /\ DOMAIN OfShifts = {"CURRENT_SHIFT_TIME"}
  /\ DOMAIN OfDispatchers = {"PREV_DISPATCHER"}
  /\ DOMAIN OfPreviousShifts = {"PREV_SHIFT_TIME"}
  /\ DOMAIN OfAny = Root \cup Ignored
BY DEF OfTypes, OfLimits, OfValues, OfScales, OfNets, OfPipes, OfSupplies, OfPlans,
       OfFlows, OfStates, OfSyntheses, OfAlarms, OfLinks, OfCommands, OfDispatch,
       OfConfirmations, OfDates, OfShifts, OfDispatchers, OfPreviousShifts, OfAny, Valued

(* Which classes take the attributes that can be read, and the alarms.     *)
LEMMA TakersOfKnown ==
  /\ \A a \in Valued : a \in DOMAIN Takers /\ Takers[a] = OfValues[a]
  /\ \A a \in DOMAIN OfAlarms : a \in DOMAIN Takers /\ Takers[a] = OfAlarms[a]
  /\ \A a \in Root : a \in DOMAIN Takers /\ Takers[a] = Classes
  /\ "DISPP" \in DOMAIN Takers /\ Takers["DISPP"] = {"DIPL", "SITE"}
  /\ "FUNCTION" \in DOMAIN Takers /\ Takers["FUNCTION"] = {"PIPELINE", "VA"}
  /\ \A a \in {"CURRENT_SHIFT_TIME", "PREV_DISPATCHER", "PREV_SHIFT_TIME"} :
       a \in DOMAIN Takers /\ Takers[a] = {"SITE"}
<1>0. Takers = Gathered(Lists)
  BY DEF Takers, Lists
<1>1. \A a \in Valued : a \in DOMAIN Takers /\ Takers[a] = OfValues[a]
  <2>1. \A a \in Valued : \A l \in Lists : a \in DOMAIN l => l = OfValues
    BY ListDomains DEF Lists, Valued, Root, Ignored
  <2>2. OfValues \in Lists
    BY DEF Lists
  <2> QED
    BY <1>0, <2>1, <2>2, ListDomains, GatheredList
<1>2. \A a \in DOMAIN OfAlarms : a \in DOMAIN Takers /\ Takers[a] = OfAlarms[a]
  <2>1. \A a \in DOMAIN OfAlarms : \A l \in Lists : a \in DOMAIN l => l = OfAlarms
    BY ListDomains DEF Lists, Valued, Root, Ignored
  <2>2. OfAlarms \in Lists
    BY DEF Lists
  <2> QED
    BY <1>0, <2>1, <2>2, GatheredList
<1>3. \A a \in Root : a \in DOMAIN Takers /\ Takers[a] = Classes
  <2>1. \A a \in Root : \A l \in Lists : a \in DOMAIN l => l = OfAny
    BY ListDomains DEF Lists, Valued, Root, Ignored
  <2>2. OfAny \in Lists
    BY DEF Lists
  <2>3. \A a \in Root : a \in DOMAIN OfAny /\ OfAny[a] = Classes
    BY DEF OfAny
  <2> QED
    BY <1>0, <2>1, <2>2, <2>3, GatheredList
<1>4. "DISPP" \in DOMAIN Takers /\ Takers["DISPP"] = {"DIPL", "SITE"}
  <2>1. \A l \in Lists : "DISPP" \in DOMAIN l => l = OfScales
    BY ListDomains DEF Lists, Valued, Root, Ignored
  <2>2. OfScales \in Lists
    BY DEF Lists
  <2>3. "DISPP" \in DOMAIN OfScales /\ OfScales["DISPP"] = {"DIPL", "SITE"}
    BY DEF OfScales
  <2> QED
    BY <1>0, <2>1, <2>2, <2>3, GatheredList
<1>5. "FUNCTION" \in DOMAIN Takers /\ Takers["FUNCTION"] = {"PIPELINE", "VA"}
  <2>1. \A l \in Lists : "FUNCTION" \in DOMAIN l => l = OfPlans
    BY ListDomains DEF Lists, Valued, Root, Ignored
  <2>2. OfPlans \in Lists
    BY DEF Lists
  <2>3. "FUNCTION" \in DOMAIN OfPlans /\ OfPlans["FUNCTION"] = {"PIPELINE", "VA"}
    BY DEF OfPlans
  <2> QED
    BY <1>0, <2>1, <2>2, <2>3, GatheredList
<1>6. ASSUME NEW a \in {"CURRENT_SHIFT_TIME", "PREV_DISPATCHER", "PREV_SHIFT_TIME"}
      PROVE  a \in DOMAIN Takers /\ Takers[a] = {"SITE"}
  <2>1. PICK list \in {OfShifts, OfDispatchers, OfPreviousShifts} :
          a \in DOMAIN list /\ list[a] = {"SITE"}
    BY DEF OfShifts, OfDispatchers, OfPreviousShifts
  <2>2. \A l \in Lists : a \in DOMAIN l => l = list
    BY <2>1, ListDomains DEF Lists, Valued, Root, Ignored
  <2>3. list \in Lists
    BY DEF Lists
  <2> QED
    BY <1>0, <2>1, <2>2, <2>3, GatheredList
<1> QED
  BY <1>1, <1>2, <1>3, <1>4, <1>5, <1>6

(* Which classes the functions read and write.                             *)
LEMMA ReadersOfKnown ==
  /\ DOMAIN Readers = {"STATUS", "SHORTLABEL", "VALID", "VALIDACQ", "VALIDCHANGE", "INHIB",
                       "INHIBLOCAL"} \cup Valued \cup
                      {"FUNCTION", "DISPP", "CURRENT_SHIFT_TIME", "PREV_DISPATCHER",
                       "PREV_SHIFT_TIME"}
  /\ \A a \in {"STATUS", "SHORTLABEL", "VALID", "VALIDACQ", "VALIDCHANGE", "INHIB",
               "INHIBLOCAL"} : Readers[a] = Classes
  /\ \A a \in Valued : Readers[a] = ReadsOf(a)
  /\ Readers["FUNCTION"] = {"PIPELINE", "VA"}
  /\ Readers["DISPP"] = {"SITE"}
  /\ \A a \in {"CURRENT_SHIFT_TIME", "PREV_DISPATCHER", "PREV_SHIFT_TIME"} :
       Readers[a] = {"SITE"}
<1> DEFINE lists == {ReadOfAny, ReadOfSome, OfShifts, OfDispatchers, OfPreviousShifts}
<1>1. Readers = Gathered(lists)
  BY DEF Readers
<1>2. /\ DOMAIN ReadOfAny = {"STATUS", "SHORTLABEL", "VALID", "VALIDACQ", "VALIDCHANGE",
                             "INHIB", "INHIBLOCAL"}
      /\ DOMAIN ReadOfSome = Valued \cup {"FUNCTION", "DISPP"}
  BY DEF ReadOfAny, ReadOfSome
<1>3. DOMAIN Readers = UNION {DOMAIN l : l \in lists}
  BY <1>1, GatheredDomain
<1>4. ASSUME NEW a \in {"STATUS", "SHORTLABEL", "VALID", "VALIDACQ", "VALIDCHANGE", "INHIB",
                        "INHIBLOCAL"}
      PROVE  Readers[a] = Classes
  <2>1. \A l \in lists : a \in DOMAIN l => l = ReadOfAny
    BY <1>2, ListDomains DEF Valued
  <2>2. ReadOfAny \in lists /\ a \in DOMAIN ReadOfAny /\ ReadOfAny[a] = Classes
    BY DEF ReadOfAny
  <2> HIDE DEF lists
  <2> QED
    BY <1>1, <2>1, <2>2, GatheredList
<1>5. ASSUME NEW a \in Valued \cup {"FUNCTION", "DISPP"}
      PROVE  Readers[a] = ReadOfSome[a]
  <2>1. \A l \in lists : a \in DOMAIN l => l = ReadOfSome
    BY <1>2, ListDomains DEF Valued
  <2>2. ReadOfSome \in lists /\ a \in DOMAIN ReadOfSome
    BY <1>2
  <2> HIDE DEF lists
  <2> QED
    BY <1>1, <2>1, <2>2, GatheredList
<1>6. /\ \A a \in Valued : ReadOfSome[a] = ReadsOf(a)
      /\ ReadOfSome["FUNCTION"] = {"PIPELINE", "VA"}
      /\ ReadOfSome["DISPP"] = {"SITE"}
  BY DEF ReadOfSome, ReadsFUNCTION, ReadsDISPP, Valued
<1>7. ASSUME NEW a \in {"CURRENT_SHIFT_TIME", "PREV_DISPATCHER", "PREV_SHIFT_TIME"}
      PROVE  Readers[a] = {"SITE"}
  <2>1. PICK list \in {OfShifts, OfDispatchers, OfPreviousShifts} :
          a \in DOMAIN list /\ list[a] = {"SITE"}
    BY DEF OfShifts, OfDispatchers, OfPreviousShifts
  <2>2. \A l \in lists : a \in DOMAIN l => l = list
    BY <1>2, <2>1, ListDomains DEF Valued
  <2>3. list \in lists
    OBVIOUS
  <2> HIDE DEF lists
  <2> QED
    BY <1>1, <2>1, <2>2, <2>3, GatheredList
<1>8. DOMAIN Readers = {"STATUS", "SHORTLABEL", "VALID", "VALIDACQ", "VALIDCHANGE", "INHIB",
                       "INHIBLOCAL"} \cup Valued \cup
                      {"FUNCTION", "DISPP", "CURRENT_SHIFT_TIME", "PREV_DISPATCHER",
                       "PREV_SHIFT_TIME"}
  BY <1>2, <1>3, ListDomains
<1> QED
  BY <1>4, <1>5, <1>6, <1>7, <1>8

LEMMA WritersOfKnown ==
  /\ DOMAIN Writers = {"STATUS", "SHORTLABEL", "VALID", "VALIDACQ", "INHIB", "INHIBLOCAL"}
                        \cup Valued \cup {"CURRENT_SHIFT_TIME", "PREV_DISPATCHER"}
  /\ \A a \in {"STATUS", "SHORTLABEL", "VALID", "VALIDACQ", "INHIB", "INHIBLOCAL"} :
       Writers[a] = Classes
  /\ \A a \in Valued : Writers[a] = WritesOf(a)
  /\ \A a \in {"CURRENT_SHIFT_TIME", "PREV_DISPATCHER"} : Writers[a] = {"SITE"}
<1> DEFINE lists == {WrittenOfAny, WrittenOfSome, OfShifts, OfDispatchers}
<1>1. Writers = Gathered(lists)
  BY DEF Writers
<1>2. /\ DOMAIN WrittenOfAny =
           {"STATUS", "SHORTLABEL", "VALID", "VALIDACQ", "INHIB", "INHIBLOCAL"}
      /\ DOMAIN WrittenOfSome = Valued
  BY DEF WrittenOfAny, WrittenOfSome
<1>3. DOMAIN Writers = UNION {DOMAIN l : l \in lists}
  BY <1>1, GatheredDomain
<1>4. ASSUME NEW a \in {"STATUS", "SHORTLABEL", "VALID", "VALIDACQ", "INHIB", "INHIBLOCAL"}
      PROVE  Writers[a] = Classes
  <2>1. \A l \in lists : a \in DOMAIN l => l = WrittenOfAny
    BY <1>2, ListDomains DEF Valued
  <2>2. WrittenOfAny \in lists /\ a \in DOMAIN WrittenOfAny /\ WrittenOfAny[a] = Classes
    BY DEF WrittenOfAny
  <2> HIDE DEF lists
  <2> QED
    BY <1>1, <2>1, <2>2, GatheredList
<1>5. ASSUME NEW a \in Valued
      PROVE  Writers[a] = WritesOf(a)
  <2>1. \A l \in lists : a \in DOMAIN l => l = WrittenOfSome
    BY <1>2, ListDomains DEF Valued
  <2>2. WrittenOfSome \in lists /\ a \in DOMAIN WrittenOfSome /\ WrittenOfSome[a] = WritesOf(a)
    BY DEF WrittenOfSome
  <2> HIDE DEF lists
  <2> QED
    BY <1>1, <2>1, <2>2, GatheredList
<1>6. ASSUME NEW a \in {"CURRENT_SHIFT_TIME", "PREV_DISPATCHER"}
      PROVE  Writers[a] = {"SITE"}
  <2>1. PICK list \in {OfShifts, OfDispatchers} : a \in DOMAIN list /\ list[a] = {"SITE"}
    BY DEF OfShifts, OfDispatchers
  <2>2. \A l \in lists : a \in DOMAIN l => l = list
    BY <1>2, <2>1, ListDomains DEF Valued
  <2>3. list \in lists
    OBVIOUS
  <2> HIDE DEF lists
  <2> QED
    BY <1>1, <2>1, <2>2, <2>3, GatheredList
<1>7. DOMAIN Writers = {"STATUS", "SHORTLABEL", "VALID", "VALIDACQ", "INHIB", "INHIBLOCAL"}
                        \cup Valued \cup {"CURRENT_SHIFT_TIME", "PREV_DISPATCHER"}
  BY <1>2, <1>3, ListDomains
<1> QED
  BY <1>4, <1>5, <1>6, <1>7

-----------------------------------------------------------------------------
(* What the tables have in common, attribute by attribute.                 *)

(* Only a pipe takes a value that it has no part for.                      *)
LEMMA OnlyPipesAssert ==
  ASSUME NEW c, NEW a \in Attributes, Asserts(c, a)
  PROVE  c = "PIPE"
<1>1. CASE a \in Valued
  <2>1. Takers[a] = OfValues[a]
    BY <1>1, TakersOfKnown
  <2>2. c \in CreatesVAL \cup CreatesVALACQ \cup CreatesVALMANUAL
    BY <1>1, <2>1 DEF Asserts, OfValues, Valued
  <2>3. PartOf(c, a) = {IF c \in {"TM", "TR", "ICM"} THEN "AI" ELSE "DI"}
    <3>1. a \in DOMAIN OfValues /\ a \notin DOMAIN OfAlarms
      BY <1>1, ListDomains DEF Valued
    <3> QED
      BY <3>1, Zenon DEF PartOf
  <2>4. (IF c \in {"TM", "TR", "ICM"} THEN "AI" ELSE "DI") \notin Parts(c)
    BY <2>3, Zenon DEF Asserts
  <2> QED
    BY <2>2, <2>4 DEF CreatesVAL, CreatesVALACQ, CreatesVALMANUAL, Parts, Equipment
<1>2. CASE a \in DOMAIN OfAlarms
  <2>1. c \in Alarmed
    BY <1>2, TakersOfKnown DEF Asserts, OfAlarms
  <2>2. ~({"AL"} \subseteq Parts(c))
    BY <1>2, ListDomains DEF Asserts, PartOf, Valued
  <2> QED
    BY <2>1, <2>2 DEF Alarmed, Parts, Equipment
<1>3. CASE a \notin Valued \cup DOMAIN OfAlarms
  BY <1>3, ListDomains DEF Asserts, PartOf
<1> QED
  BY <1>1, <1>2, <1>3

(* A reader is given what a point of the class holds of the attribute.     *)
ReadBack(c, a) ==
  a \in DOMAIN Readers =>
    \/ a = "DISPP" /\ c = "DIPL"
    \/ c \in Readers[a] /\ PartOf(c, a) \subseteq Parts(c)

LEMMA WithoutParts ==
  ASSUME NEW c, NEW a, a \notin Valued, a \in DOMAIN Readers
  PROVE  PartOf(c, a) = {}
BY ListDomains, ReadersOfKnown DEF PartOf

LEMMA CreatedIsRead ==
  ASSUME NEW c \in Classes, NEW a, c \in Takers[a], ~Asserts(c, a)
  PROVE  ReadBack(c, a)
<1> SUFFICES ASSUME a \in DOMAIN Readers PROVE ReadBack(c, a)
  BY DEF ReadBack
<1>1. PartOf(c, a) \subseteq Parts(c)
  BY DEF Asserts
<1>2. CASE a \in Valued
  <2>1. c \in OfValues[a]
    BY <1>2, TakersOfKnown
  <2>2. OfValues[a] \subseteq ReadsOf(a)
    BY <1>2 DEF OfValues, ReadsOf, Valued, ReadsVAL, ReadsVALACQ, ReadsVALMANUAL
  <2> QED
    BY <1>1, <1>2, <2>1, <2>2, ReadersOfKnown DEF ReadBack
<1>3. CASE a \in {"STATUS", "SHORTLABEL", "VALID", "VALIDACQ", "VALIDCHANGE", "INHIB",
                  "INHIBLOCAL"}
  BY <1>1, <1>3, ReadersOfKnown DEF ReadBack
<1>4. CASE a \in {"FUNCTION", "DISPP", "CURRENT_SHIFT_TIME", "PREV_DISPATCHER",
                  "PREV_SHIFT_TIME"}
  BY <1>1, <1>4, ReadersOfKnown, TakersOfKnown DEF ReadBack
<1> QED
  BY <1>2, <1>3, <1>4, ReadersOfKnown

LEMMA WrittenIsRead ==
  ASSUME NEW c \in Classes, NEW a \in DOMAIN Writers, c \in Writers[a],
         a \in Valued => PartOf(c, a) \subseteq Parts(c)
  PROVE  ReadBack(c, a)
<1>1. CASE a \in Valued
  BY <1>1, ReadersOfKnown, WritersOfKnown
  DEF ReadBack, ReadsOf, WritesOf, ReadsVAL, ReadsVALACQ, ReadsVALMANUAL,
      WritesVAL, WritesVALACQ, WritesVALMANUAL
<1>2. CASE a \notin Valued
  <2>1. a \in DOMAIN Readers /\ c \in Readers[a]
    BY <1>2, ReadersOfKnown, WritersOfKnown
  <2> QED
    BY <1>2, <2>1, WithoutParts DEF ReadBack
<1> QED
  BY <1>1, <1>2

(* What can be read is written, but for three attributes.                  *)
LEMMA ReadIsWritten ==
  ASSUME NEW c, NEW a \in DOMAIN Readers \ {"DISPP", "PREV_SHIFT_TIME", "VALIDCHANGE"},
         c \in Readers[a], ~NeverFound(c, a)
  PROVE  a \in DOMAIN Writers /\ c \in Writers[a]
<1>1. CASE a \in Valued
  BY <1>1, ReadersOfKnown, WritersOfKnown
  DEF ReadsOf, WritesOf, ReadsVAL, ReadsVALACQ, ReadsVALMANUAL,
      WritesVAL, WritesVALACQ, WritesVALMANUAL
<1>2. CASE a \notin Valued
  BY <1>2, ReadersOfKnown, WritersOfKnown DEF NeverFound
<1> QED
  BY <1>1, <1>2

-----------------------------------------------------------------------------
(* The attributes of a point.                                              *)

PointTyped(p) ==
  /\ DOMAIN p = {"class", "given", "unit", "sa"}
  /\ p.class \in Classes
  /\ DOMAIN p.given \subseteq Attributes
  /\ \A a \in DOMAIN p.given :
       p.given[a] \in IF a \in Enumerated THEN Stored \ {"odd"} ELSE Stored
  /\ p.unit \in Nat
  /\ p.sa \in Tags

PointRead(p) == \A a \in DOMAIN p.given : ReadBack(p.class, a)

RowsTyped == \A table \in Tables : \A row \in tables[table] : row[1] \in Names /\ row[2] \in Nat

Errors ==
  {"NONE", "ABORT", "STRING_IS_EMPTY", "RUNTIME_ERROR", "POINT_NOT_FOUND",
   "ILLEGAL_PARAMETER_VALUE"}

(* The first rows of a sequence, and rows that share nothing unique.       *)
FirstOf(rows, n) == {rows[i] : i \in 1..n}

Distinct(table, rows) == \A r, s \in rows : Clash(table, r, s) => r = s

(* A transaction holds the rows it has been through, none of them twice;   *)
(* nothing is reported before it ends.                                     *)
Row == Names \X (Nat \ {NoUnit})

LoadTyped(l) ==
  /\ l \in [table : Tables, rows : Seq(Row), next : Nat \ {0}, content : SUBSET Row]
  /\ \E n \in 0..Len(l.rows) :
       /\ l.content = FirstOf(l.rows, n)
       /\ l.next <= Len(l.rows) => l.next = n + 1
  /\ Distinct(l.table, l.content)

LoadKept == load = NoLoad \/ (LoadTyped(load) /\ reply = None)

(* The type invariant and the agreement of the tables, in one invariant:   *)
(* what a point has been given of an attribute is read back, and a table   *)
(* has rows of the load that was reported last.                            *)
Agreement ==
  /\ file \in Files
  /\ DOMAIN points = Tags
  /\ DOMAIN tables = Tables
  /\ DOMAIN loaded = Tables
  /\ \A tag \in Tags : Exists(tag) => PointTyped(points[tag]) /\ PointRead(points[tag])
  /\ RowsTyped
  /\ reply.error \in Errors
  /\ LoadKept
  /\ TableIsOfOneLoad

LEMMA AgreementTypes == Agreement => TypeOK
<1> SUFFICES ASSUME Agreement PROVE TypeOK
  OBVIOUS
<1>1. load.table \in Tables \cup {"none"}
  BY DEF Agreement, LoadKept, LoadTyped, NoLoad
<1> QED
  BY <1>1 DEF Agreement, TypeOK, PointTyped, RowsTyped, Errors

(* What a number that an enumeration does not have is stored as.           *)
LEMMA NormalIsStored ==
  ASSUME NEW a, NEW text \in Texts
  PROVE  Normal(a, text) \in IF a \in Enumerated THEN Stored \ {"odd"} ELSE Stored
BY DEF Normal, Texts, Stored, Enumerated

LEMMA UnitTyped ==
  ASSUME RowsTyped, NEW name, UnitOf(name) # {}
  PROVE  (CHOOSE id \in UnitOf(name) : TRUE) \in Nat
<1>1. UnitOf(name) \subseteq Nat
  BY DEF RowsTyped, UnitOf, Tables
<1> QED
  BY <1>1

LEMMA DescribedPoint ==
  ASSUME Agreement, NEW tag \in Tags, NEW d, d = file[tag],
         CanBeCreated(d.class), \A a \in Known(d) : ~Refused(d, a) /\ ~Asserts(d.class, a)
  PROVE  PointTyped(Described(tag, d)) /\ PointRead(Described(tag, d))
<1> DEFINE G == Known(d) \ (Ignored \cup {"UNITY"})
           p == Described(tag, d)
<1>1. /\ DOMAIN p = {"class", "given", "unit", "sa"}
      /\ p.class = d.class
      /\ p.given = [a \in G |-> Normal(a, d.given[a])]
      /\ p.sa = tag
      /\ p.unit = IF "UNITY" \in Known(d)
                    THEN CHOOSE id \in UnitOf(d.given["UNITY"]) : TRUE
                    ELSE NoUnit
  BY DEF Described
<1>2. d.class \in Classes
  BY DEF CanBeCreated, HavePassport, Classes
<1>3. ASSUME NEW a \in G PROVE d.given[a] \in Texts
  BY PointsAssumption DEF Agreement, Known
<1>4. p.unit \in Nat
  <2>1. CASE "UNITY" \in Known(d)
    <3>1. UnitOf(d.given["UNITY"]) # {}
      BY <2>1 DEF Refused
    <3> QED
      BY <1>1, <2>1, <3>1, UnitTyped DEF Agreement
  <2>2. CASE "UNITY" \notin Known(d)
    BY <1>1, <2>2 DEF NoUnit
  <2> QED
    BY <2>1, <2>2
<1>5. ASSUME NEW a \in G
      PROVE  /\ a \in Attributes
             /\ p.given[a] \in IF a \in Enumerated THEN Stored \ {"odd"} ELSE Stored
             /\ ReadBack(d.class, a)
  <2>1. a \in Known(d) /\ a \in Attributes
    BY DEF Known
  <2>2. p.given[a] = Normal(a, d.given[a])
    BY <1>1
  <2>3. d.class \in Takers[a] /\ ~Asserts(d.class, a)
    BY <2>1 DEF Refused
  <2> QED
    BY <1>2, <1>3, <2>1, <2>2, <2>3, NormalIsStored, CreatedIsRead
<1>6. DOMAIN p.given = G
  BY <1>1
<1> HIDE DEF p, G
<1>7. PointTyped(p)
  BY <1>1, <1>2, <1>4, <1>5, <1>6 DEF PointTyped
<1>8. PointRead(p)
  BY <1>1, <1>5, <1>6 DEF PointRead
<1> QED
  BY <1>7, <1>8 DEF p

LEMMA WrittenPoint ==
  ASSUME RowsTyped, NEW p, PointTyped(p), PointRead(p), NEW a, NEW text \in TextsOf(a),
         ~CannotWrite(p, a, text)
  PROVE  PointTyped(WrittenTo(p, a, text)) /\ PointRead(WrittenTo(p, a, text))
<1> DEFINE q == WrittenTo(p, a, text)
<1>1. CASE a = "UNITY"
  <2>1. q = [p EXCEPT !.unit = CHOOSE id \in UnitOf(text) : TRUE]
    <3>1. a \notin DOMAIN Writers /\ a # "L_SA"
      BY <1>1, WritersOfKnown DEF Valued
    <3> QED
      BY <1>1, <3>1, Zenon DEF WrittenTo
  <2>2. (CHOOSE id \in UnitOf(text) : TRUE) \in Nat
    BY <1>1, UnitTyped DEF CannotWrite
  <2> HIDE DEF q
  <2>3. PointTyped(q) /\ PointRead(q)
    BY <2>1, <2>2 DEF PointTyped, PointRead
  <2> QED
    BY <2>3 DEF q
<1>2. CASE a = "L_SA"
  <2>1. q = [p EXCEPT !.sa = text]
    <3>1. a \notin DOMAIN Writers /\ a # "UNITY"
      BY <1>2, WritersOfKnown DEF Valued
    <3> QED
      BY <1>2, <3>1, Zenon DEF WrittenTo
  <2>2. text \in Tags
    BY <1>2 DEF CannotWrite
  <2> HIDE DEF q
  <2>3. PointTyped(q) /\ PointRead(q)
    BY <2>1, <2>2 DEF PointTyped, PointRead
  <2> QED
    BY <2>3 DEF q
<1>3. CASE a \in DOMAIN Writers /\ p.class \in Writers[a]
  <2> DEFINE given == [b \in DOMAIN p.given \cup {a} |->
                         IF b = a THEN Normal(a, text) ELSE p.given[b]]
  <2>1. a \notin {"UNITY", "L_SA"}
    BY <1>3, WritersOfKnown DEF Valued
  <2>2. q = [p EXCEPT !.given = given]
    BY <1>3, <2>1, Zenon DEF WrittenTo
  <2>3. /\ DOMAIN q = DOMAIN p
        /\ q.class = p.class /\ q.unit = p.unit /\ q.sa = p.sa
        /\ q.given = given
    BY <2>2 DEF PointTyped
  <2>4. a \in Attributes
    BY <1>3, WritersOfKnown, TakersOfKnown DEF Attributes, Root
  <2>5. text \in Texts
    BY <2>1 DEF TextsOf, Texts
  <2>6. ReadBack(p.class, a)
    <3>1. a \in Valued => PartOf(p.class, a) \subseteq Parts(p.class)
      BY <1>3 DEF CannotWrite, HasPart
    <3> QED
      BY <1>3, <3>1, WrittenIsRead DEF PointTyped
  <2>7. DOMAIN given = DOMAIN p.given \cup {a}
    OBVIOUS
  <2>8. ASSUME NEW b \in DOMAIN given
        PROVE  /\ b \in Attributes
               /\ given[b] \in IF b \in Enumerated THEN Stored \ {"odd"} ELSE Stored
               /\ ReadBack(p.class, b)
    BY <2>4, <2>5, <2>6, NormalIsStored DEF PointTyped, PointRead
  <2> HIDE DEF q, given
  <2>9. PointTyped(q)
    BY <2>3, <2>8 DEF PointTyped
  <2>10. PointRead(q)
    BY <2>3, <2>8 DEF PointRead
  <2> QED
    BY <2>9, <2>10 DEF q
<1>4. CASE a \notin {"UNITY", "L_SA"} /\ ~(a \in DOMAIN Writers /\ p.class \in Writers[a])
  <2>1. q = p
    BY <1>4, Zenon DEF WrittenTo
  <2> QED
    BY <2>1
<1> QED
  BY <1>1, <1>2, <1>3, <1>4

-----------------------------------------------------------------------------
(* The steps.                                                              *)

(* The error that an answer reports.                                       *)
LEMMA Answered ==
  ASSUME NEW op, NEW tag, NEW about, NEW text, NEW error, Answer(op, tag, about, text, error)
  PROVE  /\ reply'.op = op /\ reply'.tag = tag /\ reply'.about = about
         /\ reply'.text = text /\ reply'.error = error
BY DEF Answer

LEMMA AgreementInit == Init => Agreement
<1> SUFFICES ASSUME Init PROVE Agreement
  OBVIOUS
<1>1. \A tag \in Tags : ~Exists(tag)
  BY DEF Init, Exists
<1>2. RowsTyped
  BY DEF Init, RowsTyped
<1>3. reply.error \in Errors
  BY DEF Init, None, Errors
<1>4. TableIsOfOneLoad
  <2> SUFFICES ASSUME NEW table \in Tables
               PROVE  \E n \in 0..Len(loaded[table]) :
                        tables[table] = {loaded[table][i] : i \in 1..n}
    BY DEF Init, TableIsOfOneLoad
  <2>1. tables[table] = {} /\ 0 \in 0..Len(loaded[table])
    BY DEF Init
  <2>2. {loaded[table][i] : i \in 1..0} = {}
    OBVIOUS
  <2> QED
    BY <2>1, <2>2
<1> QED
  BY <1>1, <1>2, <1>3, <1>4 DEF Init, Agreement, LoadKept

(* A request that leaves the data alone answers with one of the errors.    *)
LEMMA AgreementKept ==
  ASSUME Agreement, UNCHANGED <<file, points, tables, loaded>>, reply'.error \in Errors, LoadKept'
  PROVE  Agreement'
<1>1. RowsTyped'
  BY DEF Agreement, RowsTyped
<1>2. \A tag \in Tags : Exists(tag)' => PointTyped(points[tag])' /\ PointRead(points[tag])'
  BY DEF Agreement, Exists, PointTyped, PointRead
<1>3. TableIsOfOneLoad'
  BY DEF Agreement, TableIsOfOneLoad
<1> QED
  BY <1>1, <1>2, <1>3 DEF Agreement

LEMMA NoneLoads ==
  ASSUME Ready, UNCHANGED load
  PROVE  LoadKept'
BY DEF Ready, LoadKept

(* One point is changed.                                                   *)
LEMMA AgreementPoint ==
  ASSUME Agreement, UNCHANGED <<file, tables, loaded>>, reply'.error \in Errors, LoadKept',
         NEW tag \in Tags, NEW p, PointTyped(p), PointRead(p),
         points' = [points EXCEPT ![tag] = p]
  PROVE  Agreement'
<1>1. RowsTyped'
  BY DEF Agreement, RowsTyped
<1>2. ASSUME NEW t \in Tags, Exists(t)'
      PROVE  PointTyped(points'[t]) /\ PointRead(points'[t])
  <2>1. CASE t = tag
    BY <2>1 DEF Agreement
  <2>2. CASE t # tag
    BY <1>2, <2>2 DEF Agreement, Exists
  <2> QED
    BY <2>1, <2>2
<1>3. DOMAIN points' = Tags
  BY DEF Agreement
<1>4. TableIsOfOneLoad'
  BY DEF Agreement, TableIsOfOneLoad
<1> QED
  BY <1>1, <1>2, <1>3, <1>4 DEF Agreement

(* The transaction that loads a table.                                     *)
LEMMA AgreementBegin ==
  ASSUME Agreement, NEW table \in Tables, NEW rows \in Contents[table], BeginLoad(table, rows)
  PROVE  Agreement'
<1>1. CASE Failed("RUNTIME_ERROR") /\ UNCHANGED load
  <2>1. reply'.error \in Errors
    BY <1>1, Answered DEF Failed, Errors
  <2>2. LoadKept'
    BY <1>1, NoneLoads DEF BeginLoad
  <2> QED
    BY <2>1, <2>2, AgreementKept DEF BeginLoad
<1>2. CASE /\ load' = [table |-> table, rows |-> rows, next |-> 1, content |-> {}]
           /\ reply' = None
  <2> DEFINE l == [table |-> table, rows |-> rows, next |-> 1, content |-> {}]
  <2>1. rows \in Seq(Row)
    BY PointsAssumption DEF Row
  <2>2. l \in [table : Tables, rows : Seq(Row), next : Nat \ {0}, content : SUBSET Row]
    BY <2>1
  <2>3. 0 \in 0..Len(rows) /\ FirstOf(rows, 0) = {}
    BY <2>1 DEF FirstOf
  <2>4. l.content = {} /\ l.rows = rows /\ l.next = 0 + 1
    OBVIOUS
  <2> HIDE DEF l
  <2>5. LoadTyped(l)
    BY <2>2, <2>3, <2>4 DEF LoadTyped, Distinct
  <2>6. LoadKept'
    BY <1>2, <2>5 DEF LoadKept, l
  <2>7. reply'.error \in Errors
    BY <1>2 DEF None, Errors
  <2> QED
    BY <2>6, <2>7, AgreementKept DEF BeginLoad
<1> QED
  BY <1>1, <1>2 DEF BeginLoad

LEMMA ClashBoth ==
  ASSUME NEW table \in Tables, NEW r, NEW s, Clash(table, r, s)
  PROVE  Clash(table, s, r)
<1>1. CASE table = "DICT_UNITY_ID"
  BY <1>1 DEF Clash
<1>2. CASE table = "DICT_TSC_VAL_LABEL"
  BY <1>2 DEF Clash
<1>3. CASE table = "XDB_CE"
  BY <1>3 DEF Clash, SameEntry
<1> QED
  BY <1>1, <1>2, <1>3 DEF Tables

LEMMA AgreementInsert ==
  ASSUME Agreement, InsertRow
  PROVE  Agreement'
<1> DEFINE row == load.rows[load.next]
<1>1. /\ LoadTyped(load) /\ reply = None
      /\ load.next <= Len(load.rows)
      /\ UNCHANGED <<file, points, tables, loaded, reply>>
  BY DEF InsertRow, Filling, Agreement, LoadKept
<1>2. load \in [table : Tables, rows : Seq(Row), next : Nat \ {0}, content : SUBSET Row]
  BY <1>1 DEF LoadTyped
<1> DEFINE content == load.content \cup {row}
<1>3. PICK n \in 0..Len(load.rows) :
        load.content = FirstOf(load.rows, n) /\ load.next = n + 1
  BY <1>1 DEF LoadTyped
<1>4. row \in Row /\ Len(load.rows) \in Nat /\ n + 1 \in 0..Len(load.rows)
  BY <1>1, <1>2, <1>3
<1>5. LoadTyped(load')
  <2>1. CASE /\ \A r \in load.content : ~Clash(load.table, r, row)
             /\ load' = [load EXCEPT !.next = @ + 1, !.content = @ \cup {row}]
    <3>1. /\ load'.table = load.table /\ load'.rows = load.rows
          /\ load'.next = load.next + 1 /\ load'.content = load.content \cup {row}
          /\ load' \in [table : Tables, rows : Seq(Row), next : Nat \ {0}, content : SUBSET Row]
      <4>1. load' = [table |-> load.table, rows |-> load.rows, next |-> load.next + 1,
                     content |-> content]
        BY <1>2, <2>1
      <4>2. content \in SUBSET Row /\ load.next + 1 \in Nat \ {0}
        BY <1>2, <1>4
      <4> HIDE DEF content
      <4>3. load' \in [table : Tables, rows : Seq(Row), next : Nat \ {0}, content : SUBSET Row]
        BY <1>2, <4>1, <4>2
      <4> QED
        BY <4>1, <4>3 DEF content
    <3>2. load'.content = FirstOf(load.rows, n + 1)
      BY <1>3, <3>1 DEF FirstOf
    <3>3. load.table \in Tables
      BY <1>2
    <3>4. Distinct(load.table, load.content \cup {row})
      BY <1>1, <2>1, <3>3, ClashBoth DEF Distinct, LoadTyped
    <3>5. load'.next = (n + 1) + 1
      BY <1>3, <3>1
    <3> QED
      BY <1>4, <3>1, <3>2, <3>4, <3>5 DEF LoadTyped
  <2>2. CASE load' = [load EXCEPT !.next = Len(load.rows) + 1]
    <3>1. /\ load'.table = load.table /\ load'.rows = load.rows
          /\ load'.next = Len(load.rows) + 1 /\ load'.content = load.content
          /\ load' \in [table : Tables, rows : Seq(Row), next : Nat \ {0}, content : SUBSET Row]
      <4>1. load' = [table |-> load.table, rows |-> load.rows, next |-> Len(load.rows) + 1,
                     content |-> load.content]
        BY <1>2, <2>2
      <4>2. Len(load.rows) + 1 \in Nat \ {0}
        BY <1>4
      <4>3. load' \in [table : Tables, rows : Seq(Row), next : Nat \ {0}, content : SUBSET Row]
        BY <1>2, <4>1, <4>2
      <4> QED
        BY <4>1, <4>3
    <3>2. ~(load'.next <= Len(load'.rows))
      BY <1>4, <3>1
    <3> QED
      BY <1>1, <1>3, <3>1, <3>2 DEF LoadTyped
  <2> QED
    BY <2>1, <2>2 DEF InsertRow
<1>6. LoadKept'
  BY <1>1, <1>5 DEF LoadKept
<1>7. reply'.error \in Errors
  BY <1>1 DEF None, Errors
<1> QED
  BY <1>1, <1>6, <1>7, AgreementKept

LEMMA AgreementEnd ==
  ASSUME Agreement, EndLoad
  PROVE  Agreement'
<1>1. LoadTyped(load)
  BY DEF EndLoad, Agreement, LoadKept
<1>2. load' = NoLoad /\ UNCHANGED <<file, points>>
  BY DEF EndLoad
<1>3. LoadKept'
  BY <1>2 DEF LoadKept
<1>4. CASE Failed("RUNTIME_ERROR") /\ UNCHANGED <<tables, loaded>>
  <2>1. reply'.error \in Errors
    BY <1>4, Answered DEF Failed, Errors
  <2> QED
    BY <1>2, <1>3, <1>4, <2>1, AgreementKept
<1>5. CASE /\ tables' = [tables EXCEPT ![load.table] = load.content]
           /\ loaded' = [loaded EXCEPT ![load.table] = load.rows]
           /\ Answer("config", "none", load.table, "none", "NONE")
  <2>1. load.table \in Tables /\ load.content \subseteq Row
    BY <1>1 DEF LoadTyped
  <2>2. /\ DOMAIN tables' = Tables /\ DOMAIN loaded' = Tables
        /\ tables'[load.table] = load.content /\ loaded'[load.table] = load.rows
        /\ \A t \in Tables \ {load.table} : tables'[t] = tables[t] /\ loaded'[t] = loaded[t]
    BY <1>5, <2>1 DEF Agreement
  <2>3. RowsTyped'
    BY <2>1, <2>2 DEF RowsTyped, Agreement, Row
  <2>4. TableIsOfOneLoad'
    <3> SUFFICES ASSUME NEW t \in Tables
                 PROVE  /\ \E n \in 0..Len(loaded'[t]) :
                             tables'[t] = {loaded'[t][i] : i \in 1..n}
                        /\ \A r, s \in tables'[t] : Clash(t, r, s) => r = s
      BY Zenon DEF TableIsOfOneLoad, Clash, SameEntry
    <3>1. CASE t = load.table
      BY <1>1, <2>2, <3>1 DEF LoadTyped, FirstOf, Distinct
    <3>2. CASE t # load.table
      BY <2>2, <3>2 DEF Agreement, TableIsOfOneLoad
    <3> QED
      BY <3>1, <3>2
  <2>5. reply'.error \in Errors
    BY <1>5, Answered DEF Errors
  <2>6. \A tag \in Tags : Exists(tag)' => PointTyped(points[tag])' /\ PointRead(points[tag])'
    BY <1>2 DEF Agreement, Exists, PointTyped, PointRead
  <2> QED
    BY <1>2, <1>3, <2>2, <2>3, <2>4, <2>5, <2>6 DEF Agreement
<1> QED
  BY <1>4, <1>5 DEF EndLoad

LEMMA AgreementStep ==
  ASSUME Agreement, [Next]_vars
  PROVE  Agreement'
<1>1. CASE CreateNameless
  <2>1. reply'.error \in {"STRING_IS_EMPTY", "ABORT"}
    BY <1>1, Answered DEF CreateNameless
  <2> QED
    BY <1>1, <2>1, NoneLoads, AgreementKept DEF CreateNameless, Errors
<1>2. ASSUME NEW tag \in Tags, Create(tag, file[tag])
      PROVE  Agreement'
  <2>1. reply'.error \in Errors
    BY <1>2 DEF Create, Answer, Errors
  <2>2. CASE points' = points
    BY <1>2, <2>1, <2>2, NoneLoads, AgreementKept DEF Create
  <2>3. CASE points' = [points EXCEPT ![tag] = Described(tag, file[tag])]
    <3>1. PointTyped(Described(tag, file[tag])) /\ PointRead(Described(tag, file[tag]))
      BY <1>2, DescribedPoint DEF Create
    <3> QED
      BY <1>2, <2>1, <2>3, <3>1, NoneLoads, AgreementPoint DEF Create
  <2> QED
    BY <1>2, <2>2, <2>3 DEF Create
<1>3. ASSUME NEW tag \in Tags, CreateFails(tag, file[tag]) \/ CreateAborts(tag, file[tag])
      PROVE  Agreement'
  <2>1. reply'.error \in Errors
    BY <1>3 DEF CreateFails, CreateAborts, Failed, Answer, Errors
  <2> QED
    BY <1>3, <2>1, NoneLoads, AgreementKept DEF CreateFails, CreateAborts
<1>4. ASSUME NEW tag \in Tags, NEW a \in Written, NEW text \in TextsOf(a), Write(tag, a, text)
      PROVE  Agreement'
  <2>1. PointTyped(points[tag]) /\ PointRead(points[tag]) /\ RowsTyped
    BY <1>4 DEF Write, Agreement
  <2>2. /\ PointTyped(WrittenTo(points[tag], a, text))
        /\ PointRead(WrittenTo(points[tag], a, text))
    BY <1>4, <2>1, WrittenPoint DEF Write
  <2>3. points' = [points EXCEPT ![tag] = WrittenTo(points[tag], a, text)]
    BY <1>4 DEF Write
  <2>4. reply'.error \in Errors
    BY <1>4 DEF Write, Answer, Errors
  <2> QED
    BY <1>4, <2>2, <2>3, <2>4, NoneLoads, AgreementPoint DEF Write
<1>5. ASSUME NEW tag \in Tags, NEW a \in Written, NEW text \in TextsOf(a),
             WriteFails(tag, a, text)
      PROVE  Agreement'
  <2>1. reply'.error \in Errors
    BY <1>5 DEF WriteFails, Failed, Answer, Errors
  <2> QED
    BY <1>5, <2>1, NoneLoads, AgreementKept DEF WriteFails
<1>6. ASSUME NEW tag \in Tags, NEW a \in Written, WriteMistyped(tag, a)
      PROVE  Agreement'
  BY <1>6, NoneLoads, AgreementKept DEF WriteMistyped, Answer, Errors
<1>7. CASE UNCHANGED vars
  BY <1>7, AgreementKept DEF vars, Agreement, LoadKept
<1>8. CASE CreateTable
  BY <1>8, AgreementBegin, AgreementInsert, AgreementEnd DEF CreateTable
<1> QED
  BY <1>1, <1>2, <1>3, <1>4, <1>5, <1>6, <1>7, <1>8 DEF Next, CreateAny, WriteAny

LEMMA AlwaysAgreement == Spec => []Agreement
BY AgreementInit, AgreementStep, PTL DEF Spec

-----------------------------------------------------------------------------
(* The results.                                                            *)

(* Points hold attributes of the database only, enumerations their own     *)
(* values, whatever the files, the writes and the dictionaries are.        *)
THEOREM PointsTypeCorrect == Spec => []TypeOK
BY AlwaysAgreement, AgreementTypes, PTL

(* What a point holds of an attribute that can be read is what a reader is *)
(* given, for every class: the hand-written lists of the functions agree.  *)
THEOREM HeldIsGiven == Spec => []HeldIsRead
<1>1. ASSUME Agreement PROVE HeldIsRead
  <2> SUFFICES ASSUME NEW tag \in Tags, Exists(tag),
                      NEW a \in DOMAIN points[tag].given \cap DOMAIN Readers,
                      ~(a = "DISPP" /\ points[tag].class = "DIPL")
               PROVE  Read(points[tag], a) = [value |-> points[tag].given[a], error |-> "NONE"]
    BY DEF HeldIsRead
  <2>1. points[tag].class \in Readers[a] /\ HasPart(points[tag], a)
    BY <1>1 DEF Agreement, PointRead, ReadBack, HasPart
  <2>2. a # "UNITY" /\ a # "L_SA"
    BY ReadersOfKnown DEF Valued
  <2>3. Read(points[tag], a) = [value |-> GivenOrDefault(points[tag], a), error |-> "NONE"]
    BY <2>1, <2>2, Zenon DEF Read
  <2> QED
    BY <2>3 DEF GivenOrDefault
<1> QED
  BY <1>1, AlwaysAgreement, PTL

(* Of the load of a table only what ends it is answered.                   *)
LEMMA LoadsAnswer ==
  ASSUME Agreement, CreateTable
  PROVE  reply'.error # "ABORT" /\ reply'.op # "write"
<1>1. ASSUME NEW table \in Tables, NEW rows \in Contents[table], BeginLoad(table, rows)
      PROVE  reply'.error # "ABORT" /\ reply'.op # "write"
  BY <1>1, Answered DEF BeginLoad, Failed, None
<1>2. CASE InsertRow
  <2>1. reply' = None
    BY <1>2 DEF InsertRow, Filling, Agreement, LoadKept
  <2> QED
    BY <2>1 DEF None
<1>3. CASE EndLoad
  BY <1>3, Answered DEF EndLoad, Failed
<1> QED
  BY <1>1, <1>2, <1>3 DEF CreateTable

(* The database ends for a pipe that is given a value, for a point without *)
(* tag, and for a Boolean or one of four texts written with a value of     *)
(* another type to a point that is there, and for no other request.        *)
THEOREM KnownAborts == Spec => []AbortsAreKnown
<1>1. Init => AbortsAreKnown
  BY DEF Init, None, AbortsAreKnown
<1>2. ASSUME Agreement, AbortsAreKnown, [Next]_vars PROVE AbortsAreKnown'
  <2>1. CASE CreateNameless
    <3>1. PICK error \in {"STRING_IS_EMPTY", "ABORT"} :
            Answer("create", "", "none", "none", error)
      BY <2>1 DEF CreateNameless
    <3> QED
      BY <3>1, Answered DEF AbortsAreKnown
  <2>2. ASSUME NEW tag \in Tags, CreateAborts(tag, file[tag]) PROVE AbortsAreKnown'
    <3>1. PICK a \in Known(file[tag]) : Asserts(file[tag].class, a)
      BY <2>2 DEF CreateAborts
    <3>2. file[tag].class = "PIPE"
      BY <3>1, OnlyPipesAssert DEF Known
    <3> QED
      BY <2>2, <3>2 DEF CreateAborts, Answer, AbortsAreKnown
  <2>3. ASSUME NEW tag \in Tags, NEW a \in Written, WriteMistyped(tag, a)
        PROVE  AbortsAreKnown'
    BY <2>3 DEF WriteMistyped, Answer, AbortsAreKnown, Exists
  <2>4. ASSUME NEW tag \in Tags, Create(tag, file[tag]) \/ CreateFails(tag, file[tag])
        PROVE  AbortsAreKnown'
    <3>1. reply'.error # "ABORT"
      BY <2>4, Answered DEF Create, CreateFails, Failed
    <3> QED
      BY <3>1 DEF AbortsAreKnown
  <2>5. ASSUME NEW tag \in Tags, NEW a \in Written, NEW text \in TextsOf(a),
               Write(tag, a, text) \/ WriteFails(tag, a, text)
        PROVE  AbortsAreKnown'
    <3>1. reply'.error # "ABORT"
      BY <2>5, Answered DEF Write, WriteFails, Failed
    <3> QED
      BY <3>1 DEF AbortsAreKnown
  <2>6. CASE CreateTable
    <3>1. reply'.error # "ABORT"
      BY <1>2, <2>6, LoadsAnswer
    <3> QED
      BY <3>1 DEF AbortsAreKnown
  <2>7. CASE UNCHANGED vars
    BY <1>2, <2>7 DEF vars, AbortsAreKnown, Exists
  <2> QED
    BY <1>2, <2>1, <2>2, <2>3, <2>4, <2>5, <2>6, <2>7 DEF Next, CreateAny, WriteAny
<1> QED
  BY <1>1, <1>2, AlwaysAgreement, PTL DEF Spec

(* A unit is shown by the name that it was put by.                         *)
LEMMA UnitIsShown ==
  ASSUME Agreement, NEW name, UnitOf(name) # {}, NEW q,
         q.unit = CHOOSE id \in UnitOf(name) : TRUE
  PROVE  Read(q, "UNITY").value = name
<1>1. "DICT_UNITY_ID" \in Tables
  BY DEF Tables
<1>2. q.unit \in UnitOf(name)
  OBVIOUS
<1>3. PICK row \in tables["DICT_UNITY_ID"] : row[1] = name /\ row[2] = q.unit
  BY <1>2 DEF UnitOf
<1>4. ASSUME NEW r \in tables["DICT_UNITY_ID"], r[2] = q.unit
      PROVE  r[1] = name
  <2>1. Clash("DICT_UNITY_ID", r, row)
    BY <1>3, <1>4 DEF Clash
  <2> QED
    BY <1>1, <1>3, <2>1 DEF Agreement, TableIsOfOneLoad
<1>5. UnitShown(q) = {name}
  BY <1>3, <1>4 DEF UnitShown
<1>6. Read(q, "UNITY") = IF UnitShown(q) = {}
                           THEN [value |-> Nothing, error |-> "ILLEGAL_PARAMETER_VALUE"]
                           ELSE [value |-> CHOOSE n \in UnitShown(q) : TRUE, error |-> "NONE"]
  <2>1. "UNITY" \notin DOMAIN Readers /\ "UNITY" # "L_SA"
    BY ReadersOfKnown DEF Valued
  <2> QED
    BY <2>1, Zenon DEF Read
<1> QED
  BY <1>5, <1>6

(* A write that is reported as done is what the next reader is given.      *)
THEOREM WritesAreShown == Spec => AcknowledgedIsShown
<1> DEFINE Asked == /\ reply'.op = "write" /\ reply'.error = "NONE"
                    /\ \/ reply'.about \in {"UNITY", "L_SA"}
                       \/ /\ reply'.about \in DOMAIN Readers \ {"DISPP", "PREV_SHIFT_TIME"}
                          /\ points[reply'.tag].class \in Readers[reply'.about]
           Shown == Read(points'[reply'.tag], reply'.about).value
                      = Normal(reply'.about, reply'.text)
<1>1. ASSUME Agreement, Asked, NEW tag \in Tags, NEW a \in Written, NEW text \in TextsOf(a),
             Write(tag, a, text)
      PROVE  Shown
  <2> DEFINE p == points[tag]
             q == points'[tag]
  <2>1. reply'.tag = tag /\ reply'.about = a /\ reply'.text = text
    BY <1>1, Answered DEF Write
  <2>2. ~CannotWrite(p, a, text) /\ PointTyped(p)
    BY <1>1 DEF Write, Agreement
  <2>3. q = WrittenTo(p, a, text) /\ UNCHANGED tables
    BY <1>1 DEF Write, Agreement
  <2> HIDE DEF p, q
  <2>4. CASE a = "UNITY"
    <3>1. q = [p EXCEPT !.unit = CHOOSE id \in UnitOf(text) : TRUE]
      <4>1. a \notin DOMAIN Writers /\ a # "L_SA"
        BY <2>4, WritersOfKnown DEF Valued
      <4> QED
        BY <2>3, <2>4, <4>1, Zenon DEF WrittenTo
    <3>2. q.unit = CHOOSE id \in UnitOf(text) : TRUE
      BY <2>2, <3>1 DEF PointTyped
    <3>3. UnitOf(text) # {}
      BY <2>2, <2>4 DEF CannotWrite
    <3>4. Read(q, a).value = text
      BY <1>1, <2>4, <3>2, <3>3, UnitIsShown
    <3>5. Normal(a, text) = text
      BY <2>4 DEF Normal
    <3> QED
      BY <2>1, <2>3, <3>4, <3>5 DEF q, Read, UnitShown, HasPart, GivenOrDefault
  <2>5. CASE a = "L_SA"
    <3>1. q = [p EXCEPT !.sa = text]
      <4>1. a \notin DOMAIN Writers /\ a # "UNITY"
        BY <2>5, WritersOfKnown DEF Valued
      <4> QED
        BY <2>3, <2>5, <4>1, Zenon DEF WrittenTo
    <3>2. q.sa = text
      BY <2>2, <3>1 DEF PointTyped
    <3>3. Read(q, a) = [value |-> q.sa, error |-> "NONE"]
      <4>1. a \notin DOMAIN Readers /\ a # "UNITY"
        BY <2>5, ReadersOfKnown DEF Valued
      <4> QED
        BY <2>5, <4>1, Zenon DEF Read
    <3>4. Normal(a, text) = text
      BY <2>5 DEF Normal
    <3> QED
      BY <2>1, <3>2, <3>3, <3>4 DEF q
  <2>6. CASE a \notin {"UNITY", "L_SA"}
    <3>1. a \in DOMAIN Readers \ {"DISPP", "PREV_SHIFT_TIME"} /\ p.class \in Readers[a]
      BY <1>1, <2>1, <2>6 DEF p
    <3>2. a \in DOMAIN Writers /\ p.class \in Writers[a]
      BY <2>2, <3>1, PointsAssumption, ReadIsWritten DEF CannotWrite
    <3>3. PartOf(p.class, a) \subseteq Parts(p.class)
      BY <2>2, <3>1, <3>2, WithoutParts DEF CannotWrite, HasPart
    <3> DEFINE given == [b \in DOMAIN p.given \cup {a} |->
                           IF b = a THEN Normal(a, text) ELSE p.given[b]]
    <3>4. q = [p EXCEPT !.given = given]
      BY <2>3, <2>6, <3>2, Zenon DEF WrittenTo
    <3>5. q.class = p.class /\ a \in DOMAIN q.given /\ q.given[a] = Normal(a, text)
      BY <2>2, <3>4 DEF PointTyped
    <3> HIDE DEF given
    <3>6. q.class \in Readers[a] /\ HasPart(q, a) /\ a \in DOMAIN Readers
      BY <3>1, <3>3, <3>5 DEF HasPart
    <3>7. Read(q, a) = [value |-> GivenOrDefault(q, a), error |-> "NONE"]
      BY <2>6, <3>6, Zenon DEF Read
    <3>8. Read(q, a).value = Normal(a, text)
      BY <3>5, <3>7 DEF GivenOrDefault
    <3> QED
      BY <2>1, <3>8 DEF q
  <2> HIDE DEF Shown
  <2> QED
    BY <2>4, <2>5, <2>6
<1>2. ASSUME Agreement, Asked, Next PROVE Shown
  <2>1. ASSUME CreateNameless PROVE FALSE
    BY <1>2, <2>1, Answered DEF CreateNameless
  <2>2. ASSUME NEW tag \in Tags,
               Create(tag, file[tag]) \/ CreateFails(tag, file[tag])
                 \/ CreateAborts(tag, file[tag])
        PROVE  FALSE
    BY <1>2, <2>2, Answered DEF Create, CreateFails, CreateAborts, Failed
  <2>3. ASSUME NEW tag \in Tags, NEW a \in Written, NEW text \in TextsOf(a),
               WriteFails(tag, a, text)
        PROVE  FALSE
    BY <1>2, <2>3, Answered DEF WriteFails, Failed
  <2>4. ASSUME NEW tag \in Tags, NEW a \in Written, WriteMistyped(tag, a)
        PROVE  FALSE
    BY <1>2, <2>4, Answered DEF WriteMistyped
  <2>5. ASSUME CreateTable PROVE FALSE
    BY <1>2, <2>5, LoadsAnswer
  <2> HIDE DEF Shown
  <2> QED
    BY <1>1, <1>2, <2>1, <2>2, <2>3, <2>4, <2>5 DEF Next, CreateAny, WriteAny
<1>3. Agreement /\ [Next]_vars =>
        [LET r == reply'
         IN  /\ r.op = "write" /\ r.error = "NONE"
             /\ \/ r.about \in {"UNITY", "L_SA"}
                \/ /\ r.about \in DOMAIN Readers \ {"DISPP", "PREV_SHIFT_TIME"}
                   /\ points[r.tag].class \in Readers[r.about]
             => Read(points'[r.tag], r.about).value = Normal(r.about, r.text)]_vars
  BY <1>2
<1> QED
  BY <1>3, AlwaysAgreement, PTL DEF Spec, AcknowledgedIsShown

(* A table holds rows of the load that was last reported as done, from its *)
(* beginning, and none that shares with another what is unique: whatever   *)
(* the rows are, and whichever loads were given up.                        *)
THEOREM TablesOfOneLoad == Spec => []TableIsOfOneLoad
<1>1. Agreement => TableIsOfOneLoad
  BY DEF Agreement
<1> QED
  BY <1>1, AlwaysAgreement, PTL

=============================================================================
