----------------------------- MODULE PointTables -----------------------------
(***************************************************************************)
(* What the real-time database knows of the classes of points and of their *)
(* attributes.  Every attribute has a function that creates it, one that   *)
(* reads it and one that writes it; each of these holds a list of the      *)
(* classes it works for, written by hand.  The lists are gathered here as  *)
(* the code has them: functions from the names of attributes to classes.   *)
(***************************************************************************)
\* The equipment of a site: its points have a discrete value and alarms.
Equipment ==
  {"TL", "VA", "SC", "ATC", "GRC", "SV", "SDG", "RGA", "SSDG", "BRG", "SCP",
   "STG", "DIPL", "METLINE", "ESDG", "SVLINE", "SCPLINE", "TLLINE", "INVT",
   "AUX1", "AUX2"}

Classes ==
  Equipment \cup
  {"TS", "TM", "TR", "TSA", "TSC", "TC", "AL", "ICS", "ICM", "PIPE", "PIPELINE",
   "DIR", "SITE", "SA", "FIXEDPOINT", "HIST"}

-----------------------------------------------------------------------------
(* The parts of a point: "AI" (analog), "DI" (discrete), "AL" (alarms).    *)

\* A mutant: the switches that have no alarms are forgotten.
PartsWithoutTSA(c) ==
  CASE c \in {"TS", "AL", "ICS", "DIR"} \cup Equipment -> {"AL", "DI"}
    [] c \in {"TM", "ICM"} -> {"AL", "AI"}
    [] c = "TR" -> {"AI"}
    [] OTHER -> {}

\* A point of class "TSC" is created nevertheless: the switch only logs it.
Parts(c) ==
  CASE c \in {"TS", "AL", "ICS", "DIR"} \cup Equipment -> {"AL", "DI"}
    [] c = "TSA" -> {"DI"}
    [] c \in {"TM", "ICM"} -> {"AL", "AI"}
    [] c = "TR" -> {"AI"}
    [] OTHER -> {}

\* Two classes have no part of their own (a "passport"); any other class
\* fails, and so does the point.
HavePassport == Classes \ {"FIXEDPOINT", "HIST"}
CanBeCreated(c) == c \in HavePassport \/ c \in {"FIXEDPOINT", "HIST"}

-----------------------------------------------------------------------------
(* Creation.  A function that creates an attribute of the common part      *)
(* takes every class; some do nothing.  An attribute whose function does   *)
(* not list the class of the point fails, and the point with it.           *)

Root ==
  {"STATUS", "SHORTLABEL", "UNITY", "VALID", "VALIDACQ", "DATEHOURM", "DATERTU",
   "VALIDCHANGE", "INHIB", "INHIBLOCAL"}

Ignored == {"L_SA", "LABEL", "VAL_LABEL", "LINK_HIST", "UNITYCATEG"}

OfTypes ==
  [TYPE |-> {"SA"}, L_EQTTYP |-> Equipment,
   LOCALFLAG |-> Equipment \cup {"PIPE", "PIPELINE", "DIR", "SA"}]

OfLimits == [MINVAL |-> {"TR"}, MAXVAL |-> {"TR"}]

CreatesVAL ==
  {"TM", "TR", "ICM", "TS", "TSA", "AL", "ICS", "PIPE", "DIR"}
    \cup (Equipment \ {"INVT"})

CreatesVALACQ ==
  {"TM", "TS", "TSA", "AL", "ICS", "PIPE"} \cup (Equipment \ {"INVT", "DIPL"})

CreatesVALMANUAL ==
  {"TM", "TS", "TSA", "AL", "ICS", "PIPE"} \cup (Equipment \ {"INVT", "DIPL"})

OfValues ==
  [VAL |-> CreatesVAL, VALACQ |-> CreatesVALACQ, VALMANUAL |-> CreatesVALMANUAL]

OfScales ==
  [VALEX |-> {"TR"}, ALINHIB |-> Equipment \cup {"PIPE", "PIPELINE", "SA"},
   MNVALPHY |-> {"TM"}, MXVALPHY |-> {"TM"}, DISPP |-> {"DIPL", "SITE"}]

OfNets ==
  [L_TL |-> {"PIPE"}, L_TM |-> {"TR"}, L_NETTYPE |-> {"PIPE"}, L_NET |-> {"PIPE"},
   L_EQTORBORUPS |-> {"PIPE"}, L_EQTORBORDWN |-> {"PIPE"}]

OfPipes ==
  [NMPRESSURE |-> {"PIPE"}, KMREFUPS |-> {"PIPE"}, KMREFDWN |-> {"PIPE"}]

OfSupplies ==
  [SUPPLIER |-> {"AUX1", "AUX2"}, SUPPLIERMODE |-> {"SA"}, SUPPLIERSTATE |-> {"SA"},
   L_CONSUMER |-> {"SSDG"}, L_CORRIDOR |-> {"PIPELINE"}]

OfPlans ==
  [PLANFLOW |-> {"SSDG"}, PLANPRESSURE |-> {"SSDG"}, FUNCTION |-> {"PIPELINE", "VA"}]

OfFlows ==
  [CONVERTCOEFF |-> {"TM"}, GRADLEVEL |-> {"TM", "ICM"},
   MXPRESSURE |-> {"PIPELINE", "SSDG", "ESDG"}, NMFLOW |-> {"PIPELINE"},
   MXFLOW |-> {"SDG"}]

OfStates ==
  [SYNTHSTATE |-> {"SA"}, DELEGABLE |-> {"SA"},
   FLGREMOTECMD |-> {"TR", "VA", "SC", "ATC", "GRC", "AUX1", "AUX2"},
   FLGMAINTENANCE |-> {"VA"}, NAMEMAINTENANCE |-> {"VA"}]

OfSyntheses ==
  [TSSYNTHETICAL |->
     {"VA", "ATC", "GRC", "SDG", "RGA", "SCP", "INVT", "AUX1", "AUX2"}]

Alarmed == {"TS", "TM", "VA", "ATC", "AUX1", "AUX2", "AL", "ICS", "ICM"}

OfAlarms ==
  [ALARMBEGIN |-> Alarmed, ALARMBEGINACK |-> Alarmed, ALARMENDACK |-> Alarmed,
   ALARMSYNTH |-> Alarmed]

OfLinks ==
  [L_TYPINFO |-> Alarmed \cup {"TR", "TSA", "TC"},
   L_EQT |-> {"TS", "TM", "TR", "TSA", "TC", "AL", "ICS", "ICM", "RGA", "METLINE",
              "SVLINE", "SCPLINE", "TLLINE", "INVT"}]

RemotelyControlled ==
  {"TR", "VA", "SC", "ATC", "GRC", "SV", "SDG", "RGA", "SSDG", "BRG", "SCP", "STG",
   "ESDG", "AUX1", "AUX2"}

OfCommands == [REMOTECONTROL |-> RemotelyControlled \cup {"TC"}, ACTIONTYP |-> {"TC"}]

OfDispatch ==
  [L_DIPL |-> Alarmed \cup {"TSA", "SSDG"}, ALDEST |-> (Alarmed \ {"ICS"}) \cup {"SA"},
   L_PIPE |-> {"SC"}, L_PIPELINE |-> {"VA", "TLLINE"}]

OfConfirmations == [CONFREMOTECMD |-> RemotelyControlled \cup {"TL", "DIPL"}]

OfDates == [DATEAINS |-> {"VA", "GRC", "AUX1", "AUX2"}]

\* The shifts are those of a site.
OfShifts == [CURRENT_SHIFT_TIME |-> {"SITE"}]
OfDispatchers == [PREV_DISPATCHER |-> {"SITE"}]
OfPreviousShifts == [PREV_SHIFT_TIME |-> {"SITE"}]

\* An attribute is in one of the lists that are gathered.
Gathered(lists) ==
  [a \in UNION {DOMAIN list : list \in lists} |->
     UNION {list[a] : list \in {l \in lists : a \in DOMAIN l}}]

OfAny == [a \in Root \cup Ignored |-> Classes]

\* The classes that an attribute can be created for.
Takers ==
  Gathered({OfTypes, OfLimits, OfValues, OfScales, OfNets, OfPipes, OfSupplies, OfPlans,
            OfFlows, OfStates, OfSyntheses, OfAlarms, OfLinks, OfCommands, OfDispatch,
            OfConfirmations, OfDates, OfShifts, OfDispatchers, OfPreviousShifts, OfAny})

Attributes == DOMAIN Takers

\* The part of the point that the value is put into.
PartOf(c, a) ==
  CASE a \in DOMAIN OfValues -> {IF c \in {"TM", "TR", "ICM"} THEN "AI" ELSE "DI"}
    [] a \in DOMAIN OfAlarms -> {"AL"}
    [] OTHER -> {}

\* An assertion fails for a part that the point does not have.
Asserts(c, a) == c \in Takers[a] /\ ~(PartOf(c, a) \subseteq Parts(c))

-----------------------------------------------------------------------------
(* Reading and writing.  The functions of most attributes are generated    *)
(* stubs, which report success and do nothing.                             *)

Valued == {"VAL", "VALACQ", "VALMANUAL"}

ReadsVAL == CreatesVAL
ReadsVALACQ == CreatesVALACQ \cup {"TR", "ICM"}
ReadsVALMANUAL == CreatesVALMANUAL \cup {"TR", "ICM"}

WritesVAL == CreatesVAL
WritesVALACQ == CreatesVALACQ \cup {"TR", "ICM"}
WritesVALMANUAL == CreatesVALMANUAL \cup {"TR", "ICM"}

\* A mutant: what is read is what can be created without the equipment.
ReadsOfSignals(a) == {"TM", "TR", "ICM", "TS", "TSA", "AL", "ICS"}

ReadsOf(a) ==
  CASE a = "VAL" -> ReadsVAL [] a = "VALACQ" -> ReadsVALACQ [] OTHER -> ReadsVALMANUAL

\* A mutant: the classes that cannot be created with the value are left out.
WritesOfCreated(a) == IF a = "VAL" THEN CreatesVAL ELSE CreatesVALACQ

WritesOf(a) ==
  CASE a = "VAL" -> WritesVAL [] a = "VALACQ" -> WritesVALACQ [] OTHER -> WritesVALMANUAL

ReadsDISPP == {"SITE"}
ReadsFUNCTION == {"PIPELINE", "VA"}

ReadOfAny ==
  [a \in {"STATUS", "SHORTLABEL", "VALID", "VALIDACQ", "VALIDCHANGE", "INHIB",
          "INHIBLOCAL"} |-> Classes]
ReadOfSome ==
  [a \in Valued \cup {"FUNCTION", "DISPP"} |->
     CASE a = "FUNCTION" -> ReadsFUNCTION [] a = "DISPP" -> ReadsDISPP [] OTHER -> ReadsOf(a)]

WrittenOfAny ==
  [a \in {"STATUS", "SHORTLABEL", "VALID", "VALIDACQ", "INHIB", "INHIBLOCAL"} |-> Classes]
WrittenOfSome == [a \in Valued |-> WritesOf(a)]

\* The classes that a function reads, for the attributes whose function does.
Readers == Gathered({ReadOfAny, ReadOfSome, OfShifts, OfDispatchers, OfPreviousShifts})

\* The same of the functions that write.
Writers == Gathered({WrittenOfAny, WrittenOfSome, OfShifts, OfDispatchers})

\* Writing looks for the part of the point under the id of the point itself
\* and never finds it.
NeverFound(c, a) == a = "FUNCTION" /\ c \in {"PIPELINE", "VA"}

\* The time of a point is put into a buffer that belongs to no point.
WithoutPoint(a) == a = "DATEHOURM"

=============================================================================
