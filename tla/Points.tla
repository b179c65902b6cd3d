------------------------------- MODULE Points -------------------------------
(***************************************************************************)
(* The points of the real-time database and the tables of its dictionary.  *)
(* A table is emptied and filled again row by row, in one transaction.  A  *)
(* point is created from its description in a file, attribute after        *)
(* attribute; its attributes are then read and written by name, each in a  *)
(* transaction of its own.  What works for which class is in PointTables.  *)
(*                                                                         *)
(* The library that stores the data is external: any call of it may fail.  *)
(* A write of VALIDCHANGE is the subject of Validity and left out here.    *)
(***************************************************************************)
EXTENDS PointTables, Integers, Sequences, FiniteSets

CONSTANTS
  Tags,          \* tags of points
  Files,         \* tag |-> what a file says of the point: its class and attributes
  Written,       \* names of the attributes that clients write
  Contents,      \* table |-> the sequences of <<name, id>> it may be loaded with
  MaxWrites      \* bound on the writes that are reported as done

Tables == {"DICT_TSC_VAL_LABEL", "DICT_UNITY_ID", "XDB_CE"}

\* "odd" stands for a number that an enumeration does not have.
Texts == {"0", "1", "odd"}
Stored == Texts \cup {"2", "9"}
Names == {"0", "1"}

NoUnit == 0
NoPoint == [class |-> "none"]

Point ==
  [class : Classes, given : UNION {[A -> Stored] : A \in SUBSET Attributes},
   unit : Nat, sa : Tags]

\* Texts of a file and rows of a dictionary, and what is left to Validity.
ASSUME PointsAssumption ==
  /\ Tags # {}
  /\ "VALIDCHANGE" \notin Written
  /\ \A f \in Files : \A tag \in Tags :
       \A a \in DOMAIN f[tag].given : f[tag].given[a] \in Texts
  /\ DOMAIN Contents = Tables
  /\ \A table \in Tables : \A rows \in Contents[table] :
       rows \in Seq(Names \X (Nat \ {NoUnit}))

VARIABLES
  file,    \* the file that is loaded
  points,  \* tag |-> the point, or NoPoint
  tables,  \* table |-> its rows, as they were committed
  load,    \* the transaction that loads a table, or NoLoad
  loaded,  \* table |-> the rows that were last reported as loaded (a history
           \* variable)
  reply,   \* the last request, and the error that was reported for it
  writes   \* the writes reported as done, up to MaxWrites

vars == <<file, points, tables, load, loaded, reply, writes>>

\* A transaction: the table and the rows it is given, the place of the next of
\* them (past the end when the loop is over), and what the table holds in it.
NoLoad == [table |-> "none", rows |-> << >>, next |-> 1, content |-> {}]

None == [op |-> "none", tag |-> "none", about |-> "none", text |-> "none", error |-> "NONE"]

Init ==
  /\ file \in Files
  /\ points = [tag \in Tags |-> NoPoint]
  /\ tables = [table \in Tables |-> {}]
  /\ load = NoLoad
  /\ loaded = [table \in Tables |-> << >>]
  /\ reply = None
  /\ writes = 0

Exists(tag) == points[tag] # NoPoint

\* A failed assertion ends the process.
Running == reply.error # "ABORT"

\* Requests come one after the other.
Ready == Running /\ load = NoLoad

Answer(op, tag, about, text, error) ==
  reply' = [op |-> op, tag |-> tag, about |-> about, text |-> text, error |-> error]

\* Of a request that failed the error is kept.
Failed(error) == Answer("none", "none", "none", "none", error)

-----------------------------------------------------------------------------
(* The tables.                                                             *)

UnitOf(name) == {row[2] : row \in {r \in tables["DICT_UNITY_ID"] : r[1] = name}}

SameEntry(r, s) == r[2] = s[2]

\* What is unique in a table: the unit's name and id, the state of a class, the id.
Clash(table, r, s) ==
  CASE table = "DICT_UNITY_ID" -> r[1] = s[1] \/ r[2] = s[2]
    [] table = "DICT_TSC_VAL_LABEL" -> r[1] = s[1]
    [] table = "XDB_CE" -> SameEntry(r, s)

\* A mutant: the rows from before are left in the table.
BeginWithoutDelete(table, rows) ==
  /\ Ready
  /\ \/ /\ load' = [table |-> table, rows |-> rows, next |-> 1, content |-> tables[table]]
        /\ reply' = None
     \/ Failed("RUNTIME_ERROR") /\ UNCHANGED load
  /\ UNCHANGED <<file, points, tables, loaded, writes>>

\* In the transaction the table is empty first.  If this or the beginning of
\* the transaction fails, it is rolled back.
BeginLoad(table, rows) ==
  /\ Ready
  /\ \/ /\ load' = [table |-> table, rows |-> rows, next |-> 1, content |-> {}]
        /\ reply' = None
     \/ Failed("RUNTIME_ERROR") /\ UNCHANGED load
  /\ UNCHANGED <<file, points, tables, loaded, writes>>

Filling == load # NoLoad /\ load.next <= Len(load.rows)

\* A row that fails leaves the loop and nothing else: its error is forgotten.
InsertRow ==
  LET row == load.rows[load.next] IN
  /\ Filling
  /\ \/ /\ \A r \in load.content : ~Clash(load.table, r, row)
        /\ load' = [load EXCEPT !.next = @ + 1, !.content = @ \cup {row}]
     \/ load' = [load EXCEPT !.next = Len(load.rows) + 1]
  /\ UNCHANGED <<file, points, tables, loaded, reply, writes>>

\* What there is by then is committed, or else rolled back.
EndLoad ==
  /\ load # NoLoad
  /\ ~Filling
  /\ \/ /\ tables' = [tables EXCEPT ![load.table] = load.content]
        /\ loaded' = [loaded EXCEPT ![load.table] = load.rows]
        /\ Answer("config", "none", load.table, "none", "NONE")
     \/ Failed("RUNTIME_ERROR") /\ UNCHANGED <<tables, loaded>>
  /\ load' = NoLoad
  /\ UNCHANGED <<file, points, writes>>

-----------------------------------------------------------------------------
(* Creation of a point.                                                    *)

\* A mutant: an unknown validity is stored as it was given.
NormalOfStatus(a, text) ==
  CASE text = "odd" /\ a = "STATUS" -> "2"
    [] text # "1" /\ a = "VALIDCHANGE" -> "9"
    [] OTHER -> text

\* Numbers that an enumeration does not have, as they are stored.
Normal(a, text) ==
  CASE text = "odd" /\ a = "STATUS" -> "2"
    [] text = "odd" /\ a \in {"VALID", "VALIDACQ"} -> "0"
    [] text = "odd" /\ a \in {"INHIB", "INHIBLOCAL"} -> "1"
    [] text # "1" /\ a = "VALIDCHANGE" -> "9"
    [] OTHER -> text

\* What an attribute that nobody gave has.
Default(a) ==
  CASE a = "STATUS" -> "2" [] a = "VALIDCHANGE" -> "9" [] OTHER -> "0"

\* An attribute without a function is skipped with a warning.
Known(d) == DOMAIN d.given \cap Attributes

Refused(d, a) ==
  \/ d.class \notin Takers[a]
  \/ a = "UNITY" /\ UnitOf(d.given["UNITY"]) = {}

Described(tag, d) ==
  [class |-> d.class,
   given |-> [a \in Known(d) \ (Ignored \cup {"UNITY"}) |-> Normal(a, d.given[a])],
   unit |-> IF "UNITY" \in Known(d)
              THEN CHOOSE id \in UnitOf(d.given["UNITY"]) : TRUE
              ELSE NoUnit,
   sa |-> tag]

\* The attributes of a description come in any order, and the first that
\* fails decides.
CreateAborts(tag, d) ==
  /\ Ready
  /\ \E a \in Known(d) : Asserts(d.class, a)
  /\ Answer("create", tag, d.class, "none", "ABORT")
  /\ UNCHANGED <<file, points, tables, load, loaded, writes>>

CreateFails(tag, d) ==
  /\ Ready
  /\ \/ ~CanBeCreated(d.class)
     \/ \E a \in Known(d) : Refused(d, a)
     \/ Exists(tag) /\ ~\E a \in Known(d) : Asserts(d.class, a)
  /\ Failed("RUNTIME_ERROR")
  /\ UNCHANGED <<file, points, tables, load, loaded, writes>>

\* A failure of the commit is only logged.
Create(tag, d) ==
  /\ Ready
  /\ ~Exists(tag)
  /\ CanBeCreated(d.class)
  /\ \A a \in Known(d) : ~Refused(d, a) /\ ~Asserts(d.class, a)
  /\ points' \in {points, [points EXCEPT ![tag] = Described(tag, d)]}
  /\ Answer("create", tag, d.class, "none", "NONE")
  /\ UNCHANGED <<file, tables, load, loaded, writes>>

\* For a point without tag a pointer is deleted that nothing was put into.
CreateNameless ==
  /\ Ready
  /\ \E error \in {"STRING_IS_EMPTY", "ABORT"} :
       Answer("create", "", "none", "none", error)
  /\ UNCHANGED <<file, points, tables, load, loaded, writes>>

-----------------------------------------------------------------------------
(* Reading.                                                                *)

Nothing == "nothing"

HasPart(p, a) == PartOf(p.class, a) \subseteq Parts(p.class)

GivenOrDefault(p, a) == IF a \in DOMAIN p.given THEN p.given[a] ELSE Default(a)

UnitShown(p) == {row[1] : row \in {r \in tables["DICT_UNITY_ID"] : r[2] = p.unit}}

\* The value that a reader is given, and the error that is reported.  Most
\* functions leave the value alone and report success; so does read() for a
\* name that it does not know.
Read(p, a) ==
  CASE a = "UNITY" -> IF UnitShown(p) = {}
                        THEN [value |-> Nothing, error |-> "ILLEGAL_PARAMETER_VALUE"]
                        ELSE [value |-> CHOOSE name \in UnitShown(p) : TRUE,
                              error |-> "NONE"]
    [] a = "L_SA" -> [value |-> p.sa, error |-> "NONE"]
    [] a \in DOMAIN Readers /\ p.class \in Readers[a] ->
         IF HasPart(p, a)
           THEN [value |-> GivenOrDefault(p, a), error |-> "NONE"]
           ELSE [value |-> Nothing, error |-> "ILLEGAL_PARAMETER_VALUE"]
    [] OTHER -> [value |-> Nothing, error |-> "NONE"]

-----------------------------------------------------------------------------
(* Writing.                                                                *)

Booleans == {"INHIB", "INHIBLOCAL"}

\* The texts that points and sites hold in a buffer of a fixed size.
Strings == {"SHORTLABEL", "UNITY", "L_SA", "PREV_DISPATCHER"}

\* What the function of an attribute refuses.
CannotWrite(p, a, text) ==
  \/ a = "STATUS" /\ text = "odd"
  \/ a = "UNITY" /\ UnitOf(text) = {}
  \/ a = "L_SA" /\ text \notin {tag \in Tags : Exists(tag)}
  \/ a \in Valued /\ p.class \in Writers[a] /\ ~HasPart(p, a)
  \/ a = "CURRENT_SHIFT_TIME" /\ p.class # "SITE"
  \/ NeverFound(p.class, a)

WrittenTo(p, a, text) ==
  CASE a = "UNITY" -> [p EXCEPT !.unit = CHOOSE id \in UnitOf(text) : TRUE]
    [] a = "L_SA" -> [p EXCEPT !.sa = text]
    [] a \in DOMAIN Writers /\ p.class \in Writers[a] ->
         [p EXCEPT !.given =
            [b \in DOMAIN p.given \cup {a} |->
               IF b = a THEN Normal(a, text) ELSE p.given[b]]]
    [] OTHER -> p

WriteFails(tag, a, text) ==
  /\ Ready
  /\ \/ /\ ~Exists(tag)
        /\ Failed("POINT_NOT_FOUND")
     \/ /\ Exists(tag)
        /\ CannotWrite(points[tag], a, text) \/ WithoutPoint(a)
        /\ Failed("ILLEGAL_PARAMETER_VALUE")
     \/ /\ Exists(tag)
        /\ ~CannotWrite(points[tag], a, text)
        /\ Failed("RUNTIME_ERROR")
  /\ UNCHANGED <<file, points, tables, load, loaded, writes>>

\* The time of a point fails or is lost.  A name that write() does not know
\* is reported as written, and so is what a stub was called for.
Write(tag, a, text) ==
  /\ Ready
  /\ Exists(tag)
  /\ ~CannotWrite(points[tag], a, text)
  /\ writes < MaxWrites
  /\ writes' = writes + 1
  /\ points' = [points EXCEPT ![tag] = WrittenTo(@, a, text)]
  /\ Answer("write", tag, a, text, "NONE")
  /\ UNCHANGED <<file, tables, load, loaded>>

\* The type that a client states for a Boolean is asserted, and of a text the
\* pointer, which only a message with the type of a text has.
WriteMistyped(tag, a) ==
  /\ Ready
  /\ Exists(tag)
  /\ a \in Booleans \cup Strings
  /\ Answer("write", tag, a, "mistyped", "ABORT")
  /\ UNCHANGED <<file, points, tables, load, loaded, writes>>

-----------------------------------------------------------------------------

\* The text of L_SA is a tag, and Booleans are not odd.
TextsOf(a) ==
  CASE a = "L_SA" -> Tags \cup {"unknown"}
    [] a \in Booleans -> {"0", "1"}
    [] OTHER -> Texts

CreateAny ==
  \/ CreateNameless
  \/ \E tag \in Tags :
       \/ Create(tag, file[tag])
       \/ CreateFails(tag, file[tag])
       \/ CreateAborts(tag, file[tag])

WriteAny ==
  \E tag \in Tags, a \in Written :
    \/ \E text \in TextsOf(a) : Write(tag, a, text) \/ WriteFails(tag, a, text)
    \/ WriteMistyped(tag, a)

CreateTable ==
  \/ \E table \in Tables : \E rows \in Contents[table] : BeginLoad(table, rows)
  \/ InsertRow
  \/ EndLoad

Next == CreateAny \/ WriteAny \/ CreateTable

Spec == Init /\ [][Next]_vars

-----------------------------------------------------------------------------
(* Properties.                                                             *)

Enumerated == {"STATUS", "VALID", "VALIDACQ", "VALIDCHANGE", "INHIB", "INHIBLOCAL"}

\* Points have a class, attributes of the database (an enumeration holds one
\* of its values), a unit and a reference to an acquisition system; a reply
\* names the request and its error.
TypeOK ==
  /\ \A tag \in Tags : Exists(tag) =>
       /\ DOMAIN points[tag] = {"class", "given", "unit", "sa"}
       /\ points[tag].class \in Classes
       /\ DOMAIN points[tag].given \subseteq Attributes
       /\ \A a \in DOMAIN points[tag].given :
            points[tag].given[a] \in IF a \in Enumerated THEN Stored \ {"odd"} ELSE Stored
       /\ points[tag].unit \in Nat
       /\ points[tag].sa \in Tags
  /\ \A table \in Tables : \A row \in tables[table] : row[1] \in Names /\ row[2] \in Nat
  /\ load.table \in Tables \cup {"none"}
  /\ reply.error \in {"NONE", "ABORT", "STRING_IS_EMPTY", "RUNTIME_ERROR",
                      "POINT_NOT_FOUND", "ILLEGAL_PARAMETER_VALUE"}

\* The lists of classes that are written by hand in the functions that create
\* and in those that read agree: what a point holds of an attribute that can
\* be read at all is what a reader is given, but for DISPP, which a loop may
\* be created with and which is read of sites only.
HeldIsRead ==
  \A tag \in Tags : Exists(tag) =>
    \A a \in DOMAIN points[tag].given \cap DOMAIN Readers :
      \/ a = "DISPP" /\ points[tag].class = "DIPL"
      \/ Read(points[tag], a) = [value |-> points[tag].given[a], error |-> "NONE"]

\* The database ends by a request in these cases only: a pipe that is given a
\* value, a point without tag, a write to a point of a Boolean or of one of
\* four texts with a value of another type.  The parts that
\* PointInDatabase::create() assigns to a class are those which the functions
\* that create its attributes count on.
AbortsAreKnown ==
  reply.error = "ABORT" =>
    \/ reply.op = "create" /\ (reply.tag = "" \/ reply.about = "PIPE")
    \/ reply.op = "write" /\ Exists(reply.tag) /\ reply.about \in Booleans \cup Strings

\* A write that is reported as done is shown to the next reader of the
\* attribute: the lists of the functions that write and read agree, and a unit
\* is found under the id by the name it was put by.  Two attributes can be read
\* and are written by stubs.
AcknowledgedIsShown ==
  [][ LET r == reply'
      IN  /\ r.op = "write" /\ r.error = "NONE"
          /\ \/ r.about \in {"UNITY", "L_SA"}
             \/ /\ r.about \in DOMAIN Readers \ {"DISPP", "PREV_SHIFT_TIME"}
                /\ points[r.tag].class \in Readers[r.about]
          => Read(points'[r.tag], r.about).value = Normal(r.about, r.text) ]_vars

\* A table is the beginning of what was last reported as loaded, all of it
\* unless a row failed, whatever was loaded before and whatever has failed
\* since: never a mixture of two loads or a load that was given up.  No two of
\* its rows share what is unique in it.
TableIsOfOneLoad ==
  \A table \in Tables :
    /\ \E n \in 0..Len(loaded[table]) : tables[table] = {loaded[table][i] : i \in 1..n}
    /\ \A r, s \in tables[table] : Clash(table, r, s) => r = s

=============================================================================
