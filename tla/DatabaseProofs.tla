--------------------------- MODULE DatabaseProofs ---------------------------
(* Theorems about Database, for any programs, any number of writes and any *)
(* number of mishaps: the types, the snapshots, the content that is kept,  *)
(* the handlers of events and the assertions about the handle.             *)
EXTENDS Database, FiniteSetTheorems, TLAPS

-----------------------------------------------------------------------------
(* Every operator of DatabaseImpl returns a database.                      *)

Files == [bin : Versions \cup {Gone, Torn}, xml : Versions \cup {Gone, Torn}]

LEMMA EmptyIsVersion == Empty \in Versions /\ Gone \notin Versions /\ Torn \notin Versions
BY DatabaseAssumption DEF Empty, Versions, Gone, Torn

LEMMA FreshType ==
  ASSUME NEW i \in Versions \cup {Gone} PROVE Fresh(i) \in Databases
BY DEF Fresh, Databases, States, Handles, Errors

LEMMA ClearType ==
  ASSUME NEW d \in Databases PROVE Clear(d) \in Databases
BY DEF Clear, Databases, Errors

LEMMA TransitionType ==
  ASSUME NEW d \in Databases, NEW s \in States
  PROVE  TransitionToState(d, s) \in Databases
BY DEF TransitionToState, Databases, Errors

LEMMA InitRuntimeType ==
  ASSUME NEW d \in Databases PROVE InitRuntime(d) \in Databases
BY ClearType, TransitionType DEF InitRuntime, States

LEMMA LoadFromXMLType ==
  ASSUME NEW d \in Databases, NEW f, files \in Files
  PROVE  LoadFromXML(d, f) \in Databases
BY ClearType DEF LoadFromXML, Clear, Databases, Files, Errors

LEMMA RestoreFromXMLType ==
  ASSUME NEW d \in Databases, NEW f, files \in Files
  PROVE  RestoreFromXML(d, f) \in Databases
<1> DEFINE attached  == TransitionToState([d EXCEPT !.instance = Empty],
                                          "ATTACHED")
           connected == TransitionToState([attached EXCEPT !.handle = "open"],
                                          "CONNECTED")
           imported  == LoadFromXML(connected, f)
           released  == TransitionToState([imported EXCEPT !.handle = "stale",
                                                           !.loaded = FALSE],
                                          "DISCONNECTED")
<1>1. attached \in Databases
  <2>1. [d EXCEPT !.instance = Empty] \in Databases
    BY EmptyIsVersion DEF Databases
  <2> QED  BY <2>1, TransitionType DEF States
<1>2. connected \in Databases
  <2>1. [attached EXCEPT !.handle = "open"] \in Databases
    BY <1>1 DEF Databases, Handles
  <2> QED  BY <2>1, TransitionType DEF States
<1>3. imported \in Databases
  BY <1>2, LoadFromXMLType
<1>4. released \in Databases
  <2>1. [imported EXCEPT !.handle = "stale", !.loaded = FALSE] \in Databases
    BY <1>3 DEF Databases, Handles
  <2> QED  BY <2>1, TransitionType DEF States
<1>5. [d EXCEPT !.error = "SNAPSHOT_READ"] \in Databases
  BY DEF Databases, Errors
<1>6. [attached EXCEPT !.error = "SNAPSHOT_READ"] \in Databases
  BY <1>1 DEF Databases, Errors
<1>7. [released EXCEPT !.error = imported.error] \in Databases
  BY <1>3, <1>4 DEF Databases
<1> QED
  BY <1>3, <1>5, <1>6, <1>7 DEF RestoreFromXML

LEMMA LoadSnapshotType ==
  ASSUME NEW d \in Databases, NEW f, files \in Files
  PROVE  LoadSnapshot(d, f) \in Databases
<1>1. InitRuntime(d) \in Databases
  BY InitRuntimeType
<1>2. [d EXCEPT !.fault = TRUE] \in Databases
  BY DEF Databases
<1>3. [InitRuntime(d) EXCEPT !.error = "SNAPSHOT_READ"] \in Databases
  BY <1>1 DEF Databases, Errors
<1>4. RestoreFromXML(InitRuntime(d), f) \in Databases
  BY <1>1, RestoreFromXMLType
<1>5. ASSUME files.bin \notin {Gone, Torn}
      PROVE  [InitRuntime(d) EXCEPT !.loaded = TRUE,
                                    !.instance = files.bin] \in Databases
  BY <1>1, <1>5 DEF Databases, Files
<1> QED
  BY <1>2, <1>3, <1>4, <1>5 DEF LoadSnapshot

LEMMA OpenType ==
  ASSUME NEW d \in Databases, NEW f, files \in Files
  PROVE  Open(d, f) \in Databases
<1> DEFINE wanted == "OF_LOAD_SNAP" \in process.options /\ ~d.loaded
           read == IF wanted THEN LoadSnapshot(d, f) ELSE Clear(d)
           restored == IF wanted /\ read.error = "NONE"
                       THEN TransitionToState(read, "ATTACHED") ELSE read
           created == [restored EXCEPT !.instance =
                         IF OpenDev(restored, f) = "ok" THEN Empty ELSE @]
           opened == TransitionToState(created, "ATTACHED")
<1>1. read \in Databases
  BY LoadSnapshotType, ClearType
<1>2. restored \in Databases
  BY <1>1, TransitionType DEF States
<1>3. created \in Databases
  BY <1>2, EmptyIsVersion DEF Databases
<1>4. opened \in Databases
  BY <1>3, TransitionType DEF States
<1>5. [opened EXCEPT !.error = "RUNTIME_FATAL"] \in Databases
  BY <1>4 DEF Databases, Errors
<1> QED
  BY <1>1, <1>2, <1>4, <1>5 DEF Open

LEMMA ConnectToInstanceType ==
  ASSUME NEW d \in Databases, NEW f, files \in Files
  PROVE  ConnectToInstance(d, f) \in Databases
<1> DEFINE opened == Open(d, f)
           connected == TransitionToState([opened EXCEPT !.handle = "open"],
                                          "CONNECTED")
<1>1. opened \in Databases
  BY OpenType
<1>2. connected \in Databases
  <2>1. [opened EXCEPT !.handle = "open"] \in Databases
    BY <1>1 DEF Databases, Handles
  <2> QED  BY <2>1, TransitionType DEF States
<1>3. TransitionToState(opened, "DISCONNECTED") \in Databases
  BY <1>1, TransitionType DEF States
<1>4. [connected EXCEPT !.instance = Empty] \in Databases
  BY <1>2, EmptyIsVersion DEF Databases
<1> QED
  BY <1>1, <1>2, <1>3, <1>4 DEF ConnectToInstance

LEMMA ConnectType ==
  ASSUME NEW d \in Databases, NEW f, files \in Files
  PROVE  Connect(d, f) \in Databases
<1> DEFINE ready == InitRuntime(d)
           asked == IF ready.state \in {"INITIALIZED", "ATTACHED"}
                    THEN ConnectToInstance(ready, f) ELSE ready
<1>1. asked \in Databases
  BY InitRuntimeType, ConnectToInstanceType
<1>2. RegisterEvents(asked) \in Databases
  BY <1>1 DEF RegisterEvents, Databases
<1> QED
  BY <1>2 DEF Connect

-----------------------------------------------------------------------------
(* Type correctness.                                                       *)

LEMMA TroublesCount ==
  ASSUME NEW f \in Troubles
  PROVE  Cardinality(f) \in Nat /\ history.mishaps + Cardinality(f) <= MaxMishaps
<1>1. IsFiniteSet({"open"})
  BY FS_Singleton
<1>2. IsFiniteSet({"open"} \cup {"connect"})
  BY <1>1, FS_AddElement
<1>3. IsFiniteSet(({"open"} \cup {"connect"}) \cup {"load"})
  BY <1>2, FS_AddElement
<1>4. IsFiniteSet((({"open"} \cup {"connect"}) \cup {"load"}) \cup {"import"})
  BY <1>3, FS_AddElement
<1>5. IsFiniteSet(((({"open"} \cup {"connect"}) \cup {"load"}) \cup {"import"})
                    \cup {"clean"})
  BY <1>4, FS_AddElement
<1>6. Failures = ((({"open"} \cup {"connect"}) \cup {"load"}) \cup {"import"})
                   \cup {"clean"}
  BY DEF Failures
<1>7. IsFiniteSet(f)
  BY <1>5, <1>6, FS_Subset DEF Troubles
<1> QED
  BY <1>7, FS_CardinalityType DEF Troubles

HistoryType ==
  [version : Versions, latest : Versions,
   excused : BOOLEAN, fromXML : BOOLEAN, failed : BOOLEAN,
   aborted : BOOLEAN, mishaps : 0..MaxMishaps]

LEMMA BlamedType ==
  ASSUME TypeOK, NEW f \in Troubles
  PROVE  Blamed(f) \in HistoryType
<1>1. history \in HistoryType
  BY DEF TypeOK, HistoryType
<1>2. history.mishaps + Cardinality(f) \in 0..MaxMishaps
  BY <1>1, TroublesCount, DatabaseAssumption DEF HistoryType
<1> QED
  BY <1>1, <1>2 DEF Blamed, HistoryType

LEMMA OneMoreType ==
  ASSUME TypeOK, Mishap
  PROVE  OneMore \in HistoryType
BY DatabaseAssumption DEF OneMore, Mishap, HistoryType, TypeOK

LEMMA PromisedType ==
  ASSUME TypeOK PROVE Promised \in Versions
BY EmptyIsVersion DEF Promised, Whole, TypeOK

LEMMA DownType ==
  ASSUME NEW i \in Versions \cup {Gone}, Down(i)
  PROVE  /\ db' \in Databases
         /\ process' \in [phase : Phases, options : SUBSET Options]
BY FreshType DEF Down, Phases

LEMMA GotoType ==
  ASSUME TypeOK, NEW p \in Phases, Goto(p)
  PROVE  process' \in [phase : Phases, options : SUBSET Options]
BY DEF Goto, TypeOK

LEMMA TypeInit == Init => TypeOK
<1> SUFFICES ASSUME Init PROVE TypeOK
  OBVIOUS
<1>1. db \in Databases
  BY FreshType DEF Init
<1>2. files \in Files
  BY DatabaseAssumption DEF Init, Files, Versions
<1>3. process \in [phase : Phases, options : SUBSET Options]
  BY DEF Init, Phases
<1>4. history \in HistoryType
  BY DatabaseAssumption DEF Init, HistoryType, Versions, Empty, Gone
<1> QED
  BY <1>1, <1>2, <1>3, <1>4 DEF TypeOK, Files, HistoryType

LEMMA TypeStep == TypeOK /\ [Next]_vars => TypeOK'
<1> SUFFICES ASSUME TypeOK, [Next]_vars PROVE TypeOK'
  OBVIOUS
<1> DEFINE Processes == [phase : Phases, options : SUBSET Options]
           Good == /\ db' \in Databases
                   /\ files' \in Files
                   /\ process' \in Processes
                   /\ history' \in HistoryType
<1>0. /\ db \in Databases /\ files \in Files
      /\ process \in Processes /\ history \in HistoryType
      /\ db.instance \in Versions \cup {Gone}
  BY DEF TypeOK, Databases, Files, HistoryType
<1> SUFFICES Good
  BY DEF TypeOK, Files, HistoryType
<1>1. ASSUME NEW o \in Programs, LoadEnvironment(o) PROVE Good
  <2>1. PICK f \in Troubles :
          /\ db' = IF "OF_LOAD_SNAP" \in o THEN LoadSnapshot(db, f) ELSE db
          /\ process' = [phase |-> "loaded", options |-> Flags(o)]
          /\ history' =
               [Blamed(f) EXCEPT
                  !.excused = @ \/ (db.instance = Gone
                                      /\ "OF_LOAD_SNAP" \in o /\ ~Readable),
                  !.fromXML = db'.state = "CONNECTED"]
    BY <1>1 DEF LoadEnvironment
  <2>2. db' \in Databases
    BY <2>1, <1>0, LoadSnapshotType
  <2>3. process' \in Processes
    BY <2>1, DatabaseAssumption DEF Flags, Phases
  <2>4. history' \in HistoryType
    BY <2>1, BlamedType, PromisedType, EmptyIsVersion DEF HistoryType
  <2> QED
    BY <1>0, <1>1, <2>2, <2>3, <2>4 DEF LoadEnvironment
<1>2. ASSUME GetConnection PROVE Good
  <2>1. PICK f \in Troubles :
          \/ /\ Attempted(f).fault
             /\ Down(Attempted(f).instance)
             /\ history' = [Blamed(f) EXCEPT !.aborted = TRUE]
          \/ /\ Obtained(f)
             /\ db' = Attempted(f)
             /\ process' = [process EXCEPT !.phase = "serving"]
             /\ history' = [Blamed(f) EXCEPT
                  !.latest = IF Blamed(f).excused THEN Attempted(f).instance
                             ELSE IF StartsEmpty THEN Empty ELSE @,
                  !.excused = FALSE]
          \/ /\ db' = Attempted(f)
             /\ process' = [process EXCEPT !.phase = "refused"]
             /\ history' = Blamed(f)
    BY <1>2 DEF GetConnection
  <2>2. /\ Attempted(f) \in Databases
        /\ Attempted(f).instance \in Versions \cup {Gone}
    BY <1>0, ConnectType DEF Databases, Attempted
  <2>3. Blamed(f) \in HistoryType
    BY BlamedType
  <2>4. files' \in Files
    BY <1>0, <1>2 DEF GetConnection
  <2>5. ASSUME Down(Attempted(f).instance),
               history' = [Blamed(f) EXCEPT !.aborted = TRUE]
        PROVE  Good
    <3>1. history' \in HistoryType
      BY <2>3, <2>5 DEF HistoryType
    <3> QED
      BY <2>2, <2>4, <2>5, <3>1, DownType
  <2>6. ASSUME Obtained(f), db' = Attempted(f),
               process' = [process EXCEPT !.phase = "serving"],
               history' = [Blamed(f) EXCEPT
                  !.latest = IF Blamed(f).excused THEN Attempted(f).instance
                             ELSE IF StartsEmpty THEN Empty ELSE @,
                  !.excused = FALSE]
        PROVE  Good
    <3>1. Attempted(f).instance \in Versions
      BY <2>2, <2>6 DEF Obtained
    <3>2. history' \in HistoryType
      BY <2>3, <2>6, <3>1, EmptyIsVersion DEF HistoryType
    <3>3. process' \in Processes
      BY <1>0, <2>6 DEF Phases
    <3> QED
      BY <2>2, <2>4, <2>6, <3>2, <3>3
  <2>7. ASSUME db' = Attempted(f), history' = Blamed(f),
               process' = [process EXCEPT !.phase = "refused"]
        PROVE  Good
    <3>1. process' \in Processes
      BY <1>0, <2>7 DEF Phases
    <3> QED
      BY <2>2, <2>3, <2>4, <2>7, <3>1
  <2> QED
    BY <2>1, <2>5, <2>6, <2>7
<1>3. CASE Write
  <2>1. history.version + 1 \in Versions
    BY <1>3, <1>0, DatabaseAssumption DEF Write, Versions, HistoryType
  <2>2. db' \in Databases
    BY <1>3, <1>0, <2>1 DEF Write, Databases
  <2>3. history' \in HistoryType
    BY <1>3, <1>0, <2>1 DEF Write, HistoryType
  <2> QED
    BY <1>0, <1>3, <2>2, <2>3 DEF Write
<1>4. CASE Stop
  <2>1. process' \in Processes
    BY <1>4, <1>0 DEF Stop, Goto, Phases
  <2> QED
    BY <1>0, <1>4, <2>1 DEF Stop
<1>5. CASE TruncateBin
  <2>1. process' \in Processes
    BY <1>5, <1>0 DEF TruncateBin, Goto, Phases
  <2>2. files' \in Files
    BY <1>5, <1>0 DEF TruncateBin, Files
  <2>3. history' \in HistoryType
    BY <1>5, <1>0, OneMoreType DEF TruncateBin, HistoryType
  <2> QED
    BY <1>0, <1>5, <2>1, <2>2, <2>3 DEF TruncateBin
<1>6. CASE SaveBin
  <2>1. process' \in Processes
    BY <1>6, <1>0 DEF SaveBin, Goto, Phases
  <2>2. files' \in Files
    BY <1>6, <1>0 DEF SaveBin, Files
  <2>3. history' \in HistoryType
    BY <1>6, <1>0, OneMoreType DEF SaveBin, HistoryType
  <2> QED
    BY <1>0, <1>6, <2>1, <2>2, <2>3 DEF SaveBin
<1>7. CASE TruncateXml
  <2>1. process' \in Processes
    BY <1>7, <1>0 DEF TruncateXml, Goto, Phases
  <2>2. files' \in Files
    BY <1>7, <1>0 DEF TruncateXml, Files
  <2>3. history' \in HistoryType
    BY <1>7, <1>0, OneMoreType DEF TruncateXml
  <2> QED
    BY <1>0, <1>7, <2>1, <2>2, <2>3 DEF TruncateXml
<1>8. CASE SaveXml
  <2>1. process' \in Processes
    BY <1>8, <1>0 DEF SaveXml, Goto, Phases
  <2>2. files' \in Files
    BY <1>8, <1>0 DEF SaveXml, Files
  <2>3. history' \in HistoryType
    BY <1>8, <1>0, OneMoreType DEF SaveXml
  <2> QED
    BY <1>0, <1>8, <2>1, <2>2, <2>3 DEF SaveXml
<1>9. CASE Leave
  <2>1. Down(Gone) \/ Down(db.instance)
    BY <1>9 DEF Leave
  <2>2. history' \in HistoryType
    BY <1>9, <1>0, OneMoreType DEF Leave, HistoryType
  <2> QED
    BY <1>0, <1>9, <2>1, <2>2, DownType DEF Leave
<1>10. CASE Crash
  BY <1>0, <1>10, DownType, OneMoreType DEF Crash
<1>11. CASE CrashInImport
  <2>1. history' \in HistoryType
    BY <1>11, OneMoreType DEF CrashInImport, HistoryType
  <2> QED
    BY <1>0, <1>11, <2>1, DownType, EmptyIsVersion DEF CrashInImport
<1>12. CASE Reboot
  <2>1. history' \in HistoryType
    BY <1>12, OneMoreType, PromisedType DEF Reboot, HistoryType
  <2> QED
    BY <1>0, <1>12, <2>1, DownType DEF Reboot
<1>13. CASE UNCHANGED vars
  BY <1>0, <1>13 DEF vars
<1> QED
  BY <1>1, <1>2, <1>3, <1>4, <1>5, <1>6, <1>7, <1>8, <1>9, <1>10, <1>11,
     <1>12, <1>13 DEF Next

(* The database object, the snapshots and what is known of the content     *)
(* keep their type, whatever calls of the library fail.                    *)
THEOREM TypeCorrect == Spec => []TypeOK
BY TypeInit, TypeStep, PTL DEF Spec

-----------------------------------------------------------------------------
(* One whole snapshot.  A file that is torn while nobody writes it cost a  *)
(* mishap, and it takes another to tear the second.                        *)

TornByMishap ==
  /\ files.bin = Torn /\ process.phase # "binary" => history.mishaps >= 1
  /\ files.xml = Torn /\ process.phase # "xml" => history.mishaps >= 1
  /\ OneSnapshotWhole

LEMMA TornInit == Init => TornByMishap
BY DEF Init, TornByMishap, OneSnapshotWhole, Gone, Torn

(* A step that leaves the files alone, and a phase in which one of them is *)
(* written only at the price of a mishap.                                  *)
LEMMA FilesLeftAlone ==
  ASSUME TypeOK, TornByMishap, UNCHANGED files,
         history'.mishaps \in Nat,
         process'.phase \notin {"binary", "xml"},
         IF process.phase \in {"binary", "xml"}
         THEN history'.mishaps >= history.mishaps + 1
         ELSE history'.mishaps >= history.mishaps
  PROVE  TornByMishap'
<1>1. history.mishaps \in Nat
  BY DatabaseAssumption DEF TypeOK
<1> QED
  BY <1>1 DEF TornByMishap, OneSnapshotWhole

LEMMA TornStep == TypeOK /\ TypeOK' /\ TornByMishap /\ [Next]_vars => TornByMishap'
<1> SUFFICES ASSUME TypeOK, TypeOK', TornByMishap, [Next]_vars
             PROVE  TornByMishap'
  OBVIOUS
<1>0. history.mishaps \in Nat /\ history'.mishaps \in Nat
  BY DatabaseAssumption DEF TypeOK
<1>1. ASSUME NEW o \in Programs, LoadEnvironment(o) PROVE TornByMishap'
  <2>1. PICK f \in Troubles : history'.mishaps = Blamed(f).mishaps
    BY <1>1 DEF LoadEnvironment, Blamed, TypeOK
  <2>2. history'.mishaps >= history.mishaps
    BY <2>1, <1>0, TroublesCount DEF Blamed, TypeOK
  <2> QED
    BY <1>0, <1>1, <2>2, FilesLeftAlone DEF LoadEnvironment
<1>2. CASE GetConnection
  <2>1. PICK f \in Troubles :
          \/ history' = [Blamed(f) EXCEPT !.aborted = TRUE]
          \/ \E i : history' = [Blamed(f) EXCEPT !.latest = i,
                                                !.excused = FALSE]
          \/ history' = Blamed(f)
    BY <1>2, Zenon DEF GetConnection
  <2>2. history'.mishaps >= history.mishaps
    <3>1. Blamed(f) \in HistoryType
      BY BlamedType
    <3>2. Blamed(f).mishaps = history.mishaps + Cardinality(f)
      BY DEF Blamed, TypeOK
    <3>3. history'.mishaps = Blamed(f).mishaps
      <4>1. CASE history' = [Blamed(f) EXCEPT !.aborted = TRUE]
        BY <3>1, <4>1 DEF HistoryType
      <4>2. CASE \E i : history' = [Blamed(f) EXCEPT !.latest = i,
                                                   !.excused = FALSE]
        BY <3>1, <4>2 DEF HistoryType
      <4>3. CASE history' = Blamed(f)
        BY <4>3
      <4> QED
        BY <2>1, <4>1, <4>2, <4>3
    <3> QED
      BY <1>0, <3>2, <3>3, TroublesCount
  <2>3. process'.phase \in {"down", "serving", "refused"}
    BY <1>2 DEF GetConnection, Down, TypeOK
  <2> QED
    BY <1>0, <1>2, <2>2, <2>3, FilesLeftAlone DEF GetConnection
<1>3. CASE Write
  BY <1>0, <1>3, FilesLeftAlone DEF Write, TypeOK
<1>4. CASE Stop
  BY <1>0, <1>4, FilesLeftAlone DEF Stop, Goto, TypeOK
<1>5. CASE TruncateBin
  <2>1. CASE files' = [files EXCEPT !.bin = Torn] /\ Goto("binary")
             /\ UNCHANGED history
    BY <1>0, <1>5, <2>1 DEF TruncateBin, Goto, TornByMishap,
       OneSnapshotWhole, TypeOK
  <2>2. CASE history' = [OneMore EXCEPT !.excused = TRUE]
             /\ Goto("halfway") /\ UNCHANGED files
    <3>1. /\ UNCHANGED files
          /\ process.phase = "saving" /\ process'.phase = "halfway"
          /\ history'.mishaps = history.mishaps + 1
      BY <1>5, <2>2 DEF TruncateBin, Goto, OneMore, TypeOK
    <3> QED
      BY <1>0, <3>1, FilesLeftAlone
  <2> QED
    BY <1>5, <2>1, <2>2 DEF TruncateBin
<1>6. CASE SaveBin
  <2>1. db.instance # Torn
    BY EmptyIsVersion DEF TypeOK, Databases, Gone, Torn
  <2>2. CASE files' = [files EXCEPT !.bin = db.instance] /\ UNCHANGED history
    BY <1>0, <1>6, <2>1, <2>2 DEF SaveBin, Goto, TornByMishap,
       OneSnapshotWhole, TypeOK
  <2>3. CASE history' = [OneMore EXCEPT !.excused = TRUE] /\ UNCHANGED files
    <3>1. /\ UNCHANGED files
          /\ process.phase = "binary" /\ process'.phase = "halfway"
          /\ history'.mishaps = history.mishaps + 1
      BY <1>6, <2>3 DEF SaveBin, Goto, OneMore, TypeOK
    <3> QED
      BY <1>0, <3>1, FilesLeftAlone
  <2> QED
    BY <1>6, <2>2, <2>3 DEF SaveBin
<1>7. CASE TruncateXml
  <2>1. CASE files' = [files EXCEPT !.xml = Torn] /\ Goto("xml")
             /\ UNCHANGED history
    BY <1>0, <1>7, <2>1 DEF TruncateXml, Goto, TornByMishap,
       OneSnapshotWhole, TypeOK
  <2>2. CASE Goto("leaving") /\ UNCHANGED <<files, history>>
    <3>1. /\ UNCHANGED <<files, history>>
          /\ process.phase = "halfway" /\ process'.phase = "leaving"
      BY <1>7, <2>2 DEF TruncateXml, Goto, TypeOK
    <3> QED
      BY <1>0, <3>1, FilesLeftAlone
  <2>3. CASE Goto("leaving") /\ history' = OneMore /\ UNCHANGED files
    <3>1. /\ UNCHANGED files
          /\ process.phase = "halfway" /\ process'.phase = "leaving"
          /\ history'.mishaps = history.mishaps + 1
      BY <1>7, <2>3 DEF TruncateXml, Goto, OneMore, TypeOK
    <3> QED
      BY <1>0, <3>1, FilesLeftAlone
  <2> QED
    BY <1>7, <2>1, <2>2, <2>3 DEF TruncateXml
<1>8. CASE SaveXml
  <2>1. db.instance # Torn
    BY EmptyIsVersion DEF TypeOK, Databases, Gone, Torn
  <2>2. CASE files' = [files EXCEPT !.xml = db.instance] /\ UNCHANGED history
    BY <1>0, <1>8, <2>1, <2>2 DEF SaveXml, Goto, TornByMishap,
       OneSnapshotWhole, TypeOK
  <2>3. CASE history' = OneMore /\ UNCHANGED files
    BY <1>0, <1>8, <2>3, FilesLeftAlone DEF SaveXml, Goto, OneMore, TypeOK
  <2> QED
    BY <1>8, <2>2, <2>3 DEF SaveXml
<1>9. CASE Leave
  BY <1>0, <1>9, FilesLeftAlone DEF Leave, Down, OneMore, TypeOK
<1>10. CASE Crash
  BY <1>0, <1>10, FilesLeftAlone DEF Crash, Down, OneMore, TypeOK
<1>11. CASE CrashInImport
  BY <1>0, <1>11, FilesLeftAlone DEF CrashInImport, Down, OneMore, TypeOK
<1>12. CASE Reboot
  BY <1>0, <1>12, FilesLeftAlone DEF Reboot, Down, OneMore, TypeOK
<1>13. CASE UNCHANGED vars
  BY <1>13 DEF vars, TornByMishap, OneSnapshotWhole
<1> QED
  BY <1>1, <1>2, <1>3, <1>4, <1>5, <1>6, <1>7, <1>8, <1>9, <1>10, <1>11,
     <1>12, <1>13 DEF Next

(* It takes two mishaps, in any number of lives of the programs, to leave  *)
(* both snapshots torn.                                                    *)
THEOREM SnapshotsWhole == Spec => []OneSnapshotWhole
<1>1. Init => TypeOK /\ TornByMishap
  BY TypeInit, TornInit
<1>2. TypeOK /\ TornByMishap /\ [Next]_vars => (TypeOK /\ TornByMishap)'
  BY TypeStep, TornStep
<1>3. TornByMishap => OneSnapshotWhole
  BY DEF TornByMishap
<1> QED
  BY <1>1, <1>2, <1>3, PTL DEF Spec

-----------------------------------------------------------------------------
(* What the operators of DatabaseImpl do to the instance.                  *)

LEMMA TransitionKeeps ==
  ASSUME NEW d \in Databases, NEW s \in States
  PROVE  /\ TransitionToState(d, s).instance = d.instance
         /\ InitRuntime(d).instance = d.instance
         /\ Clear(d).instance = d.instance
BY DEF TransitionToState, InitRuntime, Clear, Databases

(* The same for the two states most transitions lead to, with the type.    *)
LEMMA AttachKeeps ==
  ASSUME NEW d \in Databases
  PROVE  /\ TransitionToState(d, "ATTACHED") \in Databases
         /\ TransitionToState(d, "ATTACHED").instance = d.instance
<1>1. "ATTACHED" \in States
  BY DEF States
<1> QED
  BY <1>1, TransitionType, TransitionKeeps

LEMMA ClearKeeps ==
  ASSUME NEW d \in Databases
  PROVE  Clear(d) \in Databases /\ Clear(d).instance = d.instance
<1>1. "ATTACHED" \in States
  BY DEF States
<1> QED
  BY <1>1, ClearType, TransitionKeeps

LEMMA InitRuntimeKeeps ==
  ASSUME NEW d \in Databases
  PROVE  InitRuntime(d) \in Databases /\ InitRuntime(d).instance = d.instance
<1>1. "ATTACHED" \in States
  BY DEF States
<1> QED
  BY <1>1, InitRuntimeType, TransitionKeeps

(* An instance that exists is not loaded over, created again or dropped.   *)
LEMMA OpenKeeps ==
  ASSUME NEW d \in Databases, NEW f, files \in Files, d.instance # Gone
  PROVE  /\ LoadSnapshot(d, f).instance = d.instance
         /\ Open(d, f).instance = d.instance
<1>1. ASSUME NEW e \in Databases, e.instance # Gone
      PROVE  LoadSnapshot(e, f).instance = e.instance
  <2> DEFINE ready == InitRuntime(e)
  <2>1. ready \in Databases /\ ready.instance = e.instance
    BY InitRuntimeKeeps
  <2>2. [ready EXCEPT !.error = "SNAPSHOT_READ"].instance = e.instance
    BY <2>1 DEF Databases
  <2>3. [e EXCEPT !.fault = TRUE].instance = e.instance
    BY DEF Databases
  <2>4. RestoreFromXML(ready, f).instance = e.instance
    BY <1>1, <2>1, <2>2 DEF RestoreFromXML, OpenDev
  <2> QED
    BY <1>1, <2>2, <2>3, <2>4 DEF LoadSnapshot
<1> DEFINE wanted == "OF_LOAD_SNAP" \in process.options /\ ~d.loaded
           read == IF wanted THEN LoadSnapshot(d, f) ELSE Clear(d)
           restored == IF wanted /\ read.error = "NONE"
                       THEN TransitionToState(read, "ATTACHED") ELSE read
           created == [restored EXCEPT !.instance =
                         IF OpenDev(restored, f) = "ok" THEN Empty ELSE @]
           opened == TransitionToState(created, "ATTACHED")
<1>2. read \in Databases /\ read.instance = d.instance
  <2>1. LoadSnapshot(d, f) \in Databases
        /\ LoadSnapshot(d, f).instance = d.instance
    BY <1>1, LoadSnapshotType
  <2>2. Clear(d) \in Databases /\ Clear(d).instance = d.instance
    BY ClearKeeps
  <2> HIDE DEF wanted
  <2> QED
    BY <2>1, <2>2
<1>3. restored \in Databases /\ restored.instance = d.instance
  <2> HIDE DEF wanted, read
  <2>1. TransitionToState(read, "ATTACHED") \in Databases
        /\ TransitionToState(read, "ATTACHED").instance = d.instance
    BY <1>2, AttachKeeps
  <2> QED
    BY <1>2, <2>1
<1>4. OpenDev(restored, f) # "ok"
  <2> HIDE DEF restored
  <2> QED
    BY <1>3 DEF OpenDev
<1>5. created \in Databases /\ created.instance = d.instance
  <2> HIDE DEF restored
  <2> QED
    BY <1>3, <1>4 DEF Databases
<1>6. opened \in Databases /\ opened.instance = d.instance
  <2> HIDE DEF created
  <2> QED
    BY <1>5, AttachKeeps
<1>7. [opened EXCEPT !.error = "RUNTIME_FATAL"].instance = d.instance
  <2> HIDE DEF opened
  <2> QED
    BY <1>6 DEF Databases
<1>8. Open(d, f).instance = d.instance
  BY <1>2, <1>3, <1>6, <1>7 DEF Open
<1> QED
  BY <1>1, <1>8

LEMMA ConnectKeeps ==
  ASSUME NEW d \in Databases, NEW f, files \in Files, d.instance # Gone,
         "OF_TRUNCATE" \notin process.options
  PROVE  Connect(d, f).instance = d.instance
<1>1. ASSUME NEW e \in Databases, e.instance # Gone
      PROVE  ConnectToInstance(e, f).instance = e.instance
  <2> DEFINE opened == Open(e, f)
             connected == TransitionToState([opened EXCEPT !.handle = "open"],
                                            "CONNECTED")
  <2>1. opened \in Databases /\ opened.instance = e.instance
    BY <1>1, OpenType, OpenKeeps
  <2>2. /\ [opened EXCEPT !.handle = "open"] \in Databases
        /\ [opened EXCEPT !.handle = "open"].instance = e.instance
    BY <2>1 DEF Databases, Handles
  <2> HIDE DEF opened
  <2>3. connected.instance = e.instance
    <3>1. "CONNECTED" \in States
      BY DEF States
    <3> QED
      BY <2>2, <3>1, TransitionKeeps
  <2>4. TransitionToState(opened, "DISCONNECTED").instance = e.instance
    <3>1. "DISCONNECTED" \in States
      BY DEF States
    <3> QED
      BY <2>1, <3>1, TransitionKeeps
  <2>5. \/ ConnectToInstance(e, f) = opened
        \/ ConnectToInstance(e, f) = TransitionToState(opened, "DISCONNECTED")
        \/ ConnectToInstance(e, f) = connected
    BY DEF ConnectToInstance, opened
  <2> HIDE DEF connected
  <2> QED
    BY <2>1, <2>3, <2>4, <2>5
<1> DEFINE ready == InitRuntime(d)
           asked == IF ready.state \in {"INITIALIZED", "ATTACHED"}
                    THEN ConnectToInstance(ready, f) ELSE ready
<1>2. ready \in Databases /\ ready.instance = d.instance
  BY InitRuntimeKeeps
<1>3. asked \in Databases /\ asked.instance = d.instance
  BY <1>1, <1>2, ConnectToInstanceType
<1>4. RegisterEvents(asked).instance = d.instance
  BY <1>3 DEF RegisterEvents, Databases
<1> QED
  BY <1>4 DEF Connect

(* A process that is not to load, when nothing fails.                      *)
Unopened(d) ==
  /\ d.state \in {"UNINITIALIZED", "INITIALIZED"}
  /\ ~d.fault
  /\ d.loaded => "OF_TRUNCATE" \in process.options

LEMMA ConnectWithoutLoad ==
  ASSUME NEW d \in Databases, Unopened(d),
         "OF_LOAD_SNAP" \notin process.options
  PROVE  LET c == Connect(d, {})
         IN /\ ~c.fault
            /\ c.state = "CONNECTED"
            /\ c.instance =
                 IF "OF_TRUNCATE" \in process.options \/ d.instance = Gone
                 THEN Empty ELSE d.instance
<1> DEFINE ready == InitRuntime(d)
           read == Clear(ready)
           created == [read EXCEPT !.instance =
                         IF OpenDev(read, {}) = "ok" THEN Empty ELSE @]
           opened == Open(ready, {})
           connected == TransitionToState([opened EXCEPT !.handle = "open"],
                                          "CONNECTED")
           asked == ConnectToInstance(ready, {})
<1>1. /\ ready \in Databases /\ ready.state = "INITIALIZED"
      /\ ~ready.fault /\ ready.loaded = d.loaded
      /\ ready.instance = d.instance
  BY DEF InitRuntime, TransitionToState, Transitions, Clear, Unopened,
     Databases, States, Errors
<1>2. /\ read \in Databases /\ read.state = "INITIALIZED"
      /\ read.error = "NONE" /\ ~read.fault /\ read.loaded = d.loaded
      /\ read.instance = d.instance
  BY <1>1 DEF Clear, Databases, Errors
<1>3. /\ created \in Databases /\ created.state = "INITIALIZED" /\ ~created.fault
      /\ created.instance = IF d.instance = Gone THEN Empty ELSE d.instance
  BY <1>2, EmptyIsVersion DEF OpenDev, Databases
<1>4. /\ TransitionToState(created, "ATTACHED") \in Databases
      /\ TransitionToState(created, "ATTACHED").state = "ATTACHED"
      /\ TransitionToState(created, "ATTACHED").error = "NONE"
      /\ ~TransitionToState(created, "ATTACHED").fault
      /\ TransitionToState(created, "ATTACHED").instance = created.instance
  BY <1>3 DEF TransitionToState, Transitions, Databases, States, Errors
<1>5. opened = IF d.loaded THEN read ELSE TransitionToState(created, "ATTACHED")
  BY <1>2 DEF Open, OpenDev
<1>6. /\ opened \in Databases /\ opened.state \in {"INITIALIZED", "ATTACHED"}
      /\ opened.error = "NONE" /\ ~opened.fault
      /\ "OF_TRUNCATE" \notin process.options =>
           opened.instance = created.instance
  BY <1>2, <1>4, <1>5 DEF Unopened
<1>7. /\ connected \in Databases /\ connected.state = "CONNECTED"
      /\ connected.handle = "open" /\ ~connected.fault
      /\ connected.instance = opened.instance
  BY <1>6 DEF TransitionToState, Transitions, Databases, Handles, States, Errors
<1>8. asked = IF "OF_TRUNCATE" \in process.options
              THEN [connected EXCEPT !.instance = Empty] ELSE connected
  <2> HIDE DEF ready
  <2> QED
    BY <1>6 DEF ConnectToInstance
<1>9. /\ asked \in Databases /\ asked.state = "CONNECTED"
      /\ asked.handle = "open" /\ ~asked.fault
      /\ asked.instance =
           IF "OF_TRUNCATE" \in process.options \/ d.instance = Gone
           THEN Empty ELSE d.instance
  BY <1>3, <1>6, <1>7, <1>8, EmptyIsVersion DEF Databases
<1>10. Connect(d, {}) = RegisterEvents(asked)
  BY <1>1 DEF Connect
<1>11. /\ ~RegisterEvents(asked).fault
       /\ RegisterEvents(asked).state = asked.state
       /\ RegisterEvents(asked).instance = asked.instance
  <2> HIDE DEF asked
  <2> QED
    BY <1>9 DEF RegisterEvents, Databases
<1> QED
  BY <1>9, <1>10, <1>11

(* What the request for a snapshot leaves to getConnection().              *)
LEMMA LoadLeavesUnopened ==
  ASSUME NEW i \in Versions \cup {Gone}, files \in Files
  PROVE  LET d == LoadSnapshot(Fresh(i), {})
         IN Unconnected(d) =>
              d.state \in {"UNINITIALIZED", "INITIALIZED"} /\ ~d.fault
<1> DEFINE ready == InitRuntime(Fresh(i))
           attached == TransitionToState([ready EXCEPT !.instance = Empty],
                                         "ATTACHED")
           connected == TransitionToState([attached EXCEPT !.handle = "open"],
                                          "CONNECTED")
           imported == LoadFromXML(connected, {})
           released == TransitionToState([imported EXCEPT !.handle = "stale",
                                                          !.loaded = FALSE],
                                         "DISCONNECTED")
           restored == RestoreFromXML(ready, {})
<1>1. /\ ready \in Databases /\ ready.state = "INITIALIZED" /\ ~ready.fault
  BY FreshType DEF InitRuntime, TransitionToState, Transitions, Fresh,
     Databases, States, Errors, Handles
<1>2. attached \in Databases /\ attached.state = "ATTACHED"
  BY <1>1, EmptyIsVersion
     DEF TransitionToState, Transitions, Databases, States, Errors
<1>3. connected \in Databases /\ connected.state = "CONNECTED"
  <2> DEFINE held == [attached EXCEPT !.handle = "open"]
  <2> HIDE DEF attached
  <2>1. held \in Databases /\ held.state = "ATTACHED"
    BY <1>2 DEF Databases, Handles
  <2> HIDE DEF held
  <2>2. /\ TransitionToState(held, "CONNECTED") \in Databases
        /\ TransitionToState(held, "CONNECTED").state = "CONNECTED"
    BY <2>1 DEF TransitionToState, Transitions, Databases, States, Errors
  <2> QED
    BY <2>2 DEF held
<1>4. imported \in Databases /\ imported.state = "CONNECTED"
  BY <1>3, EmptyIsVersion DEF LoadFromXML, Clear, Databases, Errors, Files
<1>5. released \in Databases /\ released.state = "DISCONNECTED"
  <2> DEFINE left == [imported EXCEPT !.handle = "stale", !.loaded = FALSE]
  <2>1. left \in Databases /\ left.state = "CONNECTED"
    BY <1>4 DEF Databases, Handles
  <2> HIDE DEF left
  <2>2. /\ TransitionToState(left, "DISCONNECTED") \in Databases
        /\ TransitionToState(left, "DISCONNECTED").state = "DISCONNECTED"
    BY <2>1 DEF TransitionToState, Transitions, Databases, States, Errors
  <2> QED
    BY <2>2 DEF left
<1>6. \/ restored.state \in {"CONNECTED", "DISCONNECTED"}
      \/ restored.state = "INITIALIZED" /\ ~restored.fault
  <2>1. [released EXCEPT !.error = imported.error].state = "DISCONNECTED"
    BY <1>5 DEF Databases
  <2>2. [ready EXCEPT !.error = "SNAPSHOT_READ"].state = "INITIALIZED"
        /\ ~[ready EXCEPT !.error = "SNAPSHOT_READ"].fault
    BY <1>1 DEF Databases
  <2> HIDE DEF ready
  <2> QED
    BY <1>4, <2>1, <2>2 DEF RestoreFromXML
<1>7. \/ LoadSnapshot(Fresh(i), {}) = restored
      \/ /\ LoadSnapshot(Fresh(i), {}).state = "INITIALIZED"
         /\ ~LoadSnapshot(Fresh(i), {}).fault
  <2>1. Fresh(i).handle = "null" /\ ~Fresh(i).loaded
    BY DEF Fresh
  <2>2. [ready EXCEPT !.error = "SNAPSHOT_READ"].state = "INITIALIZED"
        /\ ~[ready EXCEPT !.error = "SNAPSHOT_READ"].fault
    BY <1>1 DEF Databases
  <2>3. /\ [ready EXCEPT !.loaded = TRUE, !.instance = files.bin].state
             = "INITIALIZED"
        /\ ~[ready EXCEPT !.loaded = TRUE, !.instance = files.bin].fault
    BY <1>1 DEF Databases
  <2> QED
    BY <2>1, <2>2, <2>3 DEF LoadSnapshot
<1> QED
  BY <1>6, <1>7 DEF Unconnected

(* A process that loads and finds no instance, when nothing fails.         *)
LEMMA LoadsWhatIsPromised ==
  ASSUME files \in Files, Readable
  PROVE  /\ LoadSnapshot(Fresh(Gone), {}).instance = Promised
         /\ Promised # Gone
<1> DEFINE Record(state, handle, loaded, error, instance) ==
             [state |-> state, handle |-> handle, loaded |-> loaded,
              error |-> error, watched |-> FALSE, fault |-> FALSE,
              instance |-> instance]
           ready == Record("INITIALIZED", "null", FALSE, "NONE", Gone)
           opened == Record("CONNECTED", "open", FALSE, "NONE", Empty)
<1>0. InitRuntime(Fresh(Gone)) = ready
  BY DEF InitRuntime, TransitionToState, Transitions, Fresh
<1>1. CASE files.bin # Gone
  <2>1. files.bin \in Versions
    BY <1>1 DEF Readable, Files
  <2>2. LoadSnapshot(Fresh(Gone), {}) = [ready EXCEPT !.loaded = TRUE,
                                                      !.instance = files.bin]
    BY <1>0, <1>1, <2>1, EmptyIsVersion DEF LoadSnapshot, Fresh
  <2> QED
    BY <2>1, <2>2, EmptyIsVersion DEF Promised, Whole
<1>2. CASE files.bin = Gone
  <2>1. LoadSnapshot(Fresh(Gone), {}) = RestoreFromXML(ready, {})
    BY <1>0, <1>2 DEF LoadSnapshot, Fresh
  <2>2. TransitionToState([TransitionToState([ready EXCEPT !.instance = Empty],
                             "ATTACHED") EXCEPT !.handle = "open"],
                          "CONNECTED") = opened
    BY DEF TransitionToState, Transitions
  <2>3. CASE files.xml = Gone
    <3>1. LoadFromXML(opened, {})
            = Record("CONNECTED", "open", FALSE, "XML_IMPORT", Empty)
      BY <2>3 DEF LoadFromXML
    <3>2. RestoreFromXML(ready, {}).instance = Empty
      BY <2>2, <3>1 DEF RestoreFromXML, OpenDev, TransitionToState, Transitions
    <3> QED
      BY <1>2, <2>1, <2>3, <3>2, EmptyIsVersion DEF Promised, Whole
  <2>4. CASE files.xml # Gone
    <3>1. files.xml \in Versions
      BY <1>2, <2>4 DEF Readable, Files
    <3>2. LoadFromXML(opened, {})
            = Record("CONNECTED", "open", TRUE, "NONE", files.xml)
      BY <2>4, <3>1, EmptyIsVersion DEF LoadFromXML, Clear
    <3>3. RestoreFromXML(ready, {}).instance = files.xml
      BY <2>2, <3>2 DEF RestoreFromXML, OpenDev
    <3> QED
      BY <1>2, <2>1, <3>1, <3>3, EmptyIsVersion DEF Promised, Whole
  <2> QED
    BY <2>3, <2>4
<1> QED
  BY <1>1, <1>2

-----------------------------------------------------------------------------
(* What is served.  While nothing excuses a loss, the instance in memory is *)
(* the latest content; where there is none the snapshot is, if it can be   *)
(* read; and a process that saved the database saved that.                 *)

Saved == {"halfway", "xml", "leaving"}

KeptInv ==
  /\ process.phase = "down" => db = Fresh(db.instance)
  /\ "OF_LOAD_SNAP" \in process.options =>
       "OF_TRUNCATE" \notin process.options
  /\ ~history.excused =>
       /\ db.instance # Gone => db.instance = history.latest
       /\ db.instance = Gone =>
            \/ process.phase = "down"
            \/ /\ process.phase = "loaded" /\ Unconnected(db)
               /\ "OF_LOAD_SNAP" \notin process.options
       /\ process.phase = "loaded" /\ Unconnected(db)
          /\ "OF_LOAD_SNAP" \notin process.options => Unopened(db)
       /\ db.instance = Gone /\ Readable => Promised = history.latest
       /\ process.phase \in Saved /\ db.state = "CONNECTED" =>
            files.bin = db.instance

LEMMA KeptInit == Init => KeptInv
BY DatabaseAssumption, EmptyIsVersion
   DEF Init, KeptInv, Fresh, Readable, Promised, Whole, Saved, Gone, Torn,
       Versions, Empty

(* A process that asks for a snapshot has its database loaded or created.  *)
LEMMA KeptLoad ==
  ASSUME TypeOK, TypeOK', KeptInv, NEW o \in Programs, LoadEnvironment(o)
  PROVE  KeptInv'
<1> DEFINE flags == Flags(o)
           asked == "OF_LOAD_SNAP" \in o
<1>1. PICK f \in Troubles :
        /\ db' = IF asked THEN LoadSnapshot(db, f) ELSE db
        /\ process' = [phase |-> "loaded", options |-> flags]
        /\ history' =
             [Blamed(f) EXCEPT
                !.excused = @ \/ (db.instance = Gone /\ asked /\ ~Readable),
                !.fromXML = db'.state = "CONNECTED"]
  BY Zenon DEF LoadEnvironment
<1>2. /\ process.phase = "down" /\ UNCHANGED files
      /\ db = Fresh(db.instance)
  BY DEF LoadEnvironment, KeptInv
<1>3. /\ history'.latest = history.latest
      /\ ~history'.excused => /\ ~history.excused /\ f = {}
                              /\ ~(db.instance = Gone /\ asked /\ ~Readable)
  <2>1. Blamed(f) \in HistoryType /\ Blamed(f).latest = history.latest
    BY BlamedType DEF Blamed, TypeOK
  <2>2. ~Blamed(f).excused => ~history.excused /\ f = {}
    BY DEF Blamed, TypeOK
  <2>3. history'.latest = Blamed(f).latest
    BY <1>1, <2>1 DEF HistoryType
  <2>4. history'.excused = (Blamed(f).excused
                              \/ (db.instance = Gone /\ asked /\ ~Readable))
    BY <1>1, <2>1 DEF HistoryType
  <2> QED
    BY <2>1, <2>2, <2>3, <2>4
<1>4. /\ process'.phase = "loaded" /\ process'.options = flags
      /\ "OF_LOAD_SNAP" \in flags =>
           asked /\ "OF_TRUNCATE" \notin flags
      /\ asked /\ "OF_LOAD_SNAP" \notin flags => "OF_TRUNCATE" \in flags
  BY <1>1 DEF Flags
<1>5. CASE ~asked
  <2>1. db' = db
    BY <1>1, <1>5
  <2> QED
    BY <1>2, <1>3, <1>4, <1>5, <2>1
       DEF KeptInv, Readable, Promised, Whole, Saved, Fresh, Unconnected,
           Unopened
<1>6. CASE asked
  <2>1. db' = LoadSnapshot(db, f)
    BY <1>1, <1>6
  <2>2. ASSUME ~history'.excused
        PROVE  db'.instance # Gone /\ db'.instance = history'.latest
    <3>1. CASE db.instance # Gone
      BY <1>3, <2>1, <2>2, <3>1, OpenKeeps DEF KeptInv, TypeOK, Files
    <3>2. CASE db.instance = Gone
      <4>1. f = {} /\ Readable /\ db = Fresh(Gone) /\ files \in Files
        BY <1>2, <1>3, <1>6, <2>2, <3>2 DEF TypeOK, Files
      <4>2. db'.instance = Promised /\ Promised # Gone
        BY <2>1, <4>1, LoadsWhatIsPromised
      <4> QED
        BY <1>3, <2>2, <3>2, <4>1, <4>2 DEF KeptInv
    <3> QED
      BY <3>1, <3>2
  <2>3. ASSUME ~history'.excused, "OF_LOAD_SNAP" \notin flags,
               Unconnected(db')
        PROVE  Unopened(db)'
    <3>1. /\ db' = LoadSnapshot(Fresh(db.instance), {}) /\ files \in Files
          /\ db.instance \in Versions \cup {Gone}
      BY <1>2, <1>3, <2>1, <2>3 DEF TypeOK, Files, Databases
    <3>2. db'.state \in {"UNINITIALIZED", "INITIALIZED"} /\ ~db'.fault
      BY <2>3, <3>1, LoadLeavesUnopened
    <3> QED
      BY <1>4, <1>6, <2>3, <3>2 DEF Unopened
  <2>4. Unconnected(db') <=> Unconnected(db)'
    BY DEF Unconnected
  <2> QED
    BY <1>4, <1>6, <2>2, <2>3, <2>4 DEF KeptInv, Saved
<1> QED
  BY <1>5, <1>6

(* A process that gets its connection serves what it found.                *)
LEMMA KeptConnection ==
  ASSUME TypeOK, TypeOK', KeptInv, GetConnection
  PROVE  KeptInv'
<1>1. PICK f \in Troubles :
        \/ /\ Attempted(f).fault
           /\ Down(Attempted(f).instance)
           /\ history' = [Blamed(f) EXCEPT !.aborted = TRUE]
        \/ /\ ~Attempted(f).fault /\ Obtained(f)
           /\ db' = Attempted(f)
           /\ process' = [process EXCEPT !.phase = "serving"]
           /\ history' = [Blamed(f) EXCEPT
                !.latest = IF Blamed(f).excused THEN Attempted(f).instance
                           ELSE IF StartsEmpty THEN Empty ELSE @,
                !.excused = FALSE]
        \/ /\ ~Attempted(f).fault /\ ~Obtained(f)
           /\ db' = Attempted(f)
           /\ process' = [process EXCEPT !.phase = "refused"]
           /\ history' = Blamed(f)
  BY Zenon DEF GetConnection
<1>2. process.phase = "loaded" /\ UNCHANGED files /\ files \in Files
      /\ db \in Databases
  BY DEF GetConnection, TypeOK, Files
<1>3. /\ Blamed(f) \in HistoryType
      /\ Blamed(f).latest = history.latest
      /\ ~Blamed(f).excused => ~history.excused /\ f = {}
  <2>1. Blamed(f) \in HistoryType /\ Blamed(f).latest = history.latest
    BY BlamedType DEF Blamed, TypeOK
  <2>2. ~Blamed(f).excused => ~history.excused /\ f = {}
    BY DEF Blamed, TypeOK
  <2> QED
    BY <2>1, <2>2
(* What a process gets when nothing failed and nothing was excused.        *)
<1>5. ASSUME ~Blamed(f).excused, Unconnected(db)
      PROVE  /\ Attempted(f).instance # Gone
             /\ Attempted(f).instance = IF StartsEmpty THEN Empty
                                                       ELSE history.latest
             /\ Attempted(f).fault => "OF_LOAD_SNAP" \in process.options
             /\ Attempted(f).state = "CONNECTED"
                  \/ "OF_LOAD_SNAP" \in process.options
  <2>1. Attempted(f) = Connect(db, {})
    BY <1>3, <1>5 DEF Attempted
  <2>2. CASE "OF_LOAD_SNAP" \in process.options
    <3>1. /\ db.instance # Gone /\ db.instance = history.latest
          /\ "OF_TRUNCATE" \notin process.options
      BY <1>2, <1>3, <1>5, <2>2 DEF KeptInv
    <3>2. Connect(db, {}).instance = db.instance
      BY <1>2, <3>1, ConnectKeeps
    <3>3. ~StartsEmpty
      BY <2>2, <3>1 DEF StartsEmpty
    <3> QED
      BY <2>1, <2>2, <3>1, <3>2, <3>3
  <2>3. CASE "OF_LOAD_SNAP" \notin process.options
    <3>1. Unopened(db)
      BY <1>2, <1>3, <1>5, <2>3 DEF KeptInv
    <3>2. /\ ~Connect(db, {}).fault
          /\ Connect(db, {}).state = "CONNECTED"
          /\ Connect(db, {}).instance =
               IF "OF_TRUNCATE" \in process.options \/ db.instance = Gone
               THEN Empty ELSE db.instance
      BY <1>2, <2>3, <3>1, ConnectWithoutLoad
    <3>3. StartsEmpty <=> "OF_TRUNCATE" \in process.options
                            \/ db.instance = Gone
      BY <1>5, <2>3 DEF StartsEmpty
    <3>4. db.instance # Gone => db.instance = history.latest
      BY <1>3, <1>5 DEF KeptInv
    <3> QED
      BY <2>1, <3>2, <3>3, <3>4, EmptyIsVersion
  <2> QED
    BY <2>2, <2>3
(* A database that LoadSnapshot() connected, or that it left.              *)
<1>6. ASSUME ~Unconnected(db) PROVE Attempted(f) = db /\ ~StartsEmpty
  BY <1>6 DEF Attempted, StartsEmpty
<1>7. ASSUME ~Blamed(f).excused
      PROVE  /\ Attempted(f).instance # Gone
             /\ Attempted(f).instance = IF StartsEmpty THEN Empty
                                                       ELSE history.latest
             /\ Attempted(f).fault \/ ~Obtained(f) => ~StartsEmpty
  <2>1. CASE Unconnected(db)
    <3>1. Obtained(f)
      BY <1>3, <1>5, <1>7, <2>1 DEF Obtained, Unconnected
    <3>2. "OF_LOAD_SNAP" \in process.options => ~StartsEmpty
      BY DEF StartsEmpty, KeptInv
    <3> QED
      BY <1>5, <1>7, <2>1, <3>1, <3>2
  <2>2. CASE ~Unconnected(db)
    BY <1>2, <1>3, <1>6, <1>7, <2>2 DEF KeptInv
  <2> QED
    BY <2>1, <2>2
<1>8. CASE /\ Attempted(f).fault
           /\ Down(Attempted(f).instance)
           /\ history' = [Blamed(f) EXCEPT !.aborted = TRUE]
  <2>1. /\ process'.phase = "down" /\ process'.options = {}
        /\ db' = Fresh(Attempted(f).instance)
        /\ db'.instance = Attempted(f).instance
    BY <1>8 DEF Down, Fresh
  <2>2. /\ history'.latest = history.latest
        /\ history'.excused = Blamed(f).excused
    BY <1>3, <1>8 DEF HistoryType
  <2> QED
    BY <1>7, <1>8, <2>1, <2>2 DEF KeptInv, Saved
<1>9. CASE /\ ~Attempted(f).fault /\ Obtained(f)
           /\ db' = Attempted(f)
           /\ process' = [process EXCEPT !.phase = "serving"]
           /\ history' = [Blamed(f) EXCEPT
                !.latest = IF Blamed(f).excused THEN Attempted(f).instance
                           ELSE IF StartsEmpty THEN Empty ELSE @,
                !.excused = FALSE]
  <2>1. process'.phase = "serving" /\ process'.options = process.options
    BY <1>9 DEF TypeOK
  <2>2. history'.latest = IF Blamed(f).excused THEN Attempted(f).instance
                          ELSE IF StartsEmpty THEN Empty ELSE Blamed(f).latest
    BY <1>3, <1>9 DEF HistoryType
  <2>3. db'.instance # Gone /\ db'.instance = history'.latest
    BY <1>3, <1>7, <1>9, <2>2 DEF Obtained
  <2> QED
    BY <2>1, <2>3 DEF KeptInv, Saved
<1>10. CASE /\ ~Attempted(f).fault /\ ~Obtained(f)
            /\ db' = Attempted(f)
            /\ process' = [process EXCEPT !.phase = "refused"]
            /\ history' = Blamed(f)
  <2>1. process'.phase = "refused" /\ process'.options = process.options
    BY <1>10 DEF TypeOK
  <2> QED
    BY <1>3, <1>7, <1>10, <2>1 DEF KeptInv, Saved
<1> QED
  BY <1>1, <1>8, <1>9, <1>10

LEMMA KeptStep == TypeOK /\ TypeOK' /\ KeptInv /\ [Next]_vars => KeptInv'
<1> SUFFICES ASSUME TypeOK, TypeOK', KeptInv, [Next]_vars
             PROVE  KeptInv'
  OBVIOUS
<1>0. /\ db \in Databases /\ history \in HistoryType
      /\ files \in Files
  BY EmptyIsVersion DEF TypeOK, HistoryType, Files
(* A process that ends leaves the instance in memory as it is.             *)
<1>a. ASSUME Down(db.instance), UNCHANGED <<files>>,
             history'.latest = history.latest,
             ~history'.excused => ~history.excused
      PROVE  KeptInv'
  <2>1. /\ process'.phase = "down" /\ process'.options = {}
        /\ db' = Fresh(db.instance) /\ db'.instance = db.instance
    BY <1>a DEF Down, Fresh
  <2> QED
    BY <1>a, <2>1 DEF KeptInv, Saved, Readable, Promised, Whole
(* A step that leaves the instance alone: what is saved is the instance.   *)
<1>b. ASSUME NEW p \in {"saving", "binary", "halfway", "xml", "leaving"},
             Goto(p), UNCHANGED db,
             process.phase \notin {"down", "loaded"},
             history'.latest = history.latest,
             ~history'.excused =>
               /\ ~history.excused
               /\ p \in Saved /\ db.state = "CONNECTED" =>
                    files'.bin = db.instance
      PROVE  KeptInv'
  <2>1. process'.phase = p /\ process'.options = process.options
    BY <1>b DEF Goto, TypeOK
  <2> QED
    BY <1>b, <2>1 DEF KeptInv
<1>1. ASSUME NEW o \in Programs, LoadEnvironment(o) PROVE KeptInv'
  BY <1>1, KeptLoad
<1>2. CASE GetConnection
  BY <1>2, KeptConnection
<1>3. CASE Write
  <2>1. /\ process.phase = "serving" /\ UNCHANGED <<files, process>>
        /\ db'.instance = history.version + 1
        /\ history'.latest = history.version + 1
        /\ history'.version = history.version + 1
    BY <1>0, <1>3 DEF Write, Databases, HistoryType
  <2>2. db'.instance # Gone
    BY <1>0, <2>1 DEF HistoryType, Versions, Gone
  <2> QED
    BY <2>1, <2>2 DEF KeptInv, Saved
<1>4. CASE Stop
  <2>1. CASE db.state = "CONNECTED"
    <3>1. Goto("saving")
      BY <1>4, <2>1 DEF Stop
    <3> QED
      BY <1>4, <1>b, <3>1 DEF Stop, Saved
  <2>2. CASE db.state # "CONNECTED"
    <3>1. Goto("leaving")
      BY <1>4, <2>2 DEF Stop
    <3> QED
      BY <1>4, <1>b, <2>2, <3>1 DEF Stop
  <2> QED
    BY <2>1, <2>2
<1>5. CASE TruncateBin
  <2>1. CASE Goto("binary") /\ UNCHANGED <<db, history>>
    BY <1>5, <1>b, <2>1 DEF TruncateBin, Saved
  <2>2. CASE /\ history' = [OneMore EXCEPT !.excused = TRUE]
             /\ Goto("halfway") /\ UNCHANGED db
    <3>1. history'.excused /\ history'.latest = history.latest
      BY <1>0, <2>2 DEF OneMore, HistoryType
    <3> QED
      BY <1>5, <1>b, <2>2, <3>1 DEF TruncateBin
  <2> QED
    BY <1>5, <2>1, <2>2 DEF TruncateBin
<1>6. CASE SaveBin
  <2>1. CASE /\ files' = [files EXCEPT !.bin = db.instance]
             /\ UNCHANGED <<db, history>>
    <3>1. files'.bin = db.instance
      BY <1>0, <2>1 DEF Files
    <3> QED
      BY <1>6, <1>b, <2>1, <3>1 DEF SaveBin
  <2>2. CASE /\ history' = [OneMore EXCEPT !.excused = TRUE]
             /\ UNCHANGED db
    <3>1. history'.excused /\ history'.latest = history.latest
      BY <1>0, <2>2 DEF OneMore, HistoryType
    <3> QED
      BY <1>6, <1>b, <2>2, <3>1 DEF SaveBin
  <2> QED
    BY <1>6, <2>1, <2>2 DEF SaveBin
<1>7. CASE TruncateXml
  <2>1. /\ process.phase = "halfway" /\ UNCHANGED db
        /\ Goto("xml") \/ Goto("leaving")
        /\ files'.bin = files.bin
        /\ history'.latest = history.latest
        /\ history'.excused = history.excused
    BY <1>0, <1>7 DEF TruncateXml, OneMore, Files, HistoryType
  <2>2. ~history.excused /\ db.state = "CONNECTED" => files.bin = db.instance
    BY <2>1 DEF KeptInv, Saved
  <2> QED
    BY <1>b, <2>1, <2>2
<1>8. CASE SaveXml
  <2>1. /\ process.phase = "xml" /\ UNCHANGED db /\ Goto("leaving")
        /\ files'.bin = files.bin
        /\ history'.latest = history.latest
        /\ history'.excused = history.excused
    BY <1>0, <1>8 DEF SaveXml, OneMore, Files, HistoryType
  <2>2. ~history.excused /\ db.state = "CONNECTED" => files.bin = db.instance
    BY <2>1 DEF KeptInv, Saved
  <2> QED
    BY <1>b, <2>1, <2>2
<1>9. CASE Leave
  <2>1. CASE /\ db.state \in {"CONNECTED", "ATTACHED"}
             /\ Down(Gone)
             /\ history' = [history EXCEPT
                              !.excused = @ \/ db.state = "ATTACHED"]
             /\ UNCHANGED files
    <3>1. /\ process.phase = "leaving"
          /\ process'.phase = "down" /\ process'.options = {}
          /\ db' = Fresh(Gone) /\ db'.instance = Gone
      BY <1>9, <2>1 DEF Leave, Down, Fresh
    <3>2. /\ history'.latest = history.latest
          /\ history'.excused = (history.excused \/ db.state = "ATTACHED")
      BY <1>0, <2>1 DEF HistoryType
    <3>3. ASSUME ~history'.excused PROVE Promised' = history'.latest
      <4>1. files.bin = db.instance /\ db.instance # Gone
            /\ db.instance = history.latest
        BY <2>1, <3>1, <3>2, <3>3 DEF KeptInv, Saved
      <4>2. files'.bin = history.latest /\ files'.bin \in Versions
        BY <1>0, <2>1, <4>1 DEF Databases
      <4> QED
        BY <3>2, <4>2 DEF Promised, Whole
    <3> QED
      BY <3>1, <3>2, <3>3 DEF KeptInv, Saved
  <2>2. CASE history' = OneMore /\ Down(db.instance) /\ UNCHANGED files
    BY <1>0, <1>a, <2>2 DEF OneMore, HistoryType
  <2>3. CASE Down(db.instance) /\ UNCHANGED <<files, history>>
    BY <1>a, <2>3
  <2> QED
    BY <1>9, <2>1, <2>2, <2>3 DEF Leave
<1>10. CASE Crash
  BY <1>0, <1>a, <1>10 DEF Crash, OneMore, HistoryType
<1>11. CASE CrashInImport
  <2>1. /\ process'.phase = "down" /\ process'.options = {}
        /\ db' = Fresh(Empty) /\ db'.instance = Empty
    BY <1>11 DEF CrashInImport, Down, Fresh
  <2>2. history'.excused
    BY <1>0, <1>11 DEF CrashInImport, OneMore, HistoryType
  <2> QED
    BY <2>1, <2>2 DEF KeptInv
<1>12. CASE Reboot
  <2>1. /\ process'.phase = "down" /\ process'.options = {}
        /\ db' = Fresh(Gone) /\ db'.instance = Gone /\ UNCHANGED files
    BY <1>12 DEF Reboot, Down, Fresh
  <2>2. history'.latest = Promised
    BY <1>0, <1>12 DEF Reboot, OneMore, HistoryType
  <2> QED
    BY <2>1, <2>2 DEF KeptInv, Saved, Promised, Whole
<1>13. CASE UNCHANGED vars
  BY <1>13 DEF vars, KeptInv, Readable, Promised, Whole, Unconnected, Unopened
<1> QED
  BY <1>1, <1>2, <1>3, <1>4, <1>5, <1>6, <1>7, <1>8, <1>9, <1>10, <1>11,
     <1>12, <1>13 DEF Next

(* A process serves what the one before it left, however many processes,   *)
(* crashes and reboots there were, while nothing that history names        *)
(* excuses a loss.                                                         *)
THEOREM ContentKept == Spec => []Kept
<1>1. Init => TypeOK /\ KeptInv
  BY TypeInit, KeptInit
<1>2. TypeOK /\ KeptInv /\ [Next]_vars => (TypeOK /\ KeptInv)'
  BY TypeStep, KeptStep
<1>3. TypeOK /\ KeptInv => Kept
  BY DEF KeptInv, Kept
<1> QED
  BY <1>1, <1>2, <1>3, PTL DEF Spec

-----------------------------------------------------------------------------
(* The handlers of events.  A process that comes to serve has them: it     *)
(* connected, and then RegisterEvents() came after it, or its database was *)
(* connected by LoadSnapshot(), which the XML file alone can do.           *)

LEMMA ConnectWatches ==
  ASSUME NEW d \in Databases, NEW f, files \in Files,
         "OF_REGISTER_EVENT" \in process.options, ~Connect(d, f).fault
  PROVE  Connect(d, f).watched
<1> DEFINE ready == InitRuntime(d)
           asked == IF ready.state \in {"INITIALIZED", "ATTACHED"}
                    THEN ConnectToInstance(ready, f) ELSE ready
<1>1. asked \in Databases
  BY InitRuntimeType, ConnectToInstanceType
<1>2. Connect(d, f) = RegisterEvents(asked)
  BY DEF Connect
<1> HIDE DEF asked
<1> QED
  BY <1>1, <1>2 DEF RegisterEvents, Databases

HandlersInv ==
  /\ process.phase = "loaded" /\ db.state = "CONNECTED" => history.fromXML
  /\ HandlersRegistered

LEMMA HandlersStep ==
  ASSUME TypeOK, HandlersInv, [Next]_vars PROVE HandlersInv'
<1>1. /\ db \in Databases /\ files \in Files
      /\ process \in [phase : Phases, options : SUBSET Options]
      /\ history \in HistoryType
  BY DEF TypeOK, Files, HistoryType
<1>2. ASSUME NEW o \in Programs, LoadEnvironment(o) PROVE HandlersInv'
  <2>1. PICK f \in Troubles :
          history' = [Blamed(f) EXCEPT
             !.excused = @ \/ (db.instance = Gone /\ "OF_LOAD_SNAP" \in o /\ ~Readable),
             !.fromXML = db'.state = "CONNECTED"]
    BY <1>2 DEF LoadEnvironment
  <2>2. Blamed(f) \in HistoryType
    BY BlamedType
  <2>3. history'.fromXML = (db'.state = "CONNECTED")
    BY <2>1, <2>2 DEF HistoryType
  <2>4. process'.phase = "loaded"
    BY <1>2 DEF LoadEnvironment
  <2> QED
    BY <2>3, <2>4 DEF HandlersInv, HandlersRegistered
<1>3. ASSUME NEW f \in Troubles, process.phase = "loaded",
             ~Attempted(f).fault, Obtained(f), db' = Attempted(f),
             process' = [process EXCEPT !.phase = "serving"],
             history'.fromXML = history.fromXML
      PROVE  HandlersInv'
  <2>1. process'.phase = "serving" /\ process'.options = process.options
    BY <1>1, <1>3
  <2>2. CASE Unconnected(db)
    BY <1>1, <1>3, <2>1, <2>2, ConnectWatches DEF Attempted, HandlersInv, HandlersRegistered
  <2>3. CASE ~Unconnected(db)
    <3>1. db.state = "CONNECTED"
      BY <1>1, <1>3, <2>3 DEF Obtained, Unconnected, Databases, States
    <3> QED
      BY <1>3, <2>1, <3>1 DEF HandlersInv, HandlersRegistered
  <2> QED
    BY <2>2, <2>3
<1>4. CASE GetConnection
  <2>1. PICK f \in Troubles :
       \/ Down(Attempted(f).instance)
       \/ /\ ~Attempted(f).fault /\ Obtained(f)
          /\ db' = Attempted(f)
          /\ process' = [process EXCEPT !.phase = "serving"]
          /\ history' = [Blamed(f) EXCEPT
               !.latest = IF Blamed(f).excused THEN Attempted(f).instance
                          ELSE IF StartsEmpty THEN Empty ELSE @,
               !.excused = FALSE]
       \/ process' = [process EXCEPT !.phase = "refused"]
    BY <1>4 DEF GetConnection
  <2>2. CASE Down(Attempted(f).instance)
    BY <2>2 DEF Down, HandlersInv, HandlersRegistered
  <2>3. CASE process' = [process EXCEPT !.phase = "refused"]
    BY <1>1, <2>3 DEF HandlersInv, HandlersRegistered
  <2>4. CASE history' = [Blamed(f) EXCEPT
               !.latest = IF Blamed(f).excused THEN Attempted(f).instance
                          ELSE IF StartsEmpty THEN Empty ELSE @,
               !.excused = FALSE]
    <3>1. history'.fromXML = history.fromXML
      BY <1>1, <2>4 DEF Blamed, HistoryType
    <3> QED
      BY <1>3, <1>4, <2>1, <2>2, <2>3, <3>1 DEF GetConnection
  <2> QED
    BY <2>1, <2>2, <2>3, <2>4
<1>5. CASE Write
  <2>1. /\ process.phase = "serving" /\ UNCHANGED process
        /\ db'.watched = db.watched /\ history'.fromXML = history.fromXML
    BY <1>1, <1>5 DEF Write, Databases, HistoryType
  <2> QED
    BY <2>1 DEF HandlersInv, HandlersRegistered
<1>6. CASE Stop \/ TruncateBin \/ SaveBin \/ TruncateXml \/ SaveXml
  <2>1. process'.phase \in {"saving", "leaving", "binary", "halfway", "xml"}
    BY <1>1, <1>6 DEF Stop, TruncateBin, SaveBin, TruncateXml, SaveXml, Goto
  <2> QED
    BY <2>1 DEF HandlersInv, HandlersRegistered
<1>7. CASE Leave \/ Crash \/ CrashInImport \/ Reboot
  <2>1. process'.phase = "down"
    BY <1>7 DEF Leave, Crash, CrashInImport, Reboot, Down
  <2> QED
    BY <2>1 DEF HandlersInv, HandlersRegistered
<1>8. CASE UNCHANGED vars
  BY <1>8 DEF vars, HandlersInv, HandlersRegistered
<1> QED
  BY <1>2, <1>4, <1>5, <1>6, <1>7, <1>8 DEF Next

(* A process that serves and wants the events has its handlers, but for    *)
(* one whose database LoadSnapshot() has connected already, whatever       *)
(* failed (DatabaseRtapImpl::Connect(), RtEnvironment::getConnection()).   *)
THEOREM HandlersThere == Spec => []HandlersRegistered
<1>1. Init => TypeOK /\ HandlersInv
  <2>1. Init => HandlersInv
    BY DEF Init, HandlersInv, HandlersRegistered
  <2> QED
    BY <2>1, TypeInit
<1>2. TypeOK /\ HandlersInv /\ [Next]_vars => (TypeOK /\ HandlersInv)'
  BY TypeStep, HandlersStep
<1>3. HandlersInv => HandlersRegistered
  BY DEF HandlersInv
<1> QED
  BY <1>1, <1>2, <1>3, PTL DEF Spec

-----------------------------------------------------------------------------
(* The assertions.  While no call has failed, LoadSnapshot() leaves a      *)
(* database connected or disconnected, which is not connected again, or    *)
(* one without a handle.  The second LoadSnapshot(), in Open(), then finds *)
(* no handle either; and it does not restore the XML, which would give it  *)
(* one to lose: where there is no binary snapshot there is an instance.    *)

Sound(d, asked) ==
  /\ ~d.fault
  /\ \/ d.state \in {"CONNECTED", "DISCONNECTED"}
     \/ /\ d.state \in {"UNINITIALIZED", "INITIALIZED"} /\ d.handle = "null"
        /\ asked /\ ~d.loaded => files.bin # Gone \/ d.instance # Gone

LEMMA LoadSound ==
  ASSUME NEW i \in Versions \cup {Gone}, files \in Files
  PROVE  Sound(LoadSnapshot(Fresh(i), {}), TRUE)
<1> DEFINE Record(state, handle, loaded, error, instance) ==
             [state |-> state, handle |-> handle, loaded |-> loaded,
              error |-> error, watched |-> FALSE, fault |-> FALSE,
              instance |-> instance]
           ready == Record("INITIALIZED", "null", FALSE, "NONE", i)
           opened == Record("CONNECTED", "open", FALSE, "NONE", Empty)
           failed == Record("INITIALIZED", "null", FALSE, "SNAPSHOT_READ", i)
<1>0. InitRuntime(Fresh(i)) = ready
  BY DEF InitRuntime, TransitionToState, Transitions, Fresh
<1>1. CASE files.bin # Gone
  <2>1. LoadSnapshot(Fresh(i), {})
          \in {[ready EXCEPT !.error = "SNAPSHOT_READ"],
              [ready EXCEPT !.loaded = TRUE, !.instance = files.bin]}
    <3>1. Fresh(i).handle = "null" /\ Fresh(i).loaded = FALSE
      BY DEF Fresh
    <3> HIDE DEF ready
    <3> QED
      BY <1>0, <1>1, <3>1 DEF LoadSnapshot
  <2>2. Sound([ready EXCEPT !.error = "SNAPSHOT_READ"], TRUE)
    BY <1>1 DEF Sound
  <2>3. Sound([ready EXCEPT !.loaded = TRUE, !.instance = files.bin], TRUE)
    BY <1>1 DEF Sound
  <2> QED
    BY <2>1, <2>2, <2>3
<1>2. CASE files.bin = Gone
  <2>1. LoadSnapshot(Fresh(i), {}) = RestoreFromXML(ready, {})
    BY <1>0, <1>2 DEF LoadSnapshot, Fresh
  <2>2. CASE i # Gone
    <3>1. RestoreFromXML(ready, {}) = failed
      BY <2>2 DEF RestoreFromXML, OpenDev
    <3> QED
      BY <2>1, <2>2, <3>1 DEF Sound
  <2>3. CASE i = Gone
    <3>1. TransitionToState([TransitionToState([ready EXCEPT !.instance = Empty],
                               "ATTACHED") EXCEPT !.handle = "open"],
                            "CONNECTED") = opened
      BY DEF TransitionToState, Transitions
    <3>2. CASE files.xml = Gone
      <4>1. LoadFromXML(opened, {})
              = Record("CONNECTED", "open", FALSE, "XML_IMPORT", Empty)
        BY <3>2 DEF LoadFromXML
      <4>2. /\ RestoreFromXML(ready, {}).state = "DISCONNECTED"
            /\ ~RestoreFromXML(ready, {}).fault
        BY <2>3, <3>1, <4>1 DEF RestoreFromXML, OpenDev, TransitionToState, Transitions
      <4> QED
        BY <2>1, <4>2 DEF Sound
    <3>3. CASE files.xml # Gone
      <4>1. /\ LoadFromXML(opened, {}).state = "CONNECTED"
            /\ LoadFromXML(opened, {}).error = "NONE" /\ ~LoadFromXML(opened, {}).fault
        BY <3>3 DEF LoadFromXML, Clear
      <4>2. RestoreFromXML(ready, {}) = LoadFromXML(opened, {})
        BY <2>3, <3>1, <4>1 DEF RestoreFromXML, OpenDev
      <4> QED
        BY <2>1, <4>1, <4>2 DEF Sound
    <3> QED
      BY <3>2, <3>3
  <2> QED
    BY <2>2, <2>3
<1> QED
  BY <1>1, <1>2

LEMMA ConnectSound ==
  ASSUME NEW d \in Databases, files \in Files, Unconnected(d),
         Sound(d, "OF_LOAD_SNAP" \in process.options)
  PROVE  ~Connect(d, {}).fault
<1> DEFINE ready == InitRuntime(d)
           wanted == "OF_LOAD_SNAP" \in process.options /\ ~ready.loaded
           again == InitRuntime(ready)
           read == IF wanted THEN LoadSnapshot(ready, {}) ELSE Clear(ready)
           restored == IF wanted /\ read.error = "NONE"
                       THEN TransitionToState(read, "ATTACHED") ELSE read
           created == [restored EXCEPT !.instance =
                         IF OpenDev(restored, {}) = "ok" THEN Empty ELSE @]
           opened == Open(ready, {})
           connected == TransitionToState([opened EXCEPT !.handle = "open"],
                                          "CONNECTED")
           asked == ConnectToInstance(ready, {})
<1>1. /\ ready \in Databases /\ ready.state = "INITIALIZED" /\ ready.handle = "null"
      /\ ~ready.fault /\ ready.loaded = d.loaded /\ ready.instance = d.instance
  BY DEF InitRuntime, TransitionToState, Transitions, Clear, Unconnected, Sound,
     Databases, States, Errors
<1>2. /\ again \in Databases /\ again.state = "INITIALIZED" /\ again.handle = "null"
      /\ ~again.fault /\ again.loaded = ready.loaded /\ again.instance = ready.instance
      /\ again.error = "NONE"
  <2> HIDE DEF ready
  <2> QED
    BY <1>1 DEF InitRuntime, Clear, Databases, Errors
<1>3. ASSUME wanted
      PROVE  /\ LoadSnapshot(ready, {}) \in Databases
             /\ LoadSnapshot(ready, {}).state = "INITIALIZED"
             /\ ~LoadSnapshot(ready, {}).fault
             /\ LoadSnapshot(ready, {}).error = "NONE"
                  <=> LoadSnapshot(ready, {}).loaded
  <2> DEFINE failed == [again EXCEPT !.error = "SNAPSHOT_READ"]
             found == [again EXCEPT !.loaded = TRUE, !.instance = files.bin]
  <2>1. /\ failed.state = "INITIALIZED" /\ ~failed.fault /\ ~failed.loaded
        /\ failed.error = "SNAPSHOT_READ"
    BY <1>2, <1>3 DEF Databases
  <2>2. files.bin # Gone \/ ready.instance # Gone
    BY <1>1, <1>3 DEF Sound, Unconnected
  <2>3. files.bin = Gone => RestoreFromXML(again, {}) = failed
    BY <1>2, <2>2 DEF RestoreFromXML, OpenDev
  <2>4. /\ found.state = "INITIALIZED" /\ ~found.fault /\ found.loaded
        /\ found.error = "NONE"
    BY <1>2 DEF Databases
  <2>5. LoadSnapshot(ready, {}) \in {failed, found}
    <3> HIDE DEF ready
    <3> QED
      BY <1>1, <1>3, <2>3 DEF LoadSnapshot
  <2>6. LoadSnapshot(ready, {}) \in Databases
    BY <1>1, LoadSnapshotType
  <2> QED
    BY <2>1, <2>4, <2>5, <2>6
<1>4. /\ read \in Databases /\ read.state = "INITIALIZED" /\ ~read.fault
      /\ read.loaded => read.error = "NONE"
      /\ wanted /\ read.error = "NONE" => read.loaded
  <2> HIDE DEF ready
  <2>1. CASE wanted
    BY <1>3, <2>1
  <2>2. CASE ~wanted
    BY <1>1, <2>2 DEF Clear, Databases, Errors
  <2> QED
    BY <2>1, <2>2
<1>5. /\ restored \in Databases /\ ~restored.fault
      /\ restored.state \in {"INITIALIZED", "ATTACHED"}
      /\ restored.loaded => restored.error = "NONE"
      /\ ~restored.loaded => restored.state = "INITIALIZED"
  <2> HIDE DEF wanted, read
  <2>1. CASE wanted /\ read.error = "NONE"
    BY <1>4, <2>1 DEF TransitionToState, Transitions, Databases, States, Errors
  <2>2. CASE ~(wanted /\ read.error = "NONE")
    BY <1>4, <2>2
  <2> QED
    BY <2>1, <2>2
<1>6. created \in Databases /\ created.state = restored.state /\ ~created.fault
  <2> HIDE DEF restored
  <2> QED
    BY <1>5, EmptyIsVersion DEF Databases
<1>7. opened = IF restored.loaded THEN restored
               ELSE TransitionToState(created, "ATTACHED")
  <2>1. OpenDev(restored, {}) # "fatal"
    BY DEF OpenDev
  <2> HIDE DEF ready
  <2> QED
    BY <1>4, <2>1 DEF Open
<1>8. /\ opened \in Databases /\ opened.state \in {"INITIALIZED", "ATTACHED"}
      /\ opened.error = "NONE" /\ ~opened.fault
  <2> HIDE DEF restored, created, opened
  <2>1. CASE restored.loaded
    BY <1>5, <1>7, <2>1
  <2>2. CASE ~restored.loaded
    BY <1>5, <1>6, <1>7, <2>2
    DEF TransitionToState, Transitions, Databases, States, Errors
  <2> QED
    BY <2>1, <2>2
<1>9. connected \in Databases /\ connected.handle = "open" /\ ~connected.fault
  <2> HIDE DEF opened
  <2> QED
    BY <1>8 DEF TransitionToState, Transitions, Databases, Handles, States, Errors
<1>10. asked \in {connected, [connected EXCEPT !.instance = Empty]}
  <2> HIDE DEF ready
  <2> QED
    BY <1>8 DEF ConnectToInstance
<1>11. asked \in Databases /\ asked.handle = "open" /\ ~asked.fault
  <2> HIDE DEF connected, asked
  <2> QED
    BY <1>9, <1>10, EmptyIsVersion DEF Databases
<1>12. Connect(d, {}) = RegisterEvents(asked)
  BY <1>1 DEF Connect
<1>13. ~RegisterEvents(asked).fault
  <2> HIDE DEF asked
  <2> QED
    BY <1>11 DEF RegisterEvents, Databases
<1> QED
  BY <1>12, <1>13

AbortsInv ==
  ~history.failed =>
    /\ ~history.aborted
    /\ process.phase = "down" => db = Fresh(db.instance)
    /\ process.phase = "loaded" =>
         Sound(db, "OF_LOAD_SNAP" \in process.options)

LEMMA AbortsStep ==
  ASSUME TypeOK, AbortsInv, [Next]_vars PROVE AbortsInv'
<1>1. /\ db \in Databases /\ files \in Files
      /\ process \in [phase : Phases, options : SUBSET Options]
      /\ history \in HistoryType
  BY DEF TypeOK, Files, HistoryType
<1>2. ASSUME NEW f \in Troubles
      PROVE  /\ Blamed(f) \in HistoryType
             /\ Blamed(f).aborted = history.aborted
             /\ ~Blamed(f).failed => ~history.failed /\ f = {}
  BY <1>1, BlamedType DEF Blamed, HistoryType
<1>3. ASSUME NEW o \in Programs, LoadEnvironment(o) PROVE AbortsInv'
  <2>1. PICK f \in Troubles :
          /\ db' = IF "OF_LOAD_SNAP" \in o THEN LoadSnapshot(db, f) ELSE db
          /\ history' = [Blamed(f) EXCEPT
             !.excused = @ \/ (db.instance = Gone /\ "OF_LOAD_SNAP" \in o /\ ~Readable),
             !.fromXML = db'.state = "CONNECTED"]
    BY <1>3 DEF LoadEnvironment
  <2>2. /\ history'.failed = Blamed(f).failed
        /\ history'.aborted = Blamed(f).aborted
    BY <1>2, <2>1 DEF HistoryType
  <2>3. /\ process.phase = "down" /\ process'.phase = "loaded"
        /\ process'.options = Flags(o) /\ files' = files
    BY <1>3 DEF LoadEnvironment
  <2>4. ASSUME ~history'.failed
        PROVE  Sound(db', "OF_LOAD_SNAP" \in Flags(o))
    <3>1. ~history.failed /\ f = {} /\ db = Fresh(db.instance)
      BY <1>2, <2>2, <2>3, <2>4 DEF AbortsInv
    <3>2. db.instance \in Versions \cup {Gone}
      BY <1>1 DEF Databases
    <3>3. CASE "OF_LOAD_SNAP" \in o
      <4>1. Sound(db', TRUE)
        BY <1>1, <2>1, <3>1, <3>2, <3>3, LoadSound
      <4> QED
        BY <4>1 DEF Sound
    <3>4. CASE "OF_LOAD_SNAP" \notin o
      <4>1. "OF_LOAD_SNAP" \notin Flags(o)
        BY <3>4 DEF Flags
      <4>2. /\ db.state = "UNINITIALIZED" /\ db.handle = "null" /\ ~db.fault
        BY <3>1 DEF Fresh
      <4> QED
        BY <2>1, <3>4, <4>1, <4>2 DEF Sound
    <3> QED
      BY <3>3, <3>4
  <2>5. ~history'.failed => ~history'.aborted
    BY <1>2, <2>2 DEF AbortsInv
  <2>6. ~history'.failed => Sound(db, "OF_LOAD_SNAP" \in process.options)'
    BY <2>3, <2>4 DEF Sound
  <2> QED
    BY <2>3, <2>5, <2>6 DEF AbortsInv
<1>4. CASE GetConnection
  <2>1. PICK f \in Troubles :
       \/ /\ Attempted(f).fault
          /\ Down(Attempted(f).instance)
          /\ history' = [Blamed(f) EXCEPT !.aborted = TRUE]
       \/ /\ process' = [process EXCEPT !.phase = "serving"]
          /\ history' = [Blamed(f) EXCEPT
               !.latest = IF Blamed(f).excused THEN Attempted(f).instance
                          ELSE IF StartsEmpty THEN Empty ELSE @,
               !.excused = FALSE]
       \/ /\ process' = [process EXCEPT !.phase = "refused"]
          /\ history' = Blamed(f)
    BY <1>4 DEF GetConnection
  <2>2. CASE Attempted(f).fault /\ history' = [Blamed(f) EXCEPT !.aborted = TRUE]
    <3>1. history'.failed = Blamed(f).failed
      BY <1>2, <2>2 DEF HistoryType
    <3>2. SUFFICES ASSUME ~history'.failed PROVE FALSE
      BY DEF AbortsInv
    <3>3. ~history.failed /\ f = {}
      BY <1>2, <3>1, <3>2
    <3>4. Sound(db, "OF_LOAD_SNAP" \in process.options)
      BY <1>4, <3>3 DEF AbortsInv, GetConnection
    <3>5. CASE Unconnected(db)
      BY <1>1, <2>2, <3>3, <3>4, <3>5, ConnectSound DEF Attempted
    <3>6. CASE ~Unconnected(db)
      BY <2>2, <3>4, <3>6 DEF Attempted, Sound
    <3> QED
      BY <3>5, <3>6
  <2>3. ASSUME process'.phase \in {"serving", "refused"},
               history'.failed = Blamed(f).failed,
               history'.aborted = history.aborted
        PROVE  AbortsInv'
    BY <1>2, <2>3 DEF AbortsInv
  <2>4. CASE /\ process' = [process EXCEPT !.phase = "serving"]
             /\ history' = [Blamed(f) EXCEPT
               !.latest = IF Blamed(f).excused THEN Attempted(f).instance
                          ELSE IF StartsEmpty THEN Empty ELSE @,
               !.excused = FALSE]
    <3>1. process'.phase = "serving"
      BY <1>1, <2>4
    <3>2. /\ history'.failed = Blamed(f).failed
          /\ history'.aborted = history.aborted
      BY <1>2, <2>4 DEF HistoryType
    <3> QED
      BY <2>3, <3>1, <3>2
  <2>5. CASE /\ process' = [process EXCEPT !.phase = "refused"]
             /\ history' = Blamed(f)
    <3>1. process'.phase = "refused"
      BY <1>1, <2>5
    <3> QED
      BY <1>2, <2>3, <2>5, <3>1
  <2> QED
    BY <2>1, <2>2, <2>4, <2>5
<1>5. ASSUME process'.phase \notin {"down", "loaded"},
             history'.failed = history.failed, history'.aborted = history.aborted
      PROVE  AbortsInv'
  BY <1>5 DEF AbortsInv
<1>6. ASSUME NEW i, Down(i),
             history'.failed = history.failed, history'.aborted = history.aborted
      PROVE  AbortsInv'
  <2>1. /\ db' = Fresh(i) /\ db'.instance = i /\ process'.phase = "down"
    BY <1>6 DEF Down, Fresh
  <2> QED
    BY <1>6, <2>1 DEF AbortsInv
<1>7. CASE Write \/ Stop \/ TruncateBin \/ SaveBin \/ TruncateXml \/ SaveXml
  <2>1. /\ history'.failed = history.failed
        /\ history'.aborted = history.aborted
    BY <1>1, <1>7 DEF Write, Stop, TruncateBin, SaveBin, TruncateXml, SaveXml,
       OneMore, HistoryType
  <2>2. process'.phase \notin {"down", "loaded"}
    BY <1>1, <1>7 DEF Write, Stop, TruncateBin, SaveBin, TruncateXml, SaveXml, Goto
  <2> QED
    BY <1>5, <2>1, <2>2
<1>8. CASE Leave \/ Crash \/ CrashInImport \/ Reboot
  <2>1. /\ history'.failed = history.failed
        /\ history'.aborted = history.aborted
    BY <1>1, <1>8 DEF Leave, Crash, CrashInImport, Reboot, OneMore, HistoryType
  <2>2. Down(Gone) \/ Down(db.instance) \/ Down(Empty)
    BY <1>8 DEF Leave, Crash, CrashInImport, Reboot
  <2> QED
    BY <1>6, <2>1, <2>2
<1>9. CASE UNCHANGED vars
  BY <1>9 DEF vars, AbortsInv, Sound
<1> QED
  BY <1>3, <1>4, <1>7, <1>8, <1>9 DEF Next

(* The assertions of the handle, in LoadSnapshot() and getDbHandler(), can *)
(* fail only where a call of the library has failed.                       *)
THEOREM AbortsNamed == Spec => []AbortsOnFailureOnly
<1>1. Init => TypeOK /\ AbortsInv
  <2>1. Init => AbortsInv
    BY DEF Init, AbortsInv, Fresh
  <2> QED
    BY <2>1, TypeInit
<1>2. TypeOK /\ AbortsInv /\ [Next]_vars => (TypeOK /\ AbortsInv)'
  BY TypeStep, AbortsStep
<1>3. AbortsInv => AbortsOnFailureOnly
  BY DEF AbortsInv, AbortsOnFailureOnly
<1> QED
  BY <1>1, <1>2, <1>3, PTL DEF Spec

=============================================================================
