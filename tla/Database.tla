------------------------------- MODULE Database -------------------------------
(* The life of the database SINF: the instance that the processes of the   *)
(* machine share, its two snapshots on disk, and what DatabaseImpl does to *)
(* them from loadEnvironment() to the destructor.  The content is a        *)
(* version; the processes, a Digger or the snapshot tool, follow each      *)
(* other, and each can crash, as can the machine.  As built: eXtremeDB 5   *)
(* without its HTTP server and without disk storage.                       *)
EXTENDS Integers, FiniteSets

CONSTANTS
  Programs,     \* the options that a process may set in its RtApplication
  MaxVersion,   \* bound on the writes
  MaxMishaps    \* bound on crashes, reboots and failed calls

Options == {"OF_CREATE", "OF_TRUNCATE", "OF_LOAD_SNAP", "OF_SAVE_SNAP",
            "OF_REGISTER_EVENT"}

ASSUME DatabaseAssumption ==
  /\ Programs \subseteq SUBSET Options
  /\ MaxVersion \in Nat \ {0}
  /\ MaxMishaps \in Nat

(* A program cannot both truncate and load: the constructor drops the      *)
(* second, though loadEnvironment() still asks for the snapshot.           *)
Flags(options) ==
  IF "OF_TRUNCATE" \in options THEN options \ {"OF_LOAD_SNAP"} ELSE options

VARIABLES
  db,        \* the DatabaseImpl of the process, and the instance in memory
  files,     \* SINF.snap.bin and SINF.snap.xml
  process,   \* the process that uses the database
  history    \* what became of the content: not part of the program
vars == <<db, files, process, history>>

Gone == -1      \* no instance in memory, or no file
Torn == -2      \* a file that was not written to its end
Empty == 0
Versions == 0..MaxVersion

States == {"UNINITIALIZED", "INITIALIZED", "ATTACHED", "CONNECTED",
           "DISCONNECTED", "CLOSED"}
Errors == {"NONE", "SNAPSHOT_READ", "XML_IMPORT", "RUNTIME_FATAL",
           "INCORRECT_DB_STATE"}
Handles == {"null", "open", "stale"}
Failures == {"open", "connect", "load", "import", "clean"}

Phases == {"down", "loaded", "serving", "refused", "saving", "binary",
           "halfway", "xml", "leaving"}

Databases ==
  [state : States, handle : Handles, loaded : BOOLEAN, error : Errors,
   watched : BOOLEAN, fault : BOOLEAN, instance : Versions \cup {Gone}]

TypeOK ==
  /\ db \in Databases
  /\ files \in [bin : Versions \cup {Gone, Torn},
                xml : Versions \cup {Gone, Torn}]
  /\ process \in [phase : Phases, options : SUBSET Options]
  /\ history \in [version : Versions, latest : Versions, excused : BOOLEAN,
                  fromXML : BOOLEAN, failed : BOOLEAN,
                  aborted : BOOLEAN, mishaps : 0..MaxMishaps]

Fresh(instance) ==
  [state |-> "UNINITIALIZED", handle |-> "null", loaded |-> FALSE,
   error |-> "NONE", watched |-> FALSE, fault |-> FALSE,
   instance |-> instance]

Init ==
  /\ db = Fresh(Gone)
  /\ files \in {[bin |-> Gone, xml |-> Gone], [bin |-> Gone, xml |-> 1]}
  /\ process = [phase |-> "down", options |-> {}]
  /\ history =
       LET first == IF files.xml = Gone THEN Empty ELSE files.xml
       IN [version |-> first, latest |-> first, excused |-> FALSE,
           fromXML |-> FALSE, failed |-> FALSE,
           aborted |-> FALSE, mishaps |-> 0]

-----------------------------------------------------------------------------
(* DatabaseImpl.  Each operator takes the database as it is, d, and the    *)
(* calls of the library that fail, f, and returns it as it becomes.        *)

Clear(d) == [d EXCEPT !.error = "NONE"]

Transitions ==
  {<<"UNINITIALIZED", "INITIALIZED">>, <<"UNINITIALIZED", "DISCONNECTED">>,
   <<"UNINITIALIZED", "CLOSED">>, <<"INITIALIZED", "ATTACHED">>,
   <<"INITIALIZED", "CONNECTED">>, <<"INITIALIZED", "DISCONNECTED">>,
   <<"ATTACHED", "CONNECTED">>, <<"ATTACHED", "DISCONNECTED">>,
   <<"CONNECTED", "DISCONNECTED">>, <<"DISCONNECTED", "CONNECTED">>,
   <<"DISCONNECTED", "CLOSED">>, <<"DISCONNECTED", "INITIALIZED">>}

TransitionToState(d, state) ==
  IF <<d.state, state>> \in Transitions
  THEN [d EXCEPT !.state = state, !.error = "NONE"]
  ELSE [d EXCEPT !.error = "INCORRECT_DB_STATE"]

InitRuntime(d) ==
  IF d.state = "UNINITIALIZED" THEN TransitionToState(d, "INITIALIZED")
                               ELSE Clear(d)

(* What mco_db_open_dev() answers.                                         *)
OpenDev(d, f) ==
  IF "open" \in f THEN "fatal"
  ELSE IF d.instance = Gone THEN "ok" ELSE "duplicate"

(* A file that cannot be imported is rolled back, and that goes well.      *)
LoadFromXML(d, f) ==
  IF d.loaded THEN Clear(d)
  ELSE IF files.xml = Gone THEN [d EXCEPT !.error = "XML_IMPORT"]
  ELSE [Clear(d) EXCEPT
          !.loaded = TRUE,
          !.instance = IF files.xml = Torn \/ "import" \in f THEN @
                                                             ELSE files.xml]

(* The branch of LoadSnapshot() without a binary snapshot.                 *)
RestoreFromXML(d, f) ==
  LET attached  == TransitionToState([d EXCEPT !.instance = Empty],
                                     "ATTACHED")
      connected == TransitionToState([attached EXCEPT !.handle = "open"],
                                     "CONNECTED")
      imported  == LoadFromXML(connected, f)
      released  == TransitionToState([imported EXCEPT !.handle = "stale",
                                                      !.loaded = FALSE],
                                     "DISCONNECTED")
  IN IF OpenDev(d, f) # "ok" THEN [d EXCEPT !.error = "SNAPSHOT_READ"]
     ELSE IF "connect" \in f
          THEN [attached EXCEPT !.error = "SNAPSHOT_READ"]
     ELSE IF imported.error = "NONE" THEN imported
     ELSE [released EXCEPT !.error = imported.error]

LoadSnapshot(d, f) ==
  LET ready == InitRuntime(d)
      failed == [ready EXCEPT !.error = "SNAPSHOT_READ"]
  IN IF d.handle # "null" THEN [d EXCEPT !.fault = TRUE]
     ELSE IF d.loaded THEN failed
     ELSE IF files.bin = Gone THEN RestoreFromXML(ready, f)
     ELSE IF files.bin = Torn \/ "load" \in f \/ d.instance # Gone
          THEN failed
     ELSE [ready EXCEPT !.loaded = TRUE, !.instance = files.bin]

(* A snapshot read by loadEnvironment() is not read again; an instance     *)
(* that exists is taken as it is.                                          *)
Open(d, f) ==
  LET wanted == "OF_LOAD_SNAP" \in process.options /\ ~d.loaded
      read == IF wanted THEN LoadSnapshot(d, f) ELSE Clear(d)
      restored == IF wanted /\ read.error = "NONE"
                  THEN TransitionToState(read, "ATTACHED") ELSE read
      opened == TransitionToState(
                  [restored EXCEPT !.instance =
                     IF OpenDev(restored, f) = "ok" THEN Empty ELSE @],
                  "ATTACHED")
  IN IF read.fault THEN read
     ELSE IF restored.loaded THEN restored
     ELSE IF OpenDev(restored, f) = "fatal"
          THEN [opened EXCEPT !.error = "RUNTIME_FATAL"]
     ELSE opened

(* The attempt to read XML after a binary snapshot is left out: it asks    *)
(* for the error that the success of Open() has just cleared.  So is the   *)
(* second Open(): after the first there is an instance.                    *)
ConnectToInstance(d, f) ==
  LET opened == Open(d, f)
      connected == TransitionToState([opened EXCEPT !.handle = "open"],
                                     "CONNECTED")
  IN IF opened.fault \/ opened.error # "NONE" THEN opened
     ELSE IF "connect" \in f THEN TransitionToState(opened, "DISCONNECTED")
     ELSE IF "OF_TRUNCATE" \in process.options /\ "clean" \notin f
          THEN [connected EXCEPT !.instance = Empty]
     ELSE connected

(* DatabaseRtapImpl::Connect() registers the handlers of events whether or *)
(* not the connection succeeded; getDbHandler() asserts the handle.  The   *)
(* mutant: a database that was loaded gets none.                           *)
RegisterEventsOfNew(d) ==
  IF d.loaded \/ "OF_REGISTER_EVENT" \notin process.options THEN d
  ELSE [d EXCEPT !.watched = TRUE]
RegisterEvents(d) ==
  IF d.fault \/ "OF_REGISTER_EVENT" \notin process.options THEN d
  ELSE IF d.handle = "open" THEN [d EXCEPT !.watched = TRUE]
  ELSE [d EXCEPT !.fault = TRUE]

Connect(d, f) ==
  LET ready == InitRuntime(d)
  IN RegisterEvents(IF ready.state \in {"INITIALIZED", "ATTACHED"}
                    THEN ConnectToInstance(ready, f) ELSE ready)

-----------------------------------------------------------------------------
(* The process.                                                            *)

Troubles == {f \in SUBSET Failures :
               history.mishaps + Cardinality(f) <= MaxMishaps}
Blamed(f) == [history EXCEPT !.mishaps = @ + Cardinality(f),
                             !.failed = @ \/ f # {},
                             !.excused = @ \/ f # {}]

Mishap == history.mishaps < MaxMishaps
OneMore == [history EXCEPT !.mishaps = @ + 1]

Down(instance) ==
  /\ db' = Fresh(instance)
  /\ process' = [phase |-> "down", options |-> {}]

Whole(file) == file \in Versions

(* The content that the files promise to whoever finds no instance.        *)
Promised == IF Whole(files.bin) THEN files.bin
            ELSE IF Whole(files.xml) THEN files.xml ELSE Empty

(* The binary snapshot is the one that is read when there is one.          *)
Readable == IF files.bin = Gone THEN files.xml # Torn ELSE files.bin # Torn

LoadEnvironment(options) ==
  /\ process.phase = "down"
  /\ LET asked == "OF_LOAD_SNAP" \in options
     IN \E f \in Troubles :
          /\ db' = IF asked THEN LoadSnapshot(db, f) ELSE db
          /\ process' = [phase |-> "loaded", options |-> Flags(options)]
          /\ history' =
               [Blamed(f) EXCEPT
                  !.excused = @ \/ (db.instance = Gone /\ asked /\ ~Readable),
                  !.fromXML = db'.state = "CONNECTED"]
  /\ UNCHANGED files

(* The states in which getConnection() connects; the mutant misses the     *)
(* case of a database that was left.                                       *)
UnconnectedOrLeft(d) == d.state # "CONNECTED"
Unconnected(d) == d.state \in {"UNINITIALIZED", "INITIALIZED", "ATTACHED"}

(* The first getConnection() of the process.  A failed assertion ends it.  *)
(* What is lost for a reason that history knows is settled when the        *)
(* process begins to serve.  A database that LoadSnapshot() connected, for *)
(* it restored it from XML, is not truncated.                              *)
Attempted(f) == IF Unconnected(db) THEN Connect(db, f) ELSE db

Obtained(f) ==
  /\ db.state \notin {"DISCONNECTED", "CLOSED"}
  /\ Attempted(f).instance # Gone
  /\ "connect" \notin f

StartsEmpty ==
  /\ Unconnected(db)
  /\ \/ "OF_TRUNCATE" \in process.options
     \/ "OF_LOAD_SNAP" \notin process.options /\ db.instance = Gone

GetConnection ==
  /\ process.phase = "loaded"
  /\ \E f \in Troubles :
       \/ /\ Attempted(f).fault
          /\ Down(Attempted(f).instance)
          /\ history' = [Blamed(f) EXCEPT !.aborted = TRUE]
       \/ /\ ~Attempted(f).fault /\ Obtained(f)
          /\ db' = Attempted(f)
          /\ process' = [process EXCEPT !.phase = "serving"]
          /\ history' = [Blamed(f) EXCEPT
               !.latest = IF Blamed(f).excused THEN Attempted(f).instance
                          ELSE IF StartsEmpty THEN Empty ELSE @,
               !.excused = FALSE]
       \/ /\ ~Attempted(f).fault /\ ~Obtained(f)
          /\ db' = Attempted(f)
          /\ process' = [process EXCEPT !.phase = "refused"]
          /\ history' = Blamed(f)
  /\ UNCHANGED files

(* A request of a client changes a point.                                  *)
Write ==
  /\ process.phase = "serving"
  /\ history.version < MaxVersion
  /\ db' = [db EXCEPT !.instance = history.version + 1]
  /\ history' = [history EXCEPT !.version = @ + 1,
                             !.latest = history.version + 1]
  /\ UNCHANGED <<files, process>>

(* The destructor of the process' RtApplication: a database that is        *)
(* connected is saved, and Disconnect() closes the instance.  The mutant   *)
(* of Stop saves nothing.                                                  *)
Goto(phase) == process' = [process EXCEPT !.phase = phase]

StopUnsaved ==
  /\ process.phase \in {"serving", "refused"}
  /\ Goto("leaving")
  /\ UNCHANGED <<db, files, history>>
Stop ==
  /\ process.phase \in {"serving", "refused"}
  /\ Goto(IF db.state = "CONNECTED" THEN "saving" ELSE "leaving")
  /\ UNCHANGED <<db, files, history>>

(* fopen(..., "wb") leaves an empty file until mco_db_save() has written   *)
(* it; StoreSnapshot() goes on to the XML whatever became of the binary.   *)
(* The mutant opens both files first.                                      *)
TruncateBoth ==
  /\ process.phase = "saving"
  /\ files' = [bin |-> Torn, xml |-> Torn]
  /\ Goto("binary")
  /\ UNCHANGED <<db, history>>
TruncateBin ==
  /\ process.phase = "saving"
  /\ \/ /\ files' = [files EXCEPT !.bin = Torn]
        /\ Goto("binary")
        /\ UNCHANGED <<db, history>>
     \/ /\ Mishap
        /\ history' = [OneMore EXCEPT !.excused = TRUE]
        /\ Goto("halfway")
        /\ UNCHANGED <<db, files>>

SaveBin ==
  /\ process.phase = "binary"
  /\ Goto("halfway")
  /\ \/ /\ files' = [files EXCEPT !.bin = db.instance]
        /\ UNCHANGED <<db, history>>
     \/ /\ Mishap
        /\ history' = [OneMore EXCEPT !.excused = TRUE]
        /\ UNCHANGED <<db, files>>

TruncateXml ==
  /\ process.phase = "halfway"
  /\ \/ /\ "OF_SAVE_SNAP" \in process.options
        /\ files' = [files EXCEPT !.xml = Torn]
        /\ Goto("xml")
        /\ UNCHANGED <<db, history>>
     \/ /\ "OF_SAVE_SNAP" \notin process.options
        /\ Goto("leaving")
        /\ UNCHANGED <<db, files, history>>
     \/ /\ "OF_SAVE_SNAP" \in process.options
        /\ Mishap
        /\ history' = OneMore
        /\ Goto("leaving")
        /\ UNCHANGED <<db, files>>

SaveXml ==
  /\ process.phase = "xml"
  /\ Goto("leaving")
  /\ \/ /\ files' = [files EXCEPT !.xml = db.instance]
        /\ UNCHANGED <<db, history>>
     \/ /\ Mishap
        /\ history' = OneMore
        /\ UNCHANGED <<db, files>>

(* Disconnect() is called in two states only: an instance that was opened  *)
(* and left again stays in memory.  One that was not connected is closed   *)
(* without a snapshot.                                                     *)
Leave ==
  /\ process.phase = "leaving"
  /\ \/ /\ db.state \in {"CONNECTED", "ATTACHED"}
        /\ Down(Gone)
        /\ history' = [history EXCEPT
                         !.excused = @ \/ db.state = "ATTACHED"]
        /\ UNCHANGED files
     \/ /\ db.state \in {"CONNECTED", "ATTACHED"}
        /\ Mishap
        /\ history' = OneMore
        /\ Down(db.instance)
        /\ UNCHANGED files
     \/ /\ db.state \notin {"CONNECTED", "ATTACHED"}
        /\ Down(db.instance)
        /\ UNCHANGED <<files, history>>

-----------------------------------------------------------------------------
(* What the processes and the machine suffer.                              *)

(* The instance is in shared memory and outlives the process.              *)
Crash ==
  /\ process.phase # "down"
  /\ Mishap
  /\ Down(db.instance)
  /\ history' = OneMore
  /\ UNCHANGED files

(* A crash between mco_db_open_dev() and the end of the import of the XML  *)
(* leaves an empty instance.                                               *)
CrashInImport ==
  /\ process.phase = "down"
  /\ Mishap
  /\ db.instance = Gone /\ files.bin = Gone
  /\ \E options \in Programs : "OF_LOAD_SNAP" \in options
  /\ Down(Empty)
  /\ history' = [OneMore EXCEPT !.excused = TRUE]
  /\ UNCHANGED files

Reboot ==
  /\ Mishap
  /\ Down(Gone)
  /\ history' = [OneMore EXCEPT !.latest = Promised]
  /\ UNCHANGED files

Next ==
  \/ \E options \in Programs : LoadEnvironment(options)
  \/ GetConnection
  \/ Write
  \/ Stop
  \/ TruncateBin
  \/ SaveBin
  \/ TruncateXml
  \/ SaveXml
  \/ Leave
  \/ Crash
  \/ CrashInImport
  \/ Reboot

Spec == Init /\ [][Next]_vars

-----------------------------------------------------------------------------
(* A process serves what the one before it left, however that one ended:   *)
(* the instance in memory when there is one, else the snapshot, unless a   *)
(* call failed or the snapshot that would be read was not written to its   *)
(* end (StoreSnapshot, LoadSnapshot, Open).                                *)
Kept ==
  process.phase = "serving" /\ ~history.excused =>
    db.instance = history.latest

(* One crash or one failure while the snapshots are written leaves one of  *)
(* them whole (StoreSnapshot).                                             *)
OneSnapshotWhole ==
  process.phase \notin {"binary", "xml"} /\ files.bin = Torn /\ files.xml = Torn =>
    history.mishaps >= 2

(* A process that serves and wants the events of the database has its      *)
(* handlers registered, but for one that restored the content from XML     *)
(* (DatabaseRtapImpl::Connect, getConnection).                             *)
HandlersRegistered ==
  process.phase = "serving" /\ "OF_REGISTER_EVENT" \in process.options =>
    db.watched \/ history.fromXML

(* The assertions of the handle, in LoadSnapshot() and getDbHandler(), can *)
(* fail only where a call of the library has failed.                       *)
AbortsOnFailureOnly == history.aborted => history.failed

===============================================================================
