------------------------------- MODULE Broker -------------------------------
(***************************************************************************)
(* The Majordomo broker of rtdbus: src/mdp/mdp_broker.cpp together with    *)
(* the tables it keeps in its eXtremeDB database,                          *)
(* src/xdb/impl/xdb_impl_db_broker.cpp.                                    *)
(*                                                                         *)
(* The broker is one thread.  Each turn of start_brokering() takes at most *)
(* one message from the ROUTER socket, runs its handler to the end, and    *)
(* then purges workers; one turn is one step.  The handlers are operators  *)
(* from a broker record b to the SET of records they may leave: the one    *)
(* choice left open is which entry a non-unique index yields first.        *)
(*                                                                         *)
(* The peers are open here: any worker identity may send any command and   *)
(* any client any request at any turn, which is what a socket open to      *)
(* other processes (started, killed and restarted at will) can deliver.    *)
(***************************************************************************)
EXTENDS Integers, Sequences, FiniteSets

CONSTANTS
  Services,             \* names of the services
  Workers,              \* identities of the worker processes
  Reserved,             \* the identities that contain "mmi."
  Clients,              \* identities of the clients
  Endpoints,            \* connection strings a worker may register
  Bodies,               \* what a client or a worker puts in header and data
  HeartbeatPeriodMsec,  \* HEARTBEAT_PERIOD_MSEC
  ExpirationPeriodMsec, \* MESSAGE_EXPIRATION_PERIOD_MSEC
  MaxAutoid,            \* bound: clients stop when the database made this many ids
  MaxTime               \* bound: the clock stops here

CONSTANTS NoService, NoEndpoint

ASSUME BrokerAssumption ==
  /\ HeartbeatPeriodMsec \in Nat
  /\ ExpirationPeriodMsec \in Nat
  /\ MaxAutoid \in Nat
  /\ MaxTime \in Nat
  /\ Reserved \subseteq Workers
  /\ NoService \notin Services
  /\ NoEndpoint \notin Endpoints

VARIABLES
  broker,   \* the tables, the messages sent by the last turn, a failed assertion
  now       \* the clock, in seconds since the broker was started

vars == <<broker, now>>

-----------------------------------------------------------------------------
(* The tables.  A service is its endpoint, NoEndpoint before AddService;   *)
(* a worker has id 0 before PushWorker creates its row; the letters are a  *)
(* function from the ids of the rows that exist.                           *)

WorkerStates == {"INIT", "ARMED", "OCCUPIED", "DISARMED"}
LetterStates == {"UNASSIGNED", "ASSIGNED"}
Faults == {"none", "release_null", "letter_of_other_service"}

WorkerRow ==
  [id: Nat, state: WorkerStates, service: Services \cup {NoService},
   letter: Nat, expiration: Nat]

LetterRow ==
  [service: Services, state: LetterStates, worker: Nat, client: Clients, body: Bodies]

UnknownWorker ==
  [id |-> 0, state |-> "INIT", service |-> NoService, letter |-> 0, expiration |-> 0]

(* What the broker sends.  The id of the letter is not on the wire: it is  *)
(* kept in a REQUEST for the properties.                                   *)
Messages ==
  [to: Workers, cmd: {"REQUEST"}, letter: Nat, client: Clients, body: Bodies]
    \cup [to: Workers, cmd: {"DISCONNECT"}]
    \cup [to: Clients, cmd: {"REPORT"}, service: Services, body: Bodies]
    \cup [to: Clients, cmd: {"NAK"}]
    \cup [to: Clients, cmd: {"MMI"}, code: {200, 404, 501}, endpoint: Endpoints \cup {NoEndpoint}]

Known(b, w) == b.worker[w].id # 0
Registered(b, s) == b.service[s] # NoEndpoint

Send(b, m) == [b EXCEPT !.out = Append(@, m)]
Fault(b, f) == [b EXCEPT !.fault = f]

(* An autoid is unique in the whole database, not per table:               *)
(* PushRequestToService relies on it for SK_by_worker_id.  Only the ids of *)
(* workers and letters are ever compared: those of services are left out.  *)
FreshId(b) == b.lastId + 1

-----------------------------------------------------------------------------
(* Operations of the database.                                             *)

(* CalculateEXPIRATION_TIME: milliseconds are divided to whole seconds     *)
(* before they are doubled.                                                *)
WorkerTTL == (HeartbeatPeriodMsec \div 1000) * 2

Expired(b, w, t) == b.worker[w].expiration < t

(* What PopWorker(srv) may return: a row of SK_by_serv_id in state ARMED.  *)
Armed(b, s) == {w \in Workers : b.worker[w].state = "ARMED" /\ b.worker[w].service = s}

(* Mutant of Waiting: the search goes by the service alone.                *)
WaitingInAnyState(b, s) == {l \in DOMAIN b.letter : b.letter[l].service = s}

(* What GetWaitingLetter(srv) may return.                                  *)
Waiting(b, s) ==
  {l \in DOMAIN b.letter : b.letter[l].state = "UNASSIGNED" /\ b.letter[l].service = s}

(* The row is kept, marked inactive; its letter reference stays.           *)
RemoveWorker(b, w) == [b EXCEPT !.worker[w].state = "DISARMED"]

(* A known identity gets the state ARMED whatever it was doing, a new      *)
(* deadline and keeps its letter reference; an unknown one gets a row.     *)
PushWorker(b, w, s, t) ==
  IF Known(b, w)
    THEN [b EXCEPT !.worker[w] =
            [@ EXCEPT !.state = "ARMED", !.service = s, !.expiration = t + WorkerTTL]]
    ELSE [b EXCEPT !.lastId = FreshId(b),
                   !.worker[w] = [id |-> FreshId(b), state |-> "ARMED", service |-> s,
                                  letter |-> 0, expiration |-> t + WorkerTTL]]

(* Mutant of PushRequestToService: letters are numbered by a counter of    *)
(* their own table.                                                        *)
PushRequestWithOwnCounter(b, s, c, body) ==
  LET l == Cardinality(DOMAIN b.letter) + 1
      row == [service |-> s, state |-> "UNASSIGNED", worker |-> l,
              client |-> c, body |-> body]
  IN  [b EXCEPT !.letter = [k \in DOMAIN b.letter \cup {l} |->
                              IF k = l THEN row ELSE b.letter[k]]]

(* worker_ref is the letter's own id until a worker is assigned, to keep   *)
(* the unique index SK_by_worker_id.                                       *)
PushRequestToService(b, s, c, body) ==
  LET l == FreshId(b)
      row == [service |-> s, state |-> "UNASSIGNED", worker |-> l,
              client |-> c, body |-> body]
  IN  [b EXCEPT !.lastId = l,
                !.letter = [k \in DOMAIN b.letter \cup {l} |->
                              IF k = l THEN row ELSE b.letter[k]]]

(* Mutant of Assignable: the index SK_by_worker_id is not unique.          *)
AssignableAlways(b, w, l) == TRUE

(* SK_by_worker_id is unique: worker_ref_put or the commit fails when      *)
(* another letter already refers to this worker.                           *)
Assignable(b, w, l) ==
  \A k \in DOMAIN b.letter \ {l} : b.letter[k].worker # b.worker[w].id

(* The period is in milliseconds but is added to the seconds.              *)
AssignLetterToWorker(b, w, l, t) ==
  [b EXCEPT !.worker[w] = [@ EXCEPT !.state = "OCCUPIED", !.letter = l,
                                    !.expiration = t + ExpirationPeriodMsec],
            !.letter[l] = [@ EXCEPT !.state = "ASSIGNED", !.worker = b.worker[w].id]]

(* The letters SK_by_worker_id yields for the worker.                      *)
LettersOf(b, w) == {l \in DOMAIN b.letter : b.letter[l].worker = b.worker[w].id}

(* Mutant of ReleaseLetterFromWorker: the worker keeps its letter_ref.     *)
ReleaseKeepsReference(b, w) ==
  [b EXCEPT !.letter = [k \in DOMAIN b.letter \ LettersOf(b, w) |-> b.letter[k]],
            !.worker[w].state = "ARMED"]

(* Removes the letter and, with SetWorkerState, the reference to it; the   *)
(* code asserts that letter and worker are of the same service.            *)
ReleaseLetterFromWorker(b, w) ==
  LET l == CHOOSE k \in LettersOf(b, w) : TRUE
  IN  IF LettersOf(b, w) = {} THEN b
      ELSE IF b.letter[l].service # b.worker[w].service
           THEN Fault(b, "letter_of_other_service")
           ELSE [b EXCEPT !.letter = [k \in DOMAIN b.letter \ {l} |-> b.letter[k]],
                          !.worker[w] = [@ EXCEPT !.state = "ARMED", !.letter = 0]]

-----------------------------------------------------------------------------
(* Methods of the broker.                                                  *)

(* release: assert(wrk), then DISCONNECT when asked for, then the row.     *)
Release(b, w, disconnect) ==
  RemoveWorker(IF disconnect THEN Send(b, [to |-> w, cmd |-> "DISCONNECT"]) ELSE b, w)

(* The worker each PopWorker(srv) yields: the first ARMED one of the       *)
(* service in SK_by_serv_id, the same one until its state changes.         *)
Heads(b) ==
  {H \in SUBSET {w \in Workers : b.worker[w].state = "ARMED"} :
     \A s \in Services : Armed(b, s) # {} => \E h \in Workers : H \cap Armed(b, s) = {h}}

(* purge_workers looks at that ONE worker of each service, and disarms it  *)
(* when it is late.                                                        *)
PurgeWorkers(b, heads, t) ==
  [b EXCEPT !.worker = [w \in Workers |->
      IF w \in heads /\ Expired(b, w, t)
        THEN [b.worker[w] EXCEPT !.state = "DISARMED"]
        ELSE b.worker[w]]]

(* Mutant of WorkerSend: the request leaves before the result of the       *)
(* assignment is looked at.                                                *)
SendWithoutAssignment(b, w, l, t) ==
  Send(IF Assignable(b, w, l) THEN AssignLetterToWorker(b, w, l, t) ELSE b,
       [to |-> w, cmd |-> "REQUEST", letter |-> l,
        client |-> b.letter[l].client, body |-> b.letter[l].body])

(* worker_send with a letter: nothing is sent when the assignment fails.   *)
WorkerSend(b, w, l, t) ==
  IF Assignable(b, w, l)
    THEN Send(AssignLetterToWorker(b, w, l, t),
              [to |-> w, cmd |-> "REQUEST", letter |-> l,
               client |-> b.letter[l].client, body |-> b.letter[l].body])
    ELSE b

(* service_dispatch after the optional PushRequestToService: purge, then   *)
(* at most one letter to one worker (the while loop ends in break); the    *)
(* worker purge_workers looked at is popped again unless it was late.      *)
Popped(b, heads, s) ==
  IF heads \cap Armed(b, s) # {} THEN heads \cap Armed(b, s) ELSE Armed(b, s)

DispatchOne(b, heads, s, t) ==
  IF Armed(b, s) = {} \/ Waiting(b, s) = {}
    THEN {b}
    ELSE {WorkerSend(b, w, l, t) : w \in Popped(b, heads, s), l \in Waiting(b, s)}

ServiceDispatch(b, s, t) ==
  UNION {DispatchOne(PurgeWorkers(b, heads, t), heads, s, t) : heads \in Heads(b)}

(* Mutant of WorkerWaiting: the worker waits, its service is not looked at.*)
WaitingWithoutDispatch(b, w, s, t) == {PushWorker(b, w, s, t)}

WorkerWaiting(b, w, s, t) == ServiceDispatch(PushWorker(b, w, s, t), s, t)

-----------------------------------------------------------------------------
(* The handlers of one message.                                            *)

(* An identity the database has ever seen is sent a DISCONNECT; a new one  *)
(* is registered with its service, and the service dispatched twice.       *)
ProcessReady(b, w, s, ep, t) ==
  IF Known(b, w) THEN {Release(b, w, TRUE)}
  ELSE IF w \in Reserved THEN {Fault(b, "release_null")}
  ELSE UNION {ServiceDispatch(d, s, t) :
                d \in WorkerWaiting([b EXCEPT !.service[s] = ep], w, s, t)}

(* The reply goes to the client named in the report, whatever letter (or   *)
(* none) was released.                                                     *)
ProcessReport(b, w, c, body, t) ==
  LET s == b.worker[w].service
      d == ReleaseLetterFromWorker(b, w)
  IN  IF ~ Known(b, w) THEN {Send(b, [to |-> w, cmd |-> "DISCONNECT"])}
      ELSE IF d.fault # "none" THEN {d}
      ELSE WorkerWaiting(Send(d, [to |-> c, cmd |-> "REPORT", service |-> s, body |-> body]),
                         w, s, t)

(* Mutants of ProcessHeartbeat: a sign of life does not arm a worker; or   *)
(* it is taken for a sign of being idle, and the letter is given up.       *)
HeartbeatOnlyLogged(b, w, t) == {b}

HeartbeatFrees(b, w, t) ==
  LET d == ReleaseLetterFromWorker(b, w)
  IN  IF ~ Known(b, w) THEN {b}
      ELSE IF d.fault # "none" THEN {d}
      ELSE WorkerWaiting(d, w, b.worker[w].service, t)

(* An unknown sender is only logged: the status stays true.                *)
ProcessHeartbeat(b, w, t) ==
  IF Known(b, w) THEN WorkerWaiting(b, w, b.worker[w].service, t) ELSE {b}

(* Mutant of ProcessDisconnect: the letter of the worker goes with it.     *)
DisconnectDropsLetter(b, w) ==
  IF Known(b, w) THEN {Release(ReleaseLetterFromWorker(b, w), w, FALSE)}
                 ELSE {Fault(b, "release_null")}

(* release() is called with the null worker for an unknown sender.         *)
ProcessDisconnect(b, w) ==
  IF Known(b, w) THEN {Release(b, w, FALSE)} ELSE {Fault(b, "release_null")}

ProcessClient(b, c, s, body, t) ==
  IF Registered(b, s)
    THEN ServiceDispatch(PushRequestToService(b, s, c, body), s, t)
    ELSE {Send(b, [to |-> c, cmd |-> "NAK"])}

(* service_internal: a service that is in the table is REGISTERED, nothing *)
(* in the code gives it another state.  The reply to mmi.filter is sent to *)
(* the empty identity, its frames having been popped off with the client's *)
(* address: no peer gets it.                                               *)
MmiReply(c, code, ep) == [to |-> c, cmd |-> "MMI", code |-> code, endpoint |-> ep]

ServiceInternal(b, c, request, s) ==
  CASE request = "mmi.service" ->
         {Send(b, IF Registered(b, s) THEN MmiReply(c, 200, b.service[s])
                                      ELSE MmiReply(c, 404, NoEndpoint))}
    [] request = "mmi.filter" -> {b}
    [] OTHER -> {Send(b, MmiReply(c, 501, NoEndpoint))}

-----------------------------------------------------------------------------
(* start_brokering                                                         *)

EmptyDatabase ==
  [service |-> [s \in Services |-> NoEndpoint],
   worker  |-> [w \in Workers |-> UnknownWorker],
   letter  |-> [l \in {} |-> 0],
   lastId  |-> 0,
   out     |-> <<>>,
   fault   |-> "none"]

Init == broker = EmptyDatabase /\ now = 0

(* m_heartbeat_at is set once, by the constructor: after the first period  *)
(* every turn ends with a purge.                                           *)
EndOfTurn(b) ==
  IF b.fault = "none" /\ now * 1000 > HeartbeatPeriodMsec
    THEN {PurgeWorkers(b, heads, now) : heads \in Heads(b)}
    ELSE {b}

(* A turn that leaves one of the given records; none follows an abort().   *)
Leaves(outcomes) ==
  /\ broker.fault = "none"
  /\ \E b \in outcomes : broker' \in EndOfTurn(b)

Turn(outcomes) == Leaves(outcomes) /\ UNCHANGED now

Cleared == [broker EXCEPT !.out = <<>>]

Ready(w, s, ep)       == Turn(ProcessReady(Cleared, w, s, ep, now))
Report(w, c, body)    == Turn(ProcessReport(Cleared, w, c, body, now))
Heartbeat(w)          == Turn(ProcessHeartbeat(Cleared, w, now))
Disconnect(w)         == Turn(ProcessDisconnect(Cleared, w))
Request(c, s, body)   == broker.lastId < MaxAutoid
                           /\ Turn(ProcessClient(Cleared, c, s, body, now))
Internal(c, req, s)   == Turn(ServiceInternal(Cleared, c, req, s))
Timeout               == Turn({Cleared})

Tick == now < MaxTime /\ now' = now + 1 /\ UNCHANGED broker

Next ==
  \/ \E w \in Workers, s \in Services, ep \in Endpoints : Ready(w, s, ep)
  \/ \E w \in Workers, c \in Clients, body \in Bodies : Report(w, c, body)
  \/ \E w \in Workers : Heartbeat(w)
  \/ \E w \in Workers : Disconnect(w)
  \/ \E c \in Clients, s \in Services, body \in Bodies : Request(c, s, body)
  \/ \E c \in Clients, s \in Services, req \in {"mmi.service", "mmi.filter", "mmi.other"} :
       Internal(c, req, s)
  \/ Timeout
  \/ Tick

Spec == Init /\ [][Next]_vars

-----------------------------------------------------------------------------
(* Safety.                                                                 *)

(* Every row has its type and an id the database has given out:            *)
(* last_autoid is advanced by each create().                               *)
BrokerType(b) ==
  /\ b = [service |-> b.service, worker |-> b.worker, letter |-> b.letter,
          lastId |-> b.lastId, out |-> b.out, fault |-> b.fault]
  /\ b.service \in [Services -> Endpoints \cup {NoEndpoint}]
  /\ b.worker \in [Workers -> WorkerRow]
  /\ b.lastId \in Nat
  /\ \A w \in Workers : b.worker[w].id <= b.lastId
  /\ DOMAIN b.letter \subseteq 1 .. b.lastId
  /\ b.letter \in [DOMAIN b.letter -> LetterRow]
  /\ b.out \in Seq(Messages)
  /\ b.fault \in Faults

(* The variables have their types, whatever the peers send.                *)
TypeOK == now \in Nat /\ BrokerType(broker)

(* The parts of the inductive invariant, each of a broker record.          *)

(* A worker without a row has none of its attributes; one with a row is    *)
(* of a service that is in the table.                                      *)
WorkersRegistered(b) ==
  \A w \in Workers :
    IF Known(b, w)
      THEN b.worker[w].service \in Services /\ Registered(b, b.worker[w].service)
      ELSE b.worker[w] = UnknownWorker

(* No two rows of the database have the same id.                           *)
DistinctIds(b) ==
  /\ \A v, w \in Workers :
       Known(b, v) /\ b.worker[v].id = b.worker[w].id => v = w
  /\ \A w \in Workers : b.worker[w].id \notin DOMAIN b.letter

(* A letter nobody works on refers to itself.                              *)
WaitingRefersToItself(b) ==
  \A l \in DOMAIN b.letter :
    b.letter[l].state = "UNASSIGNED" => b.letter[l].worker = l

(* The worker an assigned letter refers to refers back to it and is of the *)
(* letter's service.                                                       *)
AssignedHasHolder(b) ==
  \A l \in DOMAIN b.letter :
    b.letter[l].state = "ASSIGNED" =>
      \E w \in Workers : /\ Known(b, w)
                         /\ b.worker[w].id = b.letter[l].worker
                         /\ b.worker[w].letter = l
                         /\ b.worker[w].service = b.letter[l].service

(* The letter a worker refers to exists, is assigned and refers back.      *)
HolderHasLetter(b) ==
  \A w \in Workers :
    b.worker[w].letter # 0 =>
      /\ Known(b, w)
      /\ b.worker[w].letter \in DOMAIN b.letter
      /\ b.letter[b.worker[w].letter].state = "ASSIGNED"
      /\ b.letter[b.worker[w].letter].worker = b.worker[w].id

OccupiedHasLetter(b) ==
  \A w \in Workers : b.worker[w].state = "OCCUPIED" => b.worker[w].letter # 0

(* XDBWorker.letter_ref and XDBLetter.worker_ref stay each other's inverse *)
(* and of one service, over READY, HEARTBEAT, REPORT, DISCONNECT and purge *)
(* in any order, although each of them writes only some of the fields.     *)
CrossReferences ==
  /\ WorkersRegistered(broker)
  /\ AssignedHasHolder(broker)
  /\ HolderHasLetter(broker)
  /\ OccupiedHasLetter(broker)

(* A REPORT never finds, through SK_by_worker_id, a letter that still      *)
(* waits: the placeholder PushRequestToService puts into worker_ref is     *)
(* never the id of a worker.                                               *)
PlaceholderIsNoWorker ==
  \A w \in Workers : Known(broker, w) =>
    \A l \in LettersOf(broker, w) : broker.letter[l].state = "ASSIGNED"

(* "At most one Message at a time for each Worker" (broker_db.mco), also   *)
(* for a worker that a HEARTBEAT made ARMED while it holds a letter.       *)
OneLetterPerWorker ==
  \A k, l \in DOMAIN broker.letter :
    /\ broker.letter[k].state = "ASSIGNED"
    /\ broker.letter[l].state = "ASSIGNED"
    /\ broker.letter[k].worker = broker.letter[l].worker
    => k = l

(* The assertion of ReleaseLetterFromWorker: the letter a REPORT releases  *)
(* is of the service its worker is registered for now.                     *)
ReleasedLetterIsOfService == broker.fault # "letter_of_other_service"

(* What a turn of the broker may never do.                                 *)

Sent(cmd) == {m \in {broker'.out[i] : i \in DOMAIN broker'.out} : m.cmd = cmd}

(* A letter is sent to a worker at most once, and to the worker it is then *)
(* assigned to: every REQUEST of a turn carries a letter that was not      *)
(* assigned when the turn began and that its addressee holds, busy with    *)
(* it, when the turn ends.                                                 *)
RequestSentOnce ==
  [][\A m \in Sent("REQUEST") :
       /\ m.letter \in DOMAIN broker.letter => broker.letter[m.letter].state = "UNASSIGNED"
       /\ broker'.worker[m.to].letter = m.letter
       /\ broker'.worker[m.to].state = "OCCUPIED"
       /\ broker'.letter[m.letter].state = "ASSIGNED"]_broker

(* A request is never lost by the broker: a turn that removes a letter     *)
(* removes one only, one that a worker has got, and sends a client a       *)
(* REPORT of its service; and no turn changes a letter that is assigned.   *)
LetterLeavesByReport ==
  [][\A l \in DOMAIN broker.letter :
       IF l \in DOMAIN broker'.letter
         THEN broker.letter[l].state = "ASSIGNED" => broker'.letter[l] = broker.letter[l]
         ELSE /\ broker.letter[l].state = "ASSIGNED"
              /\ DOMAIN broker.letter \ DOMAIN broker'.letter = {l}
              /\ \E m \in Sent("REPORT") : m.service = broker.letter[l].service]_broker

(* What the tables are to a client: requests that wait or belong to a      *)
(* worker.                                                                 *)
LettersIn(b) ==
  [l \in DOMAIN b.letter |->
     [service |-> b.letter[l].service, client |-> b.letter[l].client,
      body |-> b.letter[l].body,
      holders |-> {w \in Workers : b.worker[w].letter = l}]]
ServesIn(b) == [w \in Workers |-> b.worker[w].service]

Queue == INSTANCE LetterQueue WITH
  letters <- LettersIn(broker), serves <- ServesIn(broker),
  last <- broker.lastId, sent <- broker.out

(* The broker keeps the promises of LetterQueue: a request is sent to one  *)
(* idle worker of its service, once, and stays with it until its report,   *)
(* which is passed on once, whatever happens to READY, HEARTBEAT,          *)
(* DISCONNECT and the deadlines in between.                                *)
KeepsPromises == Queue!Spec

=============================================================================
