------------------------------ MODULE Majordomo ------------------------------
(***************************************************************************)
(* The broker together with the worker processes it serves: class mdwrk of *)
(* src/mdp/mdp_worker_api.cpp, driven by the loop of Digger::run() in      *)
(* src/worker/wdigger.cpp, and the queues of messages between them.        *)
(*                                                                         *)
(* A worker is one thread that alternates between recv(), where it waits   *)
(* for the broker, sends heartbeats and reconnects, and handle_request().  *)
(* Its identity is the name of its service (ZMQ_IDENTITY is m_service).    *)
(*                                                                         *)
(* Time is kept as what is left of each deadline.  Tick brings all of them *)
(* one second nearer and may be taken at any moment: a process can be      *)
(* scheduled as late as it likes.  The broker's clock stands still at      *)
(* BrokerNow, past its first heartbeat period, and the expirations in its  *)
(* tables move towards it instead.                                         *)
(***************************************************************************)
EXTENDS Integers, Sequences, FiniteSets
LOCAL INSTANCE SequencesExt

CONSTANTS
  Services, Workers, Reserved, Clients, Endpoints, Bodies,
  HeartbeatPeriodMsec, ExpirationPeriodMsec, MaxAutoid, MaxTime,
  NoService, NoEndpoint,
  ServiceOf,          \* the service of each worker, given on its command line
  Supported,          \* the bodies that are a valid ASKLIFE request
  HeartbeatLiveness,  \* HEARTBEAT_LIVENESS
  MaxInFlight,        \* bound: no heartbeat is sent while so many messages are under way
  MaxStops,           \* bound: how often worker processes are stopped or killed
  MaxBrokerStops      \* bound: how often the broker is stopped and started again;
                      \* no behaviour has stops of both kinds

(* HEARTBEAT_PERIOD_MSEC in seconds, the step of Tick. *)
Period == HeartbeatPeriodMsec \div 1000
BrokerNow == Period + 1

(* The identities of the peers of a ROUTER socket are distinct.            *)
ASSUME MajordomoAssumption ==
  /\ HeartbeatPeriodMsec \in Nat /\ Period > 0
  /\ ExpirationPeriodMsec \in Nat
  /\ MaxAutoid \in Nat
  /\ MaxTime \in Nat
  /\ Reserved \subseteq Workers
  /\ Workers \cap Clients = {}
  /\ NoService \notin Services
  /\ NoEndpoint \notin Endpoints
  /\ HeartbeatLiveness \in Nat \ {0}
  /\ MaxInFlight \in Nat
  /\ MaxStops \in Nat
  /\ MaxBrokerStops \in Nat
  /\ ServiceOf \in [Workers -> Services]
  /\ Supported \subseteq Bodies

VARIABLES
  broker,       \* the broker's tables and the messages its last turn sent
  proc,         \* the worker processes
  toBroker,     \* what each worker sent and the broker has not taken yet
  toWorker,     \* what the broker sent and each worker has not taken yet
  stops,        \* stops and deaths of worker processes so far
  brokerStops   \* stops of the broker so far

B == INSTANCE Broker WITH now <- BrokerNow

vars == <<broker, proc, toBroker, toWorker, stops, brokerStops>>

-----------------------------------------------------------------------------
(* A worker process.  The letter it works on is not known to it: the model *)
(* keeps its id for the properties, with the client to answer.             *)

Process ==
  [phase: {"down", "recv", "busy"},
   liveness: 0 .. HeartbeatLiveness,
   heartbeatIn: -1 .. Period,
   pollIn: 0 .. Period,
   letter: Nat, client: Clients \cup {"nobody"}, body: Bodies \cup {"none"}]

Down == [phase |-> "down", liveness |-> 0, heartbeatIn |-> 0, pollIn |-> 0,
         letter |-> 0, client |-> "nobody", body |-> "none"]

(* update_heartbeat_sign() *)
Signed(p) == [p EXCEPT !.heartbeatIn = Period, !.liveness = HeartbeatLiveness]

(* The next call of zmq::poll in recv(). *)
Polling(p) == [p EXCEPT !.phase = "recv", !.pollIn = Period]

Freed(p) == [p EXCEPT !.letter = 0, !.client = "nobody", !.body = "none"]

(* What is left to deliver of a queue whose socket is closed: ZMQ_LINGER   *)
(* is 0, any number of the messages sent last is dropped.                  *)
Unsent(queue) == Prefixes(queue)

SendToBroker(w, m) == toBroker' = [toBroker EXCEPT ![w] = Append(@, m)]

Command(cmd) == [cmd |-> cmd, letter |-> 0, client |-> "nobody", body |-> "none"]

(* connect_to_broker(): the old socket is deleted with everything in it,   *)
(* READY is the first message of the new one.                              *)
Connect(w) ==
  /\ \E rest \in Unsent(toBroker[w]) :
       toBroker' = [toBroker EXCEPT ![w] = Append(rest, Command("READY"))]
  /\ proc' = [proc EXCEPT ![w] = Polling(Signed(Freed(@)))]

-----------------------------------------------------------------------------
(* Worker.                                                                 *)

Start(w) ==
  /\ proc[w].phase = "down"
  /\ Connect(w)
  /\ UNCHANGED <<broker, toWorker, stops, brokerStops>>

(* The destructor of mdwrk, after a signal made recv() return NULL.        *)
Stop(w) ==
  /\ proc[w].phase = "recv"
  /\ \E rest \in Unsent(Append(toBroker[w], Command("DISCONNECT"))) :
       toBroker' = [toBroker EXCEPT ![w] = rest]
  /\ toWorker' = [toWorker EXCEPT ![w] = <<>>]
  /\ proc' = [proc EXCEPT ![w] = Down]
  /\ stops < MaxStops /\ brokerStops = 0
  /\ stops' = stops + 1
  /\ UNCHANGED <<broker, brokerStops>>

(* The process is killed.                                                  *)
Crash(w) ==
  /\ proc[w].phase # "down"
  /\ \E rest \in Unsent(toBroker[w]) : toBroker' = [toBroker EXCEPT ![w] = rest]
  /\ toWorker' = [toWorker EXCEPT ![w] = <<>>]
  /\ proc' = [proc EXCEPT ![w] = Down]
  /\ stops < MaxStops /\ brokerStops = 0
  /\ stops' = stops + 1
  /\ UNCHANGED <<broker, brokerStops>>

(* recv() takes a REQUEST and returns it to Digger::run().                 *)
ReceiveRequest(w) ==
  /\ proc[w].phase = "recv"
  /\ toWorker[w] # <<>>
  /\ LET m == Head(toWorker[w])
     IN  /\ m.cmd = "REQUEST"
         /\ proc' = [proc EXCEPT ![w] =
              [Signed(@) EXCEPT !.phase = "busy", !.pollIn = 0, !.letter = m.letter,
                                !.client = m.client, !.body = m.body]]
  /\ toWorker' = [toWorker EXCEPT ![w] = Tail(@)]
  /\ UNCHANGED <<broker, toBroker, stops, brokerStops>>

(* recv() takes a DISCONNECT: what else the old socket holds is lost.      *)
ReceiveDisconnect(w) ==
  /\ proc[w].phase = "recv"
  /\ toWorker[w] # <<>>
  /\ Head(toWorker[w]).cmd = "DISCONNECT"
  /\ Connect(w)
  /\ toWorker' = [toWorker EXCEPT ![w] = <<>>]
  /\ UNCHANGED <<broker, stops, brokerStops>>

(* handle_request(): only an ASKLIFE is answered, any other request or an  *)
(* invalid one is logged and forgotten; then recv() is called again.       *)
HandleRequest(w) ==
  /\ proc[w].phase = "busy"
  /\ IF proc[w].body \in Supported
       THEN SendToBroker(w, [cmd |-> "REPORT", letter |-> proc[w].letter,
                             client |-> proc[w].client, body |-> proc[w].body])
       ELSE UNCHANGED toBroker
  /\ proc' = [proc EXCEPT ![w] = Polling(Freed(@))]
  /\ UNCHANGED <<broker, toWorker, stops, brokerStops>>

(* zmq::poll ran out of time.  A second is coarser than s_clock(): when    *)
(* the heartbeat falls due in this very second it may be sent now or not.  *)
PollTimedOut(w) == proc[w].phase = "recv" /\ toWorker[w] = <<>> /\ proc[w].pollIn = 0

Missed(p) == [p EXCEPT !.liveness = @ - 1]

(* --m_liveness is 0: reconnect, after a sleep.                            *)
ReconnectOrPoll(w) ==
  /\ PollTimedOut(w)
  /\ proc[w].heartbeatIn >= 0
  /\ IF Missed(proc[w]).liveness = 0
       THEN Connect(w)
       ELSE proc' = [proc EXCEPT ![w] = Polling(Missed(@))] /\ UNCHANGED toBroker
  /\ UNCHANGED <<broker, toWorker, stops, brokerStops>>

(* Sending a heartbeat counts as a sign of the broker's life: liveness is  *)
(* full again although nothing was received.                               *)
SendHeartbeat(w) ==
  /\ PollTimedOut(w)
  /\ proc[w].heartbeatIn <= 0
  /\ Len(toBroker[w]) < MaxInFlight
  /\ IF Missed(proc[w]).liveness = 0
       THEN Connect(w)
       ELSE /\ SendToBroker(w, Command("HEARTBEAT"))
            /\ proc' = [proc EXCEPT ![w] = Polling(Signed(@))]
  /\ UNCHANGED <<broker, toWorker, stops, brokerStops>>

Worker(w) ==
  \/ ReceiveRequest(w)
  \/ ReceiveDisconnect(w)
  \/ HandleRequest(w)
  \/ ReconnectOrPoll(w)
  \/ SendHeartbeat(w)

-----------------------------------------------------------------------------
(* Broker.                                                                 *)

(* The messages of a turn that are addressed to w, in the order they were  *)
(* sent: the k-th of them is the one that k - 1 others precede.            *)
Addressed(out, w) ==
  LET places == {i \in DOMAIN out : out[i].to = w}
      Before(i) == {j \in places : j < i}
  IN  [k \in 1 .. Cardinality(places) |->
         out[CHOOSE i \in places : Cardinality(Before(i)) = k - 1]]

(* A ROUTER socket drops a message to a peer that is not connected.        *)
Delivered(out) ==
  [w \in Workers |->
     IF proc[w].phase = "down" THEN toWorker[w] ELSE toWorker[w] \o Addressed(out, w)]

Turn(outcomes) ==
  /\ B!Leaves(outcomes)
  /\ toWorker' = Delivered(broker'.out)
  /\ UNCHANGED <<proc, stops, brokerStops>>

ReadyMsg(w) ==
  UNION {B!ProcessReady(B!Cleared, w, ServiceOf[w], ep, BrokerNow) : ep \in Endpoints}

HeartbeatMsg(w) == B!ProcessHeartbeat(B!Cleared, w, BrokerNow)

(* worker_msg() for the message taken from the worker's queue.             *)
Handled(w, m) ==
  CASE m.cmd = "READY" -> ReadyMsg(w)
    [] m.cmd = "REPORT" -> B!ProcessReport(B!Cleared, w, m.client, m.body, BrokerNow)
    [] m.cmd = "HEARTBEAT" -> HeartbeatMsg(w)
    [] m.cmd = "DISCONNECT" -> B!ProcessDisconnect(B!Cleared, w)

WorkerMsg(w) ==
  /\ toBroker[w] # <<>>
  /\ toBroker' = [toBroker EXCEPT ![w] = Tail(@)]
  /\ Turn(Handled(w, Head(toBroker[w])))

ClientMsg(c, s, body) ==
  /\ broker.lastId < MaxAutoid
  /\ Turn(B!ProcessClient(B!Cleared, c, s, body, BrokerNow))
  /\ UNCHANGED toBroker

PollTimeout == Turn({B!Cleared}) /\ UNCHANGED toBroker

(* Mutant of BrokerRestart: the letters are left in the database.          *)
RestartKeepsLetters ==
  /\ brokerStops < MaxBrokerStops /\ stops = 0
  /\ brokerStops' = brokerStops + 1
  /\ broker' = [B!EmptyDatabase EXCEPT !.lastId = broker.lastId, !.letter = broker.letter]
  /\ UNCHANGED <<proc, toWorker, toBroker, stops>>

(* A normal stop empties the tables (Cleanup in the destructor of the      *)
(* database); messages the broker's process had taken from the network are *)
(* lost, the others wait in the workers' sockets.  Ids go on, so that the  *)
(* letters of two lives of the broker are told apart: no id is compared    *)
(* across a stop.                                                          *)
BrokerRestart ==
  /\ brokerStops < MaxBrokerStops /\ stops = 0
  /\ brokerStops' = brokerStops + 1
  /\ broker' = [B!EmptyDatabase EXCEPT !.lastId = broker.lastId]
  /\ \E rest \in [Workers -> UNION {Suffixes(toBroker[w]) : w \in Workers}] :
       /\ \A w \in Workers : rest[w] \in Suffixes(toBroker[w])
       /\ toBroker' = rest
  /\ UNCHANGED <<proc, toWorker, stops>>

-----------------------------------------------------------------------------
Nearer(n, floor) == IF n > floor THEN n - 1 ELSE n

(* One second passes for everybody.                                        *)
Tick ==
  /\ broker' = [broker EXCEPT !.worker = [w \in Workers |->
       [broker.worker[w] EXCEPT !.expiration = Nearer(@, BrokerNow - 1)]]]
  /\ proc' = [w \in Workers |->
       [proc[w] EXCEPT !.heartbeatIn = Nearer(@, -1), !.pollIn = Nearer(@, 0)]]
  /\ UNCHANGED <<toBroker, toWorker, stops, brokerStops>>

Init ==
  /\ broker = B!EmptyDatabase
  /\ proc = [w \in Workers |-> Down]
  /\ toBroker = [w \in Workers |-> <<>>]
  /\ toWorker = [w \in Workers |-> <<>>]
  /\ stops = 0
  /\ brokerStops = 0

Next ==
  \/ \E w \in Workers : Start(w) \/ Stop(w) \/ Crash(w) \/ Worker(w) \/ WorkerMsg(w)
  \/ \E c \in Clients, s \in Services, body \in Bodies : ClientMsg(c, s, body)
  \/ PollTimeout
  \/ BrokerRestart
  \/ Tick

Spec == Init /\ [][Next]_vars

(* The broker takes messages from its peers in turn (fair queueing of the  *)
(* ROUTER socket), a worker process that is up keeps running its loop, and *)
(* time passes.  Nobody has to start, stop or ask.                         *)
Fairness ==
  /\ \A w \in Workers : WF_vars(Worker(w)) /\ WF_vars(WorkerMsg(w))
  /\ WF_vars(Tick)

LiveSpec == Spec /\ Fairness

-----------------------------------------------------------------------------
(* Safety.                                                                 *)

Entry == [cmd: {"READY", "REPORT", "HEARTBEAT", "DISCONNECT"}, letter: Nat,
          client: Clients \cup {"nobody"}, body: Bodies \cup {"none"}]

(* The queues carry the commands of their direction only, a busy worker    *)
(* has a request in hand and any other has none.                           *)
TypeOK ==
  /\ B!BrokerType(broker)
  /\ proc \in [Workers -> Process]
  /\ \A w \in Workers : (proc[w].phase = "busy") <=> (proc[w].letter # 0)
  /\ \A w \in Workers : toBroker[w] \in Seq(Entry)
  /\ \A w \in Workers : \A i \in DOMAIN toWorker[w] :
       toWorker[w][i] \in B!Messages /\ toWorker[w][i].cmd \in {"REQUEST", "DISCONNECT"}
  /\ stops \in 0 .. MaxStops
  /\ brokerStops \in 0 .. MaxBrokerStops

Carrying(queue, cmd) == {i \in DOMAIN queue : queue[i].cmd = cmd}

(* The letters on their way to worker w, in its hands, or reported by it.  *)
RequestsOf(w) == {toWorker[w][i].letter : i \in Carrying(toWorker[w], "REQUEST")}
InHand(w) == IF proc[w].phase = "busy" THEN {proc[w].letter} ELSE {}
ReportsOf(w) == {toBroker[w][i].letter : i \in Carrying(toBroker[w], "REPORT")}
Outstanding(w) == RequestsOf(w) \cup InHand(w) \cup ReportsOf(w)

(* A worker is never sent a request while it has not answered the one      *)
(* before, not even when a heartbeat it sent while it was free arrives     *)
(* after the broker has given it a letter and makes it ARMED again.        *)
OneRequestOutstanding == \A w \in Workers : Cardinality(Outstanding(w)) <= 1

(* The broker never forgets who works on a letter: as long as a letter     *)
(* that a worker is asked for, works on or has reported exists, it is      *)
(* assigned to this worker and no other.                                   *)
WorkIsAssigned ==
  \A w \in Workers : \A l \in Outstanding(w) \cap DOMAIN broker.letter :
    /\ broker.letter[l].state = "ASSIGNED"
    /\ broker.letter[l].worker = broker.worker[w].id
    /\ broker.worker[w].letter = l

(* A report carries no id of its letter (the remark at                     *)
(* xdb_impl_db_broker.cpp:1853): the broker releases whatever letter the   *)
(* worker holds.  It is always the one that was reported, and the reply    *)
(* goes to the client that asked for it.                                   *)
ReportReleasesItsLetter ==
  [][\A l \in DOMAIN broker.letter \ DOMAIN broker'.letter :
       brokerStops' = brokerStops =>
         \E w \in Workers :
           /\ toBroker[w] # <<>>
           /\ toBroker'[w] = Tail(toBroker[w])
           /\ Head(toBroker[w]).cmd = "REPORT"
           /\ Head(toBroker[w]).letter = l
           /\ Head(toBroker[w]).client = broker.letter[l].client]_vars

(* Under its workers and over its restarts the broker is still the queue   *)
(* that it is to peers who send anything: what workers send late, from an  *)
(* earlier life of theirs or of the broker, and what is lost on the way    *)
(* takes no letter away and gives none twice.  A restart forgets all of    *)
(* the letters and of the services, and nothing else forgets any of them.  *)
PromisesOverRestarts ==
  /\ B!Queue!Init
  /\ [][\/ B!Queue!Next
        \/ B!Queue!Forget /\ brokerStops' = brokerStops + 1]_(B!Queue!vars)

-----------------------------------------------------------------------------
(* Liveness.                                                               *)

InService(w) == broker.worker[w].state \in {"ARMED", "OCCUPIED"}

(* A worker that is up is in service again and again, however late its     *)
(* heartbeats come and however often purge_workers disarms it.             *)
EventuallyInService ==
  \A w \in Workers : (proc[w].phase = "recv") ~> InService(w)

(* Every request the broker accepts is answered.                           *)
EveryLetterAnswered ==
  \A l \in 1 .. MaxAutoid : (l \in DOMAIN broker.letter) ~> (l \notin DOMAIN broker.letter)

=============================================================================
