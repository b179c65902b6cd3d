----------------------------- MODULE ClientApi ------------------------------
(***************************************************************************)
(* The client's side: the class mdcli, whose calls a program makes one     *)
(* after the other.  It asks the broker where a service is and remembers   *)
(* it, sends requests by way of the broker or directly, and receives from  *)
(* three sockets what comes first.                                         *)
(*                                                                         *)
(* The broker and the services are here what a client sees of them: they   *)
(* answer, late or not at all.  What they do is in Broker and Majordomo.   *)
(***************************************************************************)
EXTENDS Naturals, Sequences, FiniteSets

CONSTANTS
  Services,   \* names of services
  MaxCalls,   \* bound on the calls that send
  MaxMoves,   \* bound on how often services get another endpoint
  MaxUpdates  \* bound on the updates that are published

ASSUME ClientApiAssumption ==
  Services # {} /\ MaxCalls \in Nat /\ MaxMoves \in Nat /\ MaxUpdates \in Nat

Channels == {"PERSISTENT", "DIRECT"}
Endpoints == Services \X (0..MaxMoves)
Unknown == <<>>

\* The service that an endpoint belongs to.
Owner(e) == e[1]

VARIABLES
  info,       \* m_services_info: service |-> its endpoint, or Unknown
  connected,  \* the services that m_peer was connected to
  subscribed, \* whether there is a socket for updates
  asking,     \* the service ask_service_info() was called for, while it waits
  aborted,    \* an assertion failed
  requests,   \* sent to the broker and not taken
  answers,    \* from the broker, in order
  updates,    \* of the publisher, to be received
  direct,     \* answers on m_peer, to be received
  working,    \* requests that services have: their channel
  endpoint,   \* service |-> where it is now
  calls, moves, published,        \* counters of the bounds
  askedLate, owed, strayed        \* history variables

client == <<info, connected, subscribed, asking, aborted>>
world == <<working, endpoint, moves>>
history == <<askedLate, owed, strayed>>
vars == <<client, requests, answers, updates, direct, world, calls, published, history>>

Nobody == {}

Init ==
  /\ info = [s \in Services |-> Unknown]
  /\ connected = {}
  /\ subscribed = FALSE
  /\ asking = Nobody
  /\ aborted = FALSE
  /\ requests = <<>> /\ answers = <<>>
  /\ updates = 0 /\ direct = 0
  /\ working = [c \in Channels |-> 0]
  /\ endpoint = [s \in Services |-> <<s, 0>>]
  /\ calls = 0 /\ moves = 0 /\ published = 0
  /\ askedLate = FALSE /\ owed = FALSE /\ strayed = FALSE

Free == asking = Nobody /\ ~aborted

-----------------------------------------------------------------------------
(* Calls of the program.                                                   *)

\* What may come that is no answer of the broker to a question.
Owed ==
  \/ subscribed
  \/ direct > 0
  \/ \E c \in Channels : working[c] > 0
  \/ \E i \in DOMAIN requests : requests[i].kind = "work"
  \/ \E i \in DOMAIN answers : answers[i].kind = "work"

Ask(s) ==
  /\ Free
  /\ calls < MaxCalls
  /\ calls' = calls + 1
  /\ requests' = Append(requests, [kind |-> "mmi.service", service |-> s])
  /\ asking' = {s}
  /\ owed' = Owed
  /\ UNCHANGED <<info, connected, subscribed, aborted, answers, updates, direct, world,
                 published, askedLate, strayed>>

SendPersistent(s) ==
  /\ Free
  /\ calls < MaxCalls
  /\ calls' = calls + 1
  /\ requests' = Append(requests, [kind |-> "work", service |-> s])
  /\ UNCHANGED <<client, answers, updates, direct, world, published, history>>

\* A service that was not asked for is not sent to.
HasInfo(s) == info[s] # Unknown

\* One socket of type DEALER is connected to all the services, and gives what
\* is sent to any of them in turn.  What goes to an endpoint that the service
\* has left waits there.
SendDirect(s) ==
  /\ Free
  /\ calls < MaxCalls
  /\ calls' = calls + 1
  /\ HasInfo(s)
  /\ connected' = connected \cup {s}
  /\ \E t \in connected' :
       /\ strayed' = (strayed \/ Owner(info[t]) # s)
       /\ working' = IF endpoint[Owner(info[t])] = info[t]
                       THEN [working EXCEPT !["DIRECT"] = @ + 1]
                       ELSE working
  /\ UNCHANGED <<info, subscribed, asking, aborted, requests, answers, updates, direct,
                 endpoint, moves, published, askedLate, owed>>

Subscript ==
  /\ Free
  /\ ~subscribed
  /\ subscribed' = TRUE
  /\ UNCHANGED <<info, connected, asking, aborted, requests, answers, updates, direct,
                 world, calls, published, history>>

\* recv() looks at the broker's socket, then at the updates, then at m_peer.
FromBroker == answers # <<>>
FromPublisher == ~FromBroker /\ subscribed /\ updates > 0
FromPeer == ~FromBroker /\ ~FromPublisher /\ connected # {} /\ direct > 0
TimedOut == ~FromBroker /\ ~FromPublisher /\ ~FromPeer

Received ==
  /\ ~TimedOut
  /\ answers' = IF FromBroker THEN Tail(answers) ELSE answers
  /\ updates' = IF FromPublisher THEN updates - 1 ELSE updates
  /\ direct' = IF FromPeer THEN direct - 1 ELSE direct

Recv ==
  /\ Free
  /\ Received
  /\ UNCHANGED <<client, requests, world, calls, published, history>>

\* A mutant: whoever is unknown is remembered.
RememberedByAll(s, e) ==
  [t \in Services |-> IF info[t] = Unknown THEN e ELSE info[t]]

\* A mutant: a service that has moved is forgotten.
RememberedAnew(s, e) == [info EXCEPT ![s] = IF info[s] \in {Unknown, e} THEN e ELSE Unknown]

\* What is known of a service is kept: a change is only logged.
Remembered(s, e) == IF info[s] = Unknown THEN [info EXCEPT ![s] = e] ELSE info

\* A mutant: it is asserted that the service exists.
IsFoundAnswer(answer) == answer.kind = "mmi.service" /\ answer.endpoint # Unknown

IsAnswer(answer) == answer.kind = "mmi.service"

\* The answer does not tell the service that was asked for.
TakeAnswer ==
  LET answer == Head(answers) IN
  /\ asking # Nobody /\ ~aborted
  /\ FromBroker
  /\ IsAnswer(answer)
  /\ Received
  /\ info' = IF answer.endpoint = Unknown THEN info
             ELSE Remembered(CHOOSE s \in asking : TRUE, answer.endpoint)
  /\ asking' = Nobody
  /\ UNCHANGED <<connected, subscribed, aborted, requests, world, calls, published, history>>

\* Anything else is taken for the answer, and an assertion fails.
FailAssertion ==
  /\ asking # Nobody /\ ~aborted
  /\ FromBroker => ~IsAnswer(Head(answers))
  /\ Received
  /\ aborted' = TRUE
  /\ UNCHANGED <<info, connected, subscribed, asking, requests, world, calls, published,
                 history>>

GiveUp ==
  /\ asking # Nobody /\ ~aborted
  /\ TimedOut
  /\ asking' = Nobody
  /\ askedLate' = TRUE
  /\ UNCHANGED <<info, connected, subscribed, aborted, requests, answers, updates, direct,
                 world, calls, published, owed, strayed>>

-----------------------------------------------------------------------------
(* The broker, the services and the publisher.                             *)

\* The broker has the endpoint of a service that is registered.
AnswerQuestion ==
  /\ requests # <<>>
  /\ Head(requests).kind = "mmi.service"
  /\ requests' = Tail(requests)
  /\ \E e \in {Unknown, endpoint[Head(requests).service]} :
       answers' = Append(answers, [kind |-> "mmi.service", endpoint |-> e])
  /\ UNCHANGED <<client, updates, direct, world, calls, published, history>>

GiveToService ==
  /\ requests # <<>>
  /\ Head(requests).kind = "work"
  /\ requests' = Tail(requests)
  /\ working' = [working EXCEPT !["PERSISTENT"] = @ + 1]
  /\ UNCHANGED <<client, answers, updates, direct, endpoint, moves, calls, published,
                 history>>

\* A request that is lost, with the broker or by it.
LoseRequest ==
  /\ requests # <<>>
  /\ requests' = Tail(requests)
  /\ UNCHANGED <<client, answers, updates, direct, world, calls, published, history>>

Answer(c) ==
  /\ working[c] > 0
  /\ working' = [working EXCEPT ![c] = @ - 1]
  /\ IF c = "DIRECT"
       THEN direct' = direct + 1 /\ UNCHANGED answers
       ELSE answers' = Append(answers, [kind |-> "work"]) /\ UNCHANGED direct
  /\ UNCHANGED <<client, requests, updates, endpoint, moves, calls, published, history>>

Publish ==
  /\ subscribed
  /\ published < MaxUpdates
  /\ published' = published + 1
  /\ updates' = updates + 1
  /\ UNCHANGED <<client, requests, answers, direct, world, calls, history>>

Move(s) ==
  /\ moves < MaxMoves
  /\ moves' = moves + 1
  /\ endpoint' = [endpoint EXCEPT ![s] = <<s, @[2] + 1>>]
  /\ UNCHANGED <<client, requests, answers, updates, direct, working, calls, published,
                 history>>

Call ==
  \/ \E s \in Services : Ask(s) \/ SendPersistent(s) \/ SendDirect(s)
  \/ Subscript \/ Recv \/ TakeAnswer \/ FailAssertion \/ GiveUp

Environment ==
  \/ AnswerQuestion \/ GiveToService \/ LoseRequest \/ Publish
  \/ \E c \in Channels : Answer(c)
  \/ \E s \in Services : Move(s)

Next == Call \/ Environment

Spec == Init /\ [][Next]_vars

-----------------------------------------------------------------------------
(* Properties.                                                             *)

(* The variables have their types.  What m_peer is connected to was asked  *)
(* for, and the program waits for one answer at most.                      *)
TypeOK ==
  /\ info \in [Services -> Endpoints \cup {Unknown}]
  /\ connected \subseteq {s \in Services : info[s] # Unknown}
  /\ subscribed \in BOOLEAN /\ aborted \in BOOLEAN
  /\ asking \subseteq Services /\ Cardinality(asking) <= 1
  /\ \A i \in DOMAIN requests : requests[i].kind \in {"mmi.service", "work"}
  /\ \A i \in DOMAIN answers : answers[i].kind \in {"mmi.service", "work"}
  /\ updates \in Nat /\ direct \in Nat
  /\ working \in [Channels -> Nat]
  /\ endpoint \in [Services -> Endpoints]

(* ask_service_info() promises the endpoint of the service of that name:   *)
(* the client remembers one of another service only after a question that  *)
(* it gave up waiting for, whose answer was taken for that of a later one. *)
EndpointIsOfService ==
  \A s \in Services : info[s] # Unknown /\ Owner(info[s]) # s => askedLate

(* The assertion of ask_service_info() that it got its own answer fails    *)
(* only in a program that asks while an answer to a request, or an update, *)
(* may still come.                                                         *)
AbortsWhenOwed == aborted => owed

(* A direct message reaches the service it is for, but for a client that   *)
(* talks to several services directly or learned a wrong endpoint.         *)
DirectReachesService == strayed => askedLate \/ Cardinality(connected) > 1

=============================================================================
