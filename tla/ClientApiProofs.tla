--------------------------- MODULE ClientApiProofs ---------------------------
(***************************************************************************)
(* What holds of a client whatever it calls and however late it is         *)
(* answered, for any services and any bounds.                              *)
(*                                                                         *)
(* TypeInv is the types of the variables.  Two things more are kept: while *)
(* no question was given up, the only question or answer under way is the  *)
(* one the client waits for (KnowInv); and while it waits, nothing is owed *)
(* to it that was not owed when it asked (OwedInv).                        *)
(***************************************************************************)
EXTENDS ClientApi, TLAPS, FiniteSetTheorems

Requests == [kind: {"mmi.service", "work"}, service: Services]

Answers ==
  [kind: {"mmi.service"}, endpoint: Endpoints \cup {Unknown}] \cup [kind: {"work"}]

ClientInv ==
  /\ info \in [Services -> Endpoints \cup {Unknown}]
  /\ connected \subseteq Services /\ IsFiniteSet(connected)
  /\ \A s \in connected : info[s] # Unknown
  /\ subscribed \in BOOLEAN /\ aborted \in BOOLEAN
  /\ asking = {} \/ \E s \in Services : asking = {s}

QueuesInv ==
  /\ requests \in Seq(Requests)
  /\ answers \in Seq(Answers)
  /\ updates \in Nat /\ direct \in Nat

WorldInv ==
  /\ working \in [Channels -> Nat]
  /\ moves \in 0 .. MaxMoves
  /\ endpoint \in [Services -> Endpoints]
  /\ \A s \in Services : Owner(endpoint[s]) = s /\ endpoint[s][2] <= moves

TypeInv == ClientInv /\ QueuesInv /\ WorldInv

(* Where a queue holds messages of a kind.                                 *)
Of(queue, kind) == {i \in DOMAIN queue : queue[i].kind = kind}

One(queue) == \A i, j \in Of(queue, "mmi.service") : i = j
None(queue) == Of(queue, "mmi.service") = {}

(* The only question under way is the one that is waited for, or else its  *)
(* answer is.                                                              *)
OnlyAnswer ==
  /\ One(requests) /\ One(answers)
  /\ None(requests) \/ None(answers)
  /\ asking = {} => None(requests) /\ None(answers)
  /\ \A i \in Of(requests, "mmi.service") : requests[i].service \in asking
  /\ \A i \in Of(answers, "mmi.service") :
       answers[i].endpoint = Unknown \/ Owner(answers[i].endpoint) \in asking

KnowInv ==
  askedLate \/
    /\ \A s \in Services : info[s] # Unknown => Owner(info[s]) = s
    /\ OnlyAnswer

OwedInv ==
  /\ asking # {} /\ Owed => owed
  /\ aborted => owed

StrayInv == strayed => askedLate \/ Cardinality(connected) > 1

IInv == TypeInv /\ KnowInv /\ OwedInv /\ StrayInv

-----------------------------------------------------------------------------
(* Queues and endpoints.                                                   *)

LEMMA EndpointKnown == \A e \in Endpoints : e # Unknown
<1>1. \A e \in Endpoints : e = <<e[1], e[2]>>
  BY DEF Endpoints
<1>2. \A x, y : <<x, y>> # <<>>
  OBVIOUS
<1> QED
  BY <1>1, <1>2 DEF Unknown

(* A message that is appended, or taken from the front.                    *)
LEMMA Appended ==
  ASSUME NEW S, NEW q \in Seq(S), NEW m \in S
  PROVE  /\ Append(q, m) \in Seq(S)
         /\ Len(q) + 1 \notin DOMAIN q
         /\ DOMAIN Append(q, m) = DOMAIN q \cup {Len(q) + 1}
         /\ \A i \in DOMAIN q : Append(q, m)[i] = q[i]
         /\ Append(q, m)[Len(q) + 1] = m
OBVIOUS

LEMMA Taken ==
  ASSUME NEW S, NEW q \in Seq(S), q # <<>>
  PROVE  /\ Tail(q) \in Seq(S) /\ Head(q) \in S
         /\ 1 \in DOMAIN q /\ Head(q) = q[1]
         /\ \A i \in DOMAIN Tail(q) : i + 1 \in DOMAIN q /\ Tail(q)[i] = q[i + 1] /\ i + 1 # 1
         /\ \A i, j \in DOMAIN Tail(q) : i + 1 = j + 1 => i = j
OBVIOUS

-----------------------------------------------------------------------------
(* Types.                                                                  *)

LEMMA InitTyped ==
  ASSUME Init
  PROVE  TypeInv
<1>1. ClientInv
  BY FS_EmptySet DEF Init, ClientInv, Nobody
<1>2. QueuesInv
  BY DEF Init, QueuesInv
<1>3. WorldInv
  BY ClientApiAssumption DEF Init, WorldInv, Endpoints, Owner
<1> QED
  BY <1>1, <1>2, <1>3 DEF TypeInv

LEMMA ReceivedTyped ==
  ASSUME QueuesInv, Received
  PROVE  /\ answers' \in Seq(Answers) /\ updates' \in Nat /\ direct' \in Nat
         /\ answers' = answers \/ (answers # <<>> /\ answers' = Tail(answers))
         /\ direct' <= direct
<1>1. answers' = answers \/ (answers # <<>> /\ answers' = Tail(answers))
  BY DEF Received, FromBroker
<1>2. answers' \in Seq(Answers)
  BY <1>1, Taken DEF QueuesInv
<1>3. updates' \in Nat
  BY DEF QueuesInv, Received, FromPublisher
<1>4. direct' \in Nat /\ direct' <= direct
  BY DEF QueuesInv, Received, FromPeer
<1> QED
  BY <1>1, <1>2, <1>3, <1>4

(* The service that is asked for.                                          *)
LEMMA Asked ==
  ASSUME ClientInv, asking # {}
  PROVE  \E s \in Services : asking = {s} /\ s = CHOOSE t \in asking : TRUE
<1>1. PICK s \in Services : asking = {s}
  BY DEF ClientInv
<1>2. s = CHOOSE t \in asking : TRUE
  BY <1>1
<1> QED
  BY <1>1, <1>2

LEMMA RememberedTyped ==
  ASSUME ClientInv, NEW s \in Services, NEW e \in Endpoints
  PROVE  /\ Remembered(s, e) \in [Services -> Endpoints \cup {Unknown}]
         /\ \A t \in Services : Remembered(s, e)[t] =
              IF t = s /\ info[s] = Unknown THEN e ELSE info[t]
BY DEF Remembered, ClientInv

LEMMA CallTyped ==
  ASSUME TypeInv, Call
  PROVE  TypeInv'
<1>0. ClientInv /\ QueuesInv /\ WorldInv
  BY DEF TypeInv
<1>1. ASSUME NEW s \in Services, Ask(s)
      PROVE  TypeInv'
  <2>1. requests' \in Seq(Requests)
    <3>1. [kind |-> "mmi.service", service |-> s] \in Requests
      BY DEF Requests
    <3> QED
      BY <1>0, <1>1, <3>1, Appended DEF Ask, QueuesInv
  <2> QED
    BY <1>0, <1>1, <2>1 DEF Ask, TypeInv, ClientInv, QueuesInv, WorldInv, world
<1>2. ASSUME NEW s \in Services, SendPersistent(s)
      PROVE  TypeInv'
  <2>1. requests' \in Seq(Requests)
    <3>1. [kind |-> "work", service |-> s] \in Requests
      BY DEF Requests
    <3> QED
      BY <1>0, <1>2, <3>1, Appended DEF SendPersistent, QueuesInv
  <2> QED
    BY <1>0, <1>2, <2>1
       DEF SendPersistent, TypeInv, ClientInv, QueuesInv, WorldInv, world, client
<1>3. ASSUME NEW s \in Services, SendDirect(s)
      PROVE  TypeInv'
  <2>1. IsFiniteSet(connected') /\ connected' = connected \cup {s}
    BY <1>0, <1>3, FS_AddElement DEF SendDirect, ClientInv
  <2>2. working' \in [Channels -> Nat]
    BY <1>0, <1>3 DEF SendDirect, WorldInv, Channels
  <2>3. UNCHANGED <<info, subscribed, asking, aborted, requests, answers, updates, direct,
                    endpoint, moves>> /\ info[s] # Unknown
    BY <1>3 DEF SendDirect, HasInfo
  <2>4. ClientInv'
    BY <1>0, <2>1, <2>3 DEF ClientInv
  <2> QED
    BY <1>0, <2>2, <2>3, <2>4 DEF TypeInv, QueuesInv, WorldInv
<1>4. CASE Subscript
  BY <1>0, <1>4 DEF Subscript, TypeInv, ClientInv, QueuesInv, WorldInv, world
<1>5. CASE Recv
  BY <1>0, <1>5, ReceivedTyped DEF Recv, TypeInv, ClientInv, QueuesInv, WorldInv, world, client
<1>6. CASE TakeAnswer
  <2>1. PICK s \in Services : asking = {s} /\ s = CHOOSE t \in asking : TRUE
    BY <1>0, <1>6, Asked DEF TakeAnswer, Nobody
  <2>2. Head(answers) \in Answers /\ Head(answers).kind = "mmi.service"
    BY <1>0, <1>6, Taken DEF TakeAnswer, QueuesInv, IsAnswer, FromBroker
  <2>3. Head(answers).endpoint \in Endpoints \cup {Unknown}
    BY <2>2 DEF Answers
  <2>4. info' = info \/ (Head(answers).endpoint \in Endpoints
                           /\ info' = Remembered(s, Head(answers).endpoint))
    BY <1>6, <2>1, <2>3 DEF TakeAnswer
  <2>5. info' \in [Services -> Endpoints \cup {Unknown}]
    BY <1>0, <2>4, RememberedTyped DEF ClientInv
  <2>6. \A t \in Services : info[t] # Unknown => info'[t] = info[t]
    BY <1>0, <2>4, RememberedTyped
  <2>7. asking' = {} /\ UNCHANGED <<connected, subscribed, aborted, requests, world>> /\ Received
    BY <1>6 DEF TakeAnswer, Nobody
  <2>8. ClientInv'
    BY <1>0, <2>5, <2>6, <2>7 DEF ClientInv
  <2> QED
    BY <1>0, <2>7, <2>8, ReceivedTyped DEF TypeInv, QueuesInv, WorldInv, world
<1>7. CASE FailAssertion
  BY <1>0, <1>7, ReceivedTyped DEF FailAssertion, TypeInv, ClientInv, QueuesInv, WorldInv, world
<1>8. CASE GiveUp
  BY <1>0, <1>8 DEF GiveUp, TypeInv, ClientInv, QueuesInv, WorldInv, world, Nobody
<1> QED
  BY <1>1, <1>2, <1>3, <1>4, <1>5, <1>6, <1>7, <1>8 DEF Call

LEMMA EnvironmentTyped ==
  ASSUME TypeInv, Environment
  PROVE  TypeInv'
<1>0. ClientInv /\ QueuesInv /\ WorldInv
  BY DEF TypeInv
<1>1. CASE AnswerQuestion
  <2>1. PICK e \in {Unknown, endpoint[Head(requests).service]} :
          answers' = Append(answers, [kind |-> "mmi.service", endpoint |-> e])
    BY <1>1 DEF AnswerQuestion
  <2>2. requests' \in Seq(Requests) /\ Head(requests) \in Requests
    BY <1>0, <1>1, Taken DEF AnswerQuestion, QueuesInv
  <2>3. e \in Endpoints \cup {Unknown}
    BY <1>0, <2>1, <2>2 DEF Requests, WorldInv
  <2>4. [kind |-> "mmi.service", endpoint |-> e] \in Answers
    BY <2>3 DEF Answers
  <2>5. answers' \in Seq(Answers)
    BY <1>0, <2>1, <2>4, Appended DEF QueuesInv
  <2> QED
    BY <1>0, <1>1, <2>2, <2>5
       DEF AnswerQuestion, TypeInv, ClientInv, QueuesInv, WorldInv, world, client
<1>2. CASE GiveToService
  <2>1. requests' \in Seq(Requests)
    BY <1>0, <1>2, Taken DEF GiveToService, QueuesInv
  <2>2. working' \in [Channels -> Nat]
    BY <1>0, <1>2 DEF GiveToService, WorldInv, Channels
  <2> QED
    BY <1>0, <1>2, <2>1, <2>2 DEF GiveToService, TypeInv, ClientInv, QueuesInv, WorldInv, client
<1>3. CASE LoseRequest
  <2>1. requests' \in Seq(Requests)
    BY <1>0, <1>3, Taken DEF LoseRequest, QueuesInv
  <2> QED
    BY <1>0, <1>3, <2>1
       DEF LoseRequest, TypeInv, ClientInv, QueuesInv, WorldInv, world, client
<1>4. CASE Publish
  BY <1>0, <1>4 DEF Publish, TypeInv, ClientInv, QueuesInv, WorldInv, world, client
<1>5. ASSUME NEW c \in Channels, Answer(c)
      PROVE  TypeInv'
  <2>1. working' \in [Channels -> Nat]
    BY <1>0, <1>5 DEF Answer, WorldInv
  <2>2. [kind |-> "work"] \in Answers
    BY DEF Answers
  <2>3. answers' \in Seq(Answers)
    BY <1>0, <1>5, <2>2, Appended DEF Answer, QueuesInv
  <2>4. direct' \in Nat
    BY <1>0, <1>5 DEF Answer, QueuesInv
  <2> QED
    BY <1>0, <1>5, <2>1, <2>3, <2>4
       DEF Answer, TypeInv, ClientInv, QueuesInv, WorldInv, client
<1>6. ASSUME NEW s \in Services, Move(s)
      PROVE  TypeInv'
  <2>1. moves \in Nat /\ moves' = moves + 1 /\ moves' \in 0 .. MaxMoves
    BY <1>0, <1>6, ClientApiAssumption DEF Move, WorldInv
  <2>2. /\ endpoint[s] \in Services \X (0 .. MaxMoves)
        /\ endpoint[s][2] <= moves
    BY <1>0 DEF WorldInv, Endpoints
  <2>3. endpoint[s][2] + 1 \in 0 .. MaxMoves /\ endpoint[s][2] + 1 <= moves'
    BY <2>1, <2>2, ClientApiAssumption
  <2>4. <<s, endpoint[s][2] + 1>> \in Endpoints
    BY <2>3 DEF Endpoints
  <2>5. endpoint' = [endpoint EXCEPT ![s] = <<s, endpoint[s][2] + 1>>]
    BY <1>6 DEF Move
  <2>6. endpoint' \in [Services -> Endpoints]
    BY <1>0, <2>4, <2>5 DEF WorldInv
  <2>7. ASSUME NEW t \in Services
        PROVE  Owner(endpoint'[t]) = t /\ endpoint'[t][2] <= moves'
    <3>1. CASE t = s
      <4>1. endpoint'[t] = <<s, endpoint[s][2] + 1>>
        BY <1>0, <2>5, <3>1 DEF WorldInv
      <4> QED
        BY <2>3, <3>1, <4>1 DEF Owner
    <3>2. CASE t # s
      <4>1. endpoint'[t] = endpoint[t] /\ endpoint[t] \in Services \X (0 .. MaxMoves)
        BY <1>0, <2>5, <3>2 DEF WorldInv, Endpoints
      <4>2. endpoint[t][2] \in Nat /\ endpoint[t][2] <= moves /\ Owner(endpoint[t]) = t
        BY <1>0, <4>1, ClientApiAssumption DEF WorldInv
      <4> QED
        BY <2>1, <4>1, <4>2
    <3> QED
      BY <3>1, <3>2
  <2>8. WorldInv'
    BY <1>0, <1>6, <2>1, <2>6, <2>7 DEF Move, WorldInv
  <2> QED
    BY <1>0, <1>6, <2>8 DEF Move, TypeInv, ClientInv, QueuesInv, client
<1> QED
  BY <1>1, <1>2, <1>3, <1>4, <1>5, <1>6 DEF Environment

LEMMA StutterTyped ==
  ASSUME TypeInv, UNCHANGED vars
  PROVE  TypeInv'
BY DEF TypeInv, ClientInv, QueuesInv, WorldInv, vars, client, world

-----------------------------------------------------------------------------
(* The question that is waited for.                                        *)

LEMMA OfAppended ==
  ASSUME NEW S, NEW q \in Seq(S), NEW m \in S, NEW kind
  PROVE  /\ Of(Append(q, m), kind) =
              IF m.kind = kind THEN Of(q, kind) \cup {Len(q) + 1} ELSE Of(q, kind)
         /\ \A i \in Of(q, kind) : Append(q, m)[i] = q[i]
         /\ Append(q, m)[Len(q) + 1] = m
<1> DEFINE t == Append(q, m)
<1>1. /\ Len(q) + 1 \notin DOMAIN q
      /\ DOMAIN t = DOMAIN q \cup {Len(q) + 1}
      /\ \A i \in DOMAIN q : t[i] = q[i]
      /\ t[Len(q) + 1] = m
  BY Appended
<1> HIDE DEF t
<1> QED
  BY <1>1 DEF Of, t

(* A message of another kind leaves the places of a kind as they are.      *)
LEMMA OfOther ==
  ASSUME NEW S, NEW q \in Seq(S), NEW m \in S, NEW kind, m.kind # kind
  PROVE  /\ Of(Append(q, m), kind) = Of(q, kind)
         /\ \A i \in Of(q, kind) : Append(q, m)[i] = q[i]
<1> DEFINE t == Append(q, m)
<1>1. /\ DOMAIN t = DOMAIN q \cup {Len(q) + 1}
      /\ \A i \in DOMAIN q : t[i] = q[i]
      /\ t[Len(q) + 1] = m
  BY Appended
<1> HIDE DEF t
<1> QED
  BY <1>1 DEF Of, t

LEMMA OfTail ==
  ASSUME NEW S, NEW q \in Seq(S), q # <<>>, NEW kind
  PROVE  /\ \A i \in Of(Tail(q), kind) : i + 1 \in Of(q, kind) /\ Tail(q)[i] = q[i + 1]
         /\ Of(q, kind) = {} => Of(Tail(q), kind) = {}
         /\ One(q) => One(Tail(q))
         /\ One(q) /\ Head(q).kind = "mmi.service" => None(Tail(q)) /\ ~ None(q)
<1>1. /\ 1 \in DOMAIN q /\ Head(q) = q[1]
      /\ \A i \in DOMAIN Tail(q) : i + 1 \in DOMAIN q /\ Tail(q)[i] = q[i + 1] /\ i + 1 # 1
      /\ \A i, j \in DOMAIN Tail(q) : i + 1 = j + 1 => i = j
  BY Taken
<1>2. \A k : \A i \in Of(Tail(q), k) : /\ i + 1 \in Of(q, k) /\ i \in DOMAIN Tail(q)
                                       /\ Tail(q)[i] = q[i + 1] /\ i + 1 # 1
  BY <1>1 DEF Of
<1>3. One(q) => One(Tail(q))
  BY <1>1, <1>2 DEF One
<1>4. Head(q).kind = "mmi.service" => 1 \in Of(q, "mmi.service")
  BY <1>1 DEF Of
<1> QED
  BY <1>2, <1>3, <1>4 DEF One, None

(* Nothing that is waited for is changed by what is no question.           *)
LEMMA OnlySame ==
  ASSUME QueuesInv, OnlyAnswer, UNCHANGED <<asking, answers>>,
         \/ requests' = requests
         \/ requests # <<>> /\ requests' = Tail(requests)
         \/ \E m \in Requests : m.kind = "work" /\ requests' = Append(requests, m)
  PROVE  OnlyAnswer'
<1>1. CASE requests' = requests
  BY <1>1 DEF OnlyAnswer
<1>2. CASE requests # <<>> /\ requests' = Tail(requests)
  <2> DEFINE q == Tail(requests)
  <2>1. /\ \A i \in Of(q, "mmi.service") :
             i + 1 \in Of(requests, "mmi.service") /\ q[i] = requests[i + 1]
        /\ None(requests) => None(q)
        /\ One(requests) => One(q)
    BY <1>2, OfTail DEF QueuesInv, None
  <2> HIDE DEF q
  <2> QED
    BY <1>2, <2>1 DEF OnlyAnswer, q
<1>3. ASSUME NEW m \in Requests, m.kind = "work", requests' = Append(requests, m)
      PROVE  OnlyAnswer'
  <2> DEFINE q == Append(requests, m)
  <2>1. requests \in Seq(Requests) /\ m \in Requests /\ m.kind # "mmi.service"
    BY <1>3 DEF QueuesInv
  <2>2. /\ Of(q, "mmi.service") = Of(requests, "mmi.service")
        /\ \A i \in Of(requests, "mmi.service") : q[i] = requests[i]
    BY <2>1, OfOther
  <2>3. requests' = q
    BY <1>3
  <2> HIDE DEF q
  <2> QED
    BY <2>2, <2>3 DEF OnlyAnswer, One, None
<1> QED
  BY <1>1, <1>2, <1>3

LEMMA OnlySameAnswers ==
  ASSUME QueuesInv, OnlyAnswer, UNCHANGED <<asking, requests>>,
         \/ answers' = answers
         \/ answers # <<>> /\ answers' = Tail(answers)
         \/ \E m \in Answers : m.kind = "work" /\ answers' = Append(answers, m)
  PROVE  OnlyAnswer'
<1>1. CASE answers' = answers
  BY <1>1 DEF OnlyAnswer
<1>2. CASE answers # <<>> /\ answers' = Tail(answers)
  <2> DEFINE q == Tail(answers)
  <2>1. /\ \A i \in Of(q, "mmi.service") :
             i + 1 \in Of(answers, "mmi.service") /\ q[i] = answers[i + 1]
        /\ None(answers) => None(q)
        /\ One(answers) => One(q)
    BY <1>2, OfTail DEF QueuesInv, None
  <2> HIDE DEF q
  <2> QED
    BY <1>2, <2>1 DEF OnlyAnswer, q
<1>3. ASSUME NEW m \in Answers, m.kind = "work", answers' = Append(answers, m)
      PROVE  OnlyAnswer'
  <2> DEFINE q == Append(answers, m)
  <2>1. answers \in Seq(Answers) /\ m \in Answers /\ m.kind # "mmi.service"
    BY <1>3 DEF QueuesInv
  <2>2. /\ Of(q, "mmi.service") = Of(answers, "mmi.service")
        /\ \A i \in Of(answers, "mmi.service") : q[i] = answers[i]
    BY <2>1, OfOther
  <2>3. answers' = q
    BY <1>3
  <2> HIDE DEF q
  <2> QED
    BY <2>2, <2>3 DEF OnlyAnswer, One, None
<1> QED
  BY <1>1, <1>2, <1>3

LEMMA AskOnly ==
  ASSUME TypeInv, OnlyAnswer, NEW s \in Services, Ask(s)
  PROVE  OnlyAnswer'
<1> DEFINE m == [kind |-> "mmi.service", service |-> s]
           q == Append(requests, m)
<1>1. m \in Requests /\ m.kind = "mmi.service" /\ m.service = s
  BY DEF Requests
<1>2. None(requests) /\ None(answers) /\ requests' = q /\ answers' = answers /\ asking' = {s}
  BY DEF Ask, Free, Nobody, OnlyAnswer
<1> HIDE DEF m
<1>3. Of(q, "mmi.service") = {Len(requests) + 1} /\ q[Len(requests) + 1] = m
  <2>1. /\ Of(q, "mmi.service") = IF m.kind = "mmi.service"
                                    THEN Of(requests, "mmi.service") \cup {Len(requests) + 1}
                                    ELSE Of(requests, "mmi.service")
        /\ q[Len(requests) + 1] = m
    BY <1>1, OfAppended DEF TypeInv, QueuesInv
  <2> QED
    BY <1>1, <1>2, <2>1 DEF None
<1> HIDE DEF q
<1> QED
  BY <1>1, <1>2, <1>3 DEF OnlyAnswer, One, None

LEMMA AnswerQuestionOnly ==
  ASSUME TypeInv, OnlyAnswer, AnswerQuestion
  PROVE  OnlyAnswer'
<1>0. QueuesInv /\ WorldInv
  BY DEF TypeInv
<1>1. PICK e \in {Unknown, endpoint[Head(requests).service]} :
        answers' = Append(answers, [kind |-> "mmi.service", endpoint |-> e])
  BY DEF AnswerQuestion
<1> DEFINE m == [kind |-> "mmi.service", endpoint |-> e]
           q == Append(answers, m)
<1>2. /\ requests # <<>> /\ Head(requests).kind = "mmi.service" /\ requests' = Tail(requests)
      /\ answers' = q /\ asking' = asking
  BY <1>1 DEF AnswerQuestion, client
<1>3. None(Tail(requests)) /\ ~ None(requests)
  BY <1>0, <1>2, OfTail DEF OnlyAnswer, QueuesInv
<1>4. None(answers) /\ asking # {}
  BY <1>3 DEF OnlyAnswer
<1>5. Head(requests) \in Requests /\ 1 \in DOMAIN requests /\ Head(requests) = requests[1]
  BY <1>0, <1>2, Taken DEF QueuesInv
<1>6. Head(requests).service \in asking /\ Head(requests).service \in Services
  BY <1>2, <1>5 DEF OnlyAnswer, Of, Requests
<1>7. e = Unknown \/ Owner(e) \in asking
  BY <1>0, <1>6 DEF WorldInv
<1>8. m \in Answers /\ m.kind = "mmi.service" /\ m.endpoint = e
  BY <1>0, <1>6 DEF Answers, WorldInv
<1> HIDE DEF m
<1>9. Of(q, "mmi.service") = {Len(answers) + 1} /\ q[Len(answers) + 1] = m
  <2>1. /\ Of(q, "mmi.service") = IF m.kind = "mmi.service"
                                    THEN Of(answers, "mmi.service") \cup {Len(answers) + 1}
                                    ELSE Of(answers, "mmi.service")
        /\ q[Len(answers) + 1] = m
    BY <1>0, <1>8, OfAppended DEF QueuesInv
  <2> QED
    BY <1>4, <1>8, <2>1 DEF None
<1> HIDE DEF q
<1> QED
  BY <1>2, <1>3, <1>4, <1>7, <1>8, <1>9 DEF OnlyAnswer, One, None

(* The answer that is taken is the one to the question that was asked.     *)
LEMMA TakeAnswerKnows ==
  ASSUME TypeInv, OnlyAnswer, \A s \in Services : info[s] # Unknown => Owner(info[s]) = s,
         TakeAnswer
  PROVE  OnlyAnswer' /\ \A s \in Services : info'[s] # Unknown => Owner(info'[s]) = s
<1> DEFINE m == Head(answers)
<1>0. ClientInv /\ QueuesInv
  BY DEF TypeInv
<1>1. /\ answers # <<>> /\ m.kind = "mmi.service" /\ answers' = Tail(answers)
      /\ asking' = {} /\ requests' = requests
      /\ info' = IF m.endpoint = Unknown THEN info
                 ELSE Remembered(CHOOSE s \in asking : TRUE, m.endpoint)
  BY DEF TakeAnswer, FromBroker, IsAnswer, Received, Nobody
<1>2. None(answers') /\ ~ None(answers)
  BY <1>0, <1>1, OfTail DEF OnlyAnswer, QueuesInv
<1>3. None(requests)
  BY <1>2 DEF OnlyAnswer
<1>4. OnlyAnswer'
  BY <1>1, <1>2, <1>3 DEF OnlyAnswer, One, None
<1>5. PICK s \in Services : asking = {s} /\ s = CHOOSE t \in asking : TRUE
  BY <1>0, Asked DEF TakeAnswer, Nobody
<1>6. m \in Answers /\ 1 \in DOMAIN answers /\ m = answers[1]
  BY <1>0, <1>1, Taken DEF QueuesInv
<1>7. m.endpoint = Unknown \/ Owner(m.endpoint) = s
  BY <1>1, <1>5, <1>6 DEF OnlyAnswer, Of
<1>8. m.endpoint \in Endpoints \cup {Unknown}
  BY <1>1, <1>6 DEF Answers
<1> HIDE DEF m
<1>9. ASSUME NEW t \in Services, info'[t] # Unknown
      PROVE  Owner(info'[t]) = t
  <2>1. CASE m.endpoint = Unknown
    BY <1>1, <1>9, <2>1
  <2>2. CASE m.endpoint # Unknown
    <3>1. info'[t] = IF t = s /\ info[s] = Unknown THEN m.endpoint ELSE info[t]
      BY <1>0, <1>1, <1>5, <1>8, <2>2, RememberedTyped
    <3> QED
      BY <1>7, <1>9, <2>2, <3>1
  <2> QED
    BY <2>1, <2>2
<1> QED
  BY <1>4, <1>9

LEMMA NextKnows == TypeInv /\ KnowInv /\ [Next]_vars => KnowInv'
<1> SUFFICES ASSUME TypeInv, KnowInv, [Next]_vars
             PROVE  KnowInv'
  OBVIOUS
<1>0. QueuesInv
  BY DEF TypeInv
<1>1. CASE askedLate
  <2>1. askedLate'
    BY <1>1 DEF Next, Call, Environment, Ask, SendPersistent, SendDirect, Subscript, Recv,
       TakeAnswer, FailAssertion, GiveUp, AnswerQuestion, GiveToService, LoseRequest, Publish,
       Answer, Move, history, vars
  <2> QED
    BY <2>1 DEF KnowInv
<1>2. CASE ~ askedLate
  <2> DEFINE Right == \A s \in Services : info[s] # Unknown => Owner(info[s]) = s
  <2>0. OnlyAnswer /\ Right
    BY <1>2 DEF KnowInv
  <2> SUFFICES ASSUME TRUE
               PROVE  askedLate' \/ (Right' /\ OnlyAnswer')
    BY DEF KnowInv
  <2>1. ASSUME NEW s \in Services, Ask(s)
        PROVE  Right' /\ OnlyAnswer'
    BY <2>0, <2>1, AskOnly DEF Ask
  <2>2. ASSUME NEW s \in Services, SendPersistent(s)
        PROVE  Right' /\ OnlyAnswer'
    <3>1. [kind |-> "work", service |-> s] \in Requests
      BY DEF Requests
    <3> QED
      BY <1>0, <2>0, <2>2, <3>1, OnlySame DEF SendPersistent, client
  <2>3. ASSUME NEW s \in Services, SendDirect(s)
        PROVE  Right' /\ OnlyAnswer'
    BY <1>0, <2>0, <2>3, OnlySame DEF SendDirect
  <2>4. CASE Subscript
    BY <1>0, <2>0, <2>4, OnlySame DEF Subscript
  <2>5. CASE Recv \/ FailAssertion
    <3>1. answers' = answers \/ (answers # <<>> /\ answers' = Tail(answers))
      BY <1>0, <2>5, ReceivedTyped DEF Recv, FailAssertion
    <3>2. UNCHANGED <<asking, requests, info>>
      BY <2>5 DEF Recv, FailAssertion, client
    <3> QED
      BY <1>0, <2>0, <3>1, <3>2, OnlySameAnswers
  <2>6. CASE TakeAnswer
    BY <2>0, <2>6, TakeAnswerKnows
  <2>7. CASE GiveUp
    BY <2>7 DEF GiveUp
  <2>8. CASE AnswerQuestion
    BY <2>0, <2>8, AnswerQuestionOnly DEF AnswerQuestion, client
  <2>9. CASE GiveToService \/ LoseRequest
    BY <1>0, <2>0, <2>9, OnlySame DEF GiveToService, LoseRequest, client
  <2>10. CASE Publish
    BY <1>0, <2>0, <2>10, OnlySame DEF Publish, client
  <2>11. ASSUME NEW c \in Channels, Answer(c)
         PROVE  Right' /\ OnlyAnswer'
    <3>1. [kind |-> "work"] \in Answers
      BY DEF Answers
    <3> QED
      BY <1>0, <2>0, <2>11, <3>1, OnlySameAnswers DEF Answer, client
  <2>12. ASSUME NEW s \in Services, Move(s)
         PROVE  Right' /\ OnlyAnswer'
    BY <1>0, <2>0, <2>12, OnlySame DEF Move, client
  <2>13. CASE UNCHANGED vars
    BY <1>0, <2>0, <2>13, OnlySame DEF vars, client
  <2> QED
    BY <2>1, <2>2, <2>3, <2>4, <2>5, <2>6, <2>7, <2>8, <2>9, <2>10, <2>11, <2>12, <2>13
       DEF Next, Call, Environment
<1> QED
  BY <1>1, <1>2

-----------------------------------------------------------------------------
(* What may still come.                                                    *)

(* What is owed, by the queues.                                            *)
LEMMA OwedBy ==
  Owed <=> \/ subscribed
           \/ direct > 0
           \/ \E c \in Channels : working[c] > 0
           \/ Of(requests, "work") # {}
           \/ Of(answers, "work") # {}
BY DEF Owed, Of

(* No step of the environment makes a client be owed more.                 *)
LEMMA EnvironmentOwes ==
  ASSUME TypeInv, Environment, Owed'
  PROVE  Owed
<1>0. QueuesInv /\ WorldInv
  BY DEF TypeInv
<1>1. Owed' <=> \/ subscribed'
                \/ direct' > 0
                \/ \E c \in Channels : working'[c] > 0
                \/ Of(requests', "work") # {}
                \/ Of(answers', "work") # {}
  BY DEF Owed, Of
<1>2. requests # <<>> /\ requests' = Tail(requests) =>
        (Of(requests', "work") # {} => Of(requests, "work") # {})
  BY <1>0, OfTail DEF QueuesInv
<1>3. CASE AnswerQuestion
  <2>1. PICK e \in {Unknown, endpoint[Head(requests).service]} :
          answers' = Append(answers, [kind |-> "mmi.service", endpoint |-> e])
    BY <1>3 DEF AnswerQuestion
  <2> DEFINE m == [kind |-> "mmi.service", endpoint |-> e]
  <2>2. requests # <<>> /\ requests' = Tail(requests)
    BY <1>3 DEF AnswerQuestion
  <2>3. Head(requests).service \in Services
    <3>1. Head(requests) \in Requests
      BY <1>0, <2>2, Taken DEF QueuesInv
    <3> QED
      BY <3>1 DEF Requests
  <2>4. m \in Answers /\ m.kind # "work"
    BY <1>0, <2>3 DEF Answers, WorldInv
  <2> HIDE DEF m
  <2>5. Of(Append(answers, m), "work") =
          IF m.kind = "work" THEN Of(answers, "work") \cup {Len(answers) + 1}
                             ELSE Of(answers, "work")
    BY <1>0, <2>4, OfAppended DEF QueuesInv
  <2>6. Of(answers', "work") = Of(answers, "work")
    BY <2>1, <2>4, <2>5 DEF m
  <2>7. UNCHANGED <<subscribed, direct, working>>
    BY <1>3 DEF AnswerQuestion, client, world
  <2> QED
    BY <1>1, <1>2, <2>2, <2>6, <2>7, OwedBy
<1>4. CASE GiveToService
  <2>1. Head(requests).kind = "work" /\ 1 \in DOMAIN requests /\ Head(requests) = requests[1]
    BY <1>0, <1>4, Taken DEF GiveToService, QueuesInv
  <2>2. 1 \in Of(requests, "work")
    BY <2>1 DEF Of
  <2> QED
    BY <2>2, OwedBy
<1>5. CASE LoseRequest
  BY <1>1, <1>2, <1>5, OwedBy DEF LoseRequest, client, world
<1>6. CASE Publish
  BY <1>1, <1>6, OwedBy DEF Publish, client, world
<1>7. ASSUME NEW c \in Channels, Answer(c)
      PROVE  Owed
  BY <1>7, OwedBy DEF Answer
<1>8. ASSUME NEW s \in Services, Move(s)
      PROVE  Owed
  BY <1>1, <1>8, OwedBy DEF Move, client
<1> QED
  BY <1>3, <1>4, <1>5, <1>6, <1>7, <1>8 DEF Environment

(* What comes and is no answer was owed.                                   *)
LEMMA FailureOwed ==
  ASSUME TypeInv, FailAssertion
  PROVE  Owed
<1>0. QueuesInv
  BY DEF TypeInv
<1>1. CASE FromBroker
  <2>1. Head(answers) \in Answers /\ 1 \in DOMAIN answers /\ Head(answers) = answers[1]
    BY <1>0, <1>1, Taken DEF FromBroker, QueuesInv
  <2>2. Head(answers).kind # "mmi.service"
    BY <1>1 DEF FailAssertion, IsAnswer
  <2>3. Head(answers).kind = "work"
    BY <2>1, <2>2 DEF Answers
  <2>4. 1 \in Of(answers, "work")
    BY <2>1, <2>3 DEF Of
  <2> QED
    BY <2>4, OwedBy
<1>2. CASE FromPublisher
  BY <1>2, OwedBy DEF FromPublisher
<1>3. CASE FromPeer
  BY <1>3, OwedBy DEF FromPeer
<1> QED
  BY <1>1, <1>2, <1>3 DEF FailAssertion, Received, TimedOut

LEMMA NextOwes == TypeInv /\ OwedInv /\ [Next]_vars => OwedInv'
<1> SUFFICES ASSUME TypeInv, OwedInv, [Next]_vars
             PROVE  OwedInv'
  OBVIOUS
<1>0. QueuesInv
  BY DEF TypeInv
<1>1. ASSUME NEW s \in Services, Ask(s)
      PROVE  OwedInv'
  <2> DEFINE m == [kind |-> "mmi.service", service |-> s]
  <2>1. owed' = Owed /\ ~ aborted'
    BY <1>1 DEF Ask, Free
  <2>2. m \in Requests /\ m.kind # "work" /\ requests' = Append(requests, m)
    BY <1>1 DEF Requests, Ask
  <2>3. UNCHANGED <<subscribed, direct, working, answers>>
    BY <1>1 DEF Ask, world
  <2> HIDE DEF m
  <2>4. Of(Append(requests, m), "work") =
          IF m.kind = "work" THEN Of(requests, "work") \cup {Len(requests) + 1}
                             ELSE Of(requests, "work")
    BY <1>0, <2>2, OfAppended DEF QueuesInv
  <2>5. Of(requests', "work") = Of(requests, "work")
    BY <2>2, <2>4
  <2>6. Owed' => Owed
    BY <2>3, <2>5 DEF Owed, Of
  <2> QED
    BY <2>1, <2>6 DEF OwedInv
<1>2. ASSUME NEW s \in Services, SendPersistent(s) \/ SendDirect(s)
      PROVE  OwedInv'
    BY <1>2 DEF SendPersistent, SendDirect, Free, Nobody, client, history, OwedInv
<1>3. CASE Subscript \/ Recv
  BY <1>3 DEF Subscript, Recv, Free, Nobody, client, history, OwedInv
<1>4. CASE TakeAnswer \/ GiveUp
  BY <1>4 DEF TakeAnswer, GiveUp, Nobody, history, OwedInv
<1>5. CASE FailAssertion
  <2>1. owed
    BY <1>5, FailureOwed DEF OwedInv, FailAssertion, Nobody
  <2> QED
    BY <1>5, <2>1 DEF FailAssertion, history, OwedInv
<1>6. CASE Environment
  <2>1. UNCHANGED <<asking, aborted, owed>>
    BY <1>6 DEF Environment, AnswerQuestion, GiveToService, LoseRequest, Publish, Answer, Move,
       client, history
  <2>2. Owed' => Owed
    BY <1>6, EnvironmentOwes
  <2> QED
    BY <2>1, <2>2 DEF OwedInv
<1>7. CASE UNCHANGED vars
  <2>1. UNCHANGED <<asking, aborted, owed>> /\ Owed' = Owed
    BY <1>7 DEF vars, client, world, history, Owed
  <2> QED
    BY <2>1 DEF OwedInv
<1> QED
  BY <1>1, <1>2, <1>3, <1>4, <1>5, <1>6, <1>7 DEF Next, Call

-----------------------------------------------------------------------------
(* Direct messages.                                                        *)

LEMMA SendDirectReaches ==
  ASSUME TypeInv, KnowInv, StrayInv, NEW s \in Services, SendDirect(s)
  PROVE  StrayInv'
<1>0. ClientInv
  BY DEF TypeInv
<1>1. /\ connected' = connected \cup {s} /\ askedLate' = askedLate
      /\ info[s] # Unknown /\ IsFiniteSet(connected) /\ connected \subseteq Services
  BY <1>0 DEF SendDirect, HasInfo, ClientInv
<1>2. PICK t \in connected' : strayed' = (strayed \/ Owner(info[t]) # s)
  BY DEF SendDirect
<1>3. IsFiniteSet(connected')
  BY <1>1, FS_AddElement
<1>4. CASE strayed /\ ~ askedLate
  <2>1. Cardinality(connected) > 1 /\ Cardinality(connected) \in Nat
    BY <1>1, <1>4, FS_CardinalityType DEF StrayInv
  <2>2. Cardinality(connected) <= Cardinality(connected') /\ Cardinality(connected') \in Nat
    BY <1>1, <1>3, FS_Subset, FS_CardinalityType
  <2> QED
    BY <2>1, <2>2 DEF StrayInv
<1>5. CASE Owner(info[t]) # s /\ ~ askedLate
  <2>1. t \in Services /\ info[t] # Unknown
    BY <1>0, <1>1, <1>2 DEF ClientInv
  <2>2. Owner(info[t]) = t
    BY <1>5, <2>1 DEF KnowInv
  <2>3. t # s /\ {s, t} \subseteq connected'
    BY <1>1, <1>5, <2>2
  <2>4. IsFiniteSet({s}) /\ Cardinality({s}) = 1
    BY FS_Singleton
  <2>5. Cardinality({s} \cup {t}) = 2 /\ IsFiniteSet({s} \cup {t})
    BY <2>3, <2>4, FS_AddElement
  <2>6. Cardinality({s} \cup {t}) <= Cardinality(connected')
    BY <1>3, <2>3, FS_Subset
  <2>7. Cardinality(connected') \in Nat
    BY <1>3, FS_CardinalityType
  <2>8. Cardinality(connected') > 1
    BY <2>5, <2>6, <2>7
  <2> QED
    BY <2>8 DEF StrayInv
<1> QED
  BY <1>1, <1>2, <1>4, <1>5 DEF StrayInv

LEMMA NextStrays == TypeInv /\ KnowInv /\ StrayInv /\ [Next]_vars => StrayInv'
<1> SUFFICES ASSUME TypeInv, KnowInv, StrayInv, [Next]_vars
             PROVE  StrayInv'
  OBVIOUS
<1>1. CASE \E s \in Services : SendDirect(s)
  BY <1>1, SendDirectReaches
<1>2. CASE ~ \E s \in Services : SendDirect(s)
  <2>1. UNCHANGED <<strayed, connected>>
    BY <1>2 DEF Next, Call, Environment, Ask, SendPersistent, Subscript, Recv,
       TakeAnswer, FailAssertion, GiveUp, AnswerQuestion, GiveToService, LoseRequest, Publish,
       Answer, Move, client, history, vars
  <2>2. askedLate' = askedLate \/ askedLate' = TRUE
    BY <1>2 DEF Next, Call, Environment, Ask, SendPersistent, Subscript, Recv,
       TakeAnswer, FailAssertion, GiveUp, AnswerQuestion, GiveToService, LoseRequest, Publish,
       Answer, Move, client, history, vars
  <2> QED
    BY <2>1, <2>2 DEF StrayInv
<1> QED
  BY <1>1, <1>2

-----------------------------------------------------------------------------
(* The invariant, and what follows from it.                                *)

LEMMA InitInv == Init => IInv
<1> SUFFICES ASSUME Init
             PROVE  IInv
  OBVIOUS
<1>1. /\ \A s \in Services : info[s] = Unknown
      /\ requests = <<>> /\ answers = <<>> /\ asking = {}
  BY DEF Init, Nobody
<1>2. Of(requests, "mmi.service") = {} /\ Of(answers, "mmi.service") = {}
  BY <1>1 DEF Of
<1>3. KnowInv
  BY <1>1, <1>2 DEF KnowInv, OnlyAnswer, One, None
<1>4. OwedInv /\ StrayInv
  BY DEF Init, Nobody, OwedInv, StrayInv
<1> QED
  BY <1>3, <1>4, InitTyped DEF IInv

LEMMA NextInv == IInv /\ [Next]_vars => IInv'
BY CallTyped, EnvironmentTyped, StutterTyped, NextKnows, NextOwes, NextStrays DEF IInv, Next

LEMMA Invariance == Spec => []IInv
BY InitInv, NextInv, PTL DEF Spec

(* The variables have their types, and the program waits for one answer at *)
(* most.                                                                   *)
THEOREM TypeCorrect == Spec => []TypeOK
<1>1. ASSUME IInv
      PROVE  TypeOK
  <2>0. ClientInv /\ QueuesInv /\ WorldInv
    BY <1>1 DEF IInv, TypeInv
  <2>1. asking \subseteq Services /\ Cardinality(asking) <= 1
    <3>1. CASE asking = {}
      BY <3>1, FS_EmptySet
    <3>2. ASSUME NEW s \in Services, asking = {s}
          PROVE  asking \subseteq Services /\ Cardinality(asking) <= 1
      <4>1. Cardinality({s}) = 1
        BY FS_Singleton
      <4> QED
        BY <3>2, <4>1
    <3> QED
      BY <2>0, <3>1, <3>2 DEF ClientInv
  <2>2. \A i \in DOMAIN requests : requests[i] \in Requests
    BY <2>0 DEF QueuesInv
  <2>3. \A i \in DOMAIN answers : answers[i] \in Answers
    BY <2>0 DEF QueuesInv
  <2>4. \A i \in DOMAIN requests : requests[i].kind \in {"mmi.service", "work"}
    BY <2>2 DEF Requests
  <2>5. \A i \in DOMAIN answers : answers[i].kind \in {"mmi.service", "work"}
    BY <2>3 DEF Answers
  <2> QED
    BY <2>0, <2>1, <2>4, <2>5 DEF TypeOK, ClientInv, QueuesInv, WorldInv
<1> QED
  BY <1>1, Invariance, PTL

(* A client that never gave up waiting remembers no service with the       *)
(* endpoint of another one.                                                *)
THEOREM EndpointRight == Spec => []EndpointIsOfService
<1>1. IInv => EndpointIsOfService
  BY DEF IInv, KnowInv, EndpointIsOfService
<1> QED
  BY <1>1, Invariance, PTL

(* The assertion of ask_service_info() fails only when something was owed  *)
(* to the client as it asked.                                              *)
THEOREM AbortOwed == Spec => []AbortsWhenOwed
<1>1. IInv => AbortsWhenOwed
  BY DEF IInv, OwedInv, AbortsWhenOwed
<1> QED
  BY <1>1, Invariance, PTL

(* A direct message goes to another service only when the client talks to  *)
(* several, or gave up waiting once.                                       *)
THEOREM DirectReaches == Spec => []DirectReachesService
<1>1. IInv => DirectReachesService
  BY DEF IInv, StrayInv, DirectReachesService
<1> QED
  BY <1>1, Invariance, PTL

=============================================================================
