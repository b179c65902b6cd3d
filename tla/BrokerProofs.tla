---------------------------- MODULE BrokerProofs ----------------------------
(***************************************************************************)
(* Type correctness and the safety invariants of the broker, for any       *)
(* number of services, workers and clients and for any periods.            *)
(*                                                                         *)
(* The invariants are not inductive one by one: a REPORT keeps the letters *)
(* and the workers each other's inverse only because ids are distinct, and *)
(* only because a waiting letter refers to itself.  BInv is their          *)
(* conjunction, of a broker record; a lemma says of every operation of the *)
(* database that it keeps BInv, one of every handler that each of its      *)
(* outcomes has BInv, and the theorems follow for the specification.       *)
(*                                                                         *)
(* The last part shows that the broker implements LetterQueue.             *)
(***************************************************************************)
EXTENDS Broker, TLAPS, WellFoundedInduction

(* A set of naturals that is not empty has a least member.                 *)
Below == {ss \in Nat \X Nat : ss[1] < ss[2]}

LEMMA LeastNatural ==
  ASSUME NEW T, T \subseteq Nat, T # {}
  PROVE  \E n \in T : \A m \in T : n <= m
<1>1. IsWellFoundedOn(Below, Nat)
  BY NatLessThanWellFounded DEF OpToRel, Below
<1>2. \E n \in T : \A m \in T : ~ (<<m, n>> \in Below)
  BY <1>1, WFMin
<1>3. ASSUME NEW n \in T, NEW m \in T, <<m, n>> \notin Below
      PROVE  n <= m
  BY <1>3 DEF Below
<1> QED
  BY <1>2, <1>3

-----------------------------------------------------------------------------
(* The invariant of a broker record.                                       *)

BInv(b) ==
  /\ BrokerType(b)
  /\ b.fault # "letter_of_other_service"
  /\ WorkersRegistered(b)
  /\ DistinctIds(b)
  /\ WaitingRefersToItself(b)
  /\ AssignedHasHolder(b)
  /\ HolderHasLetter(b)
  /\ OccupiedHasLetter(b)

(* All of BInv that speaks of rows.                                        *)
RowInv(b) ==
  /\ WorkersRegistered(b)
  /\ DistinctIds(b)
  /\ WaitingRefersToItself(b)
  /\ AssignedHasHolder(b)
  /\ HolderHasLetter(b)
  /\ OccupiedHasLetter(b)

-----------------------------------------------------------------------------
(* The operations of the database.                                         *)

(* A message sent leaves the tables alone.                                 *)
LEMMA SendInv ==
  ASSUME NEW b, BInv(b), NEW m \in Messages
  PROVE  BInv(Send(b, m))
<1> DEFINE d == Send(b, m)
<1>1. /\ d.service = b.service /\ d.worker = b.worker /\ d.letter = b.letter
      /\ d.lastId = b.lastId /\ d.fault = b.fault /\ d.out = Append(b.out, m)
  BY DEF BInv, BrokerType, Send
<1>2. d = [service |-> d.service, worker |-> d.worker, letter |-> d.letter,
          lastId |-> d.lastId, out |-> d.out, fault |-> d.fault]
  BY DEF BInv, BrokerType, Send
<1>3. d.out \in Seq(Messages)
  BY <1>1 DEF BInv, BrokerType
<1>4. BrokerType(d)
  BY <1>1, <1>2, <1>3 DEF BInv, BrokerType
<1> QED
  BY <1>1, <1>4 DEF BInv, WorkersRegistered, DistinctIds, WaitingRefersToItself,
     AssignedHasHolder, HolderHasLetter, OccupiedHasLetter, Known, Registered

(* So does the assertion of release(), which stops the broker.             *)
LEMMA FaultInv ==
  ASSUME NEW b, BInv(b)
  PROVE  BInv(Fault(b, "release_null"))
<1> DEFINE d == Fault(b, "release_null")
<1>1. /\ d.service = b.service /\ d.worker = b.worker /\ d.letter = b.letter
      /\ d.lastId = b.lastId /\ d.fault = "release_null" /\ d.out = b.out
  BY DEF BInv, BrokerType, Fault
<1>2. d = [service |-> d.service, worker |-> d.worker, letter |-> d.letter,
          lastId |-> d.lastId, out |-> d.out, fault |-> d.fault]
  BY DEF BInv, BrokerType, Fault
<1>3. BrokerType(d)
  BY <1>1, <1>2 DEF BInv, BrokerType, Faults
<1> QED
  BY <1>1, <1>3 DEF BInv, WorkersRegistered, DistinctIds, WaitingRefersToItself,
     AssignedHasHolder, HolderHasLetter, OccupiedHasLetter, Known, Registered

(* Registering a service, or giving it another endpoint, unregisters none. *)
LEMMA EndpointInv ==
  ASSUME NEW b, BInv(b), NEW s \in Services, NEW ep \in Endpoints
  PROVE  LET d == [b EXCEPT !.service[s] = ep]
         IN  BInv(d) /\ Registered(d, s) /\ d.worker = b.worker
<1> DEFINE d == [b EXCEPT !.service[s] = ep]
<1>0. b = [service |-> b.service, worker |-> b.worker, letter |-> b.letter,
          lastId |-> b.lastId, out |-> b.out, fault |-> b.fault]
  BY DEF BInv, BrokerType
<1>1. /\ d.service = [b.service EXCEPT ![s] = ep]
      /\ d.worker = b.worker /\ d.letter = b.letter
      /\ d.lastId = b.lastId /\ d.fault = b.fault /\ d.out = b.out
  BY DEF BInv, BrokerType
<1>2. d = [service |-> d.service, worker |-> d.worker, letter |-> d.letter,
          lastId |-> d.lastId, out |-> d.out, fault |-> d.fault]
  BY <1>0
<1>3. d.service \in [Services -> Endpoints \cup {NoEndpoint}]
  BY <1>1 DEF BInv, BrokerType
<1>4. BrokerType(d)
  BY <1>1, <1>2, <1>3 DEF BInv, BrokerType
<1>5. \A z \in Services : Registered(b, z) \/ z = s => Registered(d, z)
  BY <1>1, BrokerAssumption DEF BInv, BrokerType, Registered
<1> HIDE DEF d
<1>6. WorkersRegistered(d)
  BY <1>1, <1>5 DEF BInv, WorkersRegistered, Known
<1>7. BInv(d)
  BY <1>1, <1>4, <1>6 DEF BInv, DistinctIds, WaitingRefersToItself,
     AssignedHasHolder, HolderHasLetter, OccupiedHasLetter, Known
<1> QED
  BY <1>1, <1>5, <1>7 DEF d

(* Disarming workers that have a row keeps the references of all of them.  *)
LEMMA DisarmInv ==
  ASSUME NEW b, BInv(b), NEW d, BrokerType(d),
         d.service = b.service, d.letter = b.letter, d.lastId = b.lastId,
         d.fault = b.fault,
         \A w \in Workers :
           \/ d.worker[w] = b.worker[w]
           \/ Known(b, w) /\ d.worker[w] = [b.worker[w] EXCEPT !.state = "DISARMED"]
  PROVE  BInv(d)
<1>1. \A w \in Workers : /\ d.worker[w].id = b.worker[w].id
                         /\ d.worker[w].letter = b.worker[w].letter
                         /\ d.worker[w].service = b.worker[w].service
                         /\ d.worker[w].state = "OCCUPIED" => b.worker[w].state = "OCCUPIED"
                         /\ ~ Known(b, w) => d.worker[w] = b.worker[w]
  <2>1. SUFFICES ASSUME NEW w \in Workers
                 PROVE  /\ d.worker[w].id = b.worker[w].id
                        /\ d.worker[w].letter = b.worker[w].letter
                        /\ d.worker[w].service = b.worker[w].service
                        /\ d.worker[w].state = "OCCUPIED"
                             => b.worker[w].state = "OCCUPIED"
                        /\ ~ Known(b, w) => d.worker[w] = b.worker[w]
    OBVIOUS
  <2>2. b.worker[w] \in WorkerRow
    BY DEF BInv, BrokerType
  <2>3. \/ d.worker[w] = b.worker[w]
        \/ Known(b, w) /\ d.worker[w] = [b.worker[w] EXCEPT !.state = "DISARMED"]
    OBVIOUS
  <2> QED
    BY <2>2, <2>3 DEF WorkerRow
<1>2. WorkersRegistered(d)
  BY <1>1 DEF BInv, WorkersRegistered, Known, Registered
<1>3. DistinctIds(d)
  BY <1>1 DEF BInv, DistinctIds, Known
<1>4. WaitingRefersToItself(d)
  BY DEF BInv, WaitingRefersToItself
<1>5. AssignedHasHolder(d)
  BY <1>1 DEF BInv, AssignedHasHolder, Known
<1>6. HolderHasLetter(d) /\ OccupiedHasLetter(d)
  BY <1>1 DEF BInv, HolderHasLetter, OccupiedHasLetter, Known
<1> QED
  BY <1>2, <1>3, <1>4, <1>5, <1>6 DEF BInv

LEMMA RemoveWorkerInv ==
  ASSUME NEW b, BInv(b), NEW w \in Workers, Known(b, w)
  PROVE  BInv(RemoveWorker(b, w))
<1> DEFINE d == RemoveWorker(b, w)
<1>1. /\ d.service = b.service /\ d.letter = b.letter /\ d.out = b.out
      /\ d.lastId = b.lastId /\ d.fault = b.fault
      /\ d.worker = [b.worker EXCEPT ![w] = [b.worker[w] EXCEPT !.state = "DISARMED"]]
  BY DEF BInv, BrokerType, RemoveWorker
<1>2. d = [service |-> d.service, worker |-> d.worker, letter |-> d.letter,
          lastId |-> d.lastId, out |-> d.out, fault |-> d.fault]
  BY DEF BInv, BrokerType, RemoveWorker
<1>3. d.worker \in [Workers -> WorkerRow]
  <2>1. b.worker \in [Workers -> WorkerRow]
    BY DEF BInv, BrokerType
  <2>2. [b.worker[w] EXCEPT !.state = "DISARMED"] \in WorkerRow
    BY <2>1 DEF WorkerRow, WorkerStates
  <2> HIDE DEF d
  <2> QED
    BY <1>1, <2>1, <2>2
<1>4. \A v \in Workers : d.worker[v].id = b.worker[v].id
  BY <1>1 DEF BInv, BrokerType, WorkerRow
<1>5. BrokerType(d)
  BY <1>1, <1>2, <1>3, <1>4 DEF BInv, BrokerType
<1>6. \A v \in Workers :
           \/ d.worker[v] = b.worker[v]
           \/ Known(b, v) /\ d.worker[v] = [b.worker[v] EXCEPT !.state = "DISARMED"]
  BY <1>1 DEF BInv, BrokerType
<1> HIDE DEF d
<1>7. BInv(d)
  BY <1>1, <1>5, <1>6, DisarmInv
<1> QED
  BY <1>7 DEF d

LEMMA PurgeInv ==
  ASSUME NEW b, BInv(b), NEW heads \in Heads(b), NEW t
  PROVE  BInv(PurgeWorkers(b, heads, t))
<1> DEFINE rows == [w \in Workers |-> IF w \in heads /\ Expired(b, w, t)
                                        THEN [b.worker[w] EXCEPT !.state = "DISARMED"]
                                        ELSE b.worker[w]]
           d == [b EXCEPT !.worker = rows]
<1>1. PurgeWorkers(b, heads, t) = d
  BY DEF PurgeWorkers
<1>2. \A w \in heads : w \in Workers /\ Known(b, w)
  BY DEF Heads, BInv, WorkersRegistered, Known, UnknownWorker
<1>3. \A v \in Workers :
        \/ rows[v] = b.worker[v]
        \/ Known(b, v) /\ rows[v] = [b.worker[v] EXCEPT !.state = "DISARMED"]
  BY <1>2
<1>4. rows = [w \in Workers |-> rows[w]]
  OBVIOUS
<1> HIDE DEF rows
<1>5. /\ d.service = b.service /\ d.letter = b.letter /\ d.out = b.out
      /\ d.lastId = b.lastId /\ d.fault = b.fault /\ d.worker = rows
  BY DEF BInv, BrokerType
<1>6. d = [service |-> d.service, worker |-> d.worker, letter |-> d.letter,
          lastId |-> d.lastId, out |-> d.out, fault |-> d.fault]
  BY DEF BInv, BrokerType
<1>7. \A w \in Workers : rows[w] \in WorkerRow /\ rows[w].id = b.worker[w].id
  <2>1. SUFFICES ASSUME NEW w \in Workers
                 PROVE  rows[w] \in WorkerRow /\ rows[w].id = b.worker[w].id
    OBVIOUS
  <2>2. b.worker[w] \in WorkerRow
    BY DEF BInv, BrokerType
  <2>3. CASE rows[w] = b.worker[w]
    BY <2>2, <2>3
  <2>4. CASE rows[w] = [b.worker[w] EXCEPT !.state = "DISARMED"]
    BY <2>2, <2>4 DEF WorkerRow, WorkerStates
  <2> QED
    BY <1>3, <2>3, <2>4
<1>8. BrokerType(d)
  BY <1>4, <1>5, <1>6, <1>7 DEF BInv, BrokerType
<1> HIDE DEF d
<1>9. BInv(d)
  BY <1>3, <1>5, <1>8, DisarmInv
<1> QED
  BY <1>1, <1>9

(* A known worker is re-armed for the service it has; an unknown one gets  *)
(* the next id of the database.                                            *)
LEMMA PushWorkerInv ==
  ASSUME NEW b, BInv(b), NEW w \in Workers, NEW s \in Services, NEW t \in Nat,
         Registered(b, s), Known(b, w) => b.worker[w].service = s
  PROVE  BInv(PushWorker(b, w, s, t))
<1> DEFINE d == PushWorker(b, w, s, t)
<1>0. t + WorkerTTL \in Nat
  <2>1. HeartbeatPeriodMsec \div 1000 \in Nat
    BY BrokerAssumption
  <2> QED
    BY <2>1 DEF WorkerTTL
<1>1. CASE Known(b, w)
  <2> DEFINE row == [b.worker[w] EXCEPT !.state = "ARMED", !.service = s,
                                        !.expiration = t + WorkerTTL]
  <2>1. b.worker[w] \in WorkerRow
    BY DEF BInv, BrokerType
  <2>2. d = [b EXCEPT !.worker[w] = row]
    BY <1>1 DEF PushWorker
  <2>3. row \in WorkerRow
    BY <1>0, <2>1 DEF WorkerRow, WorkerStates
  <2>4. /\ row.id = b.worker[w].id /\ row.letter = b.worker[w].letter
        /\ row.service = b.worker[w].service /\ row.state = "ARMED"
    BY <1>1, <2>1 DEF WorkerRow
  <2> HIDE DEF row, d
  <2>5. /\ d.service = b.service /\ d.letter = b.letter /\ d.out = b.out
        /\ d.lastId = b.lastId /\ d.fault = b.fault
        /\ d.worker = [b.worker EXCEPT ![w] = row]
    BY <2>2 DEF BInv, BrokerType
  <2>6. d = [service |-> d.service, worker |-> d.worker, letter |-> d.letter,
            lastId |-> d.lastId, out |-> d.out, fault |-> d.fault]
    BY <2>2 DEF BInv, BrokerType
  <2>7. \A v \in Workers : /\ d.worker[v].id = b.worker[v].id
                           /\ d.worker[v].letter = b.worker[v].letter
                           /\ d.worker[v].service = b.worker[v].service
                           /\ d.worker[v].state = "OCCUPIED" => b.worker[v].state = "OCCUPIED"
                           /\ ~ Known(b, v) => d.worker[v] = b.worker[v]
    BY <1>1, <2>4, <2>5 DEF BInv, BrokerType
  <2>8. BrokerType(d)
    BY <2>3, <2>5, <2>6, <2>7 DEF BInv, BrokerType
  <2>9. WorkersRegistered(d) /\ DistinctIds(d)
    BY <2>5, <2>7 DEF BInv, WorkersRegistered, DistinctIds, Known, Registered
  <2>10. WaitingRefersToItself(d)
    BY <2>5 DEF BInv, WaitingRefersToItself
  <2>11. AssignedHasHolder(d)
    BY <2>5, <2>7 DEF BInv, AssignedHasHolder, Known
  <2>12. HolderHasLetter(d) /\ OccupiedHasLetter(d)
    BY <2>5, <2>7 DEF BInv, HolderHasLetter, OccupiedHasLetter, Known
  <2>13. BInv(d)
    BY <2>5, <2>8, <2>9, <2>10, <2>11, <2>12 DEF BInv
  <2> QED
    BY <2>13 DEF d
<1>2. CASE ~ Known(b, w)
  <2> DEFINE row == [id |-> b.lastId + 1, state |-> "ARMED", service |-> s,
                     letter |-> 0, expiration |-> t + WorkerTTL]
  <2>1. d = [b EXCEPT !.lastId = b.lastId + 1, !.worker[w] = row]
    BY <1>2 DEF PushWorker, FreshId
  <2>2. row \in WorkerRow
    BY <1>0 DEF BInv, BrokerType, WorkerRow, WorkerStates
  <2>3. /\ row.id = b.lastId + 1 /\ row.letter = 0
        /\ row.service = s /\ row.state = "ARMED"
    OBVIOUS
  <2> HIDE DEF row, d
  <2>4. /\ d.service = b.service /\ d.letter = b.letter /\ d.out = b.out
        /\ d.lastId = b.lastId + 1 /\ d.fault = b.fault
        /\ d.worker = [b.worker EXCEPT ![w] = row]
    BY <2>1 DEF BInv, BrokerType
  <2>5. d = [service |-> d.service, worker |-> d.worker, letter |-> d.letter,
            lastId |-> d.lastId, out |-> d.out, fault |-> d.fault]
    BY <2>1 DEF BInv, BrokerType
  <2>6. /\ \A v \in Workers : v # w => d.worker[v] = b.worker[v]
        /\ d.worker[w] = row
    BY <2>4 DEF BInv, BrokerType
  <2>7. \A v \in Workers : b.worker[v].id \in 0 .. b.lastId
    BY DEF BInv, BrokerType, WorkerRow
  <2>8. BrokerType(d)
    <3>1. d.worker \in [Workers -> WorkerRow]
      BY <2>2, <2>4 DEF BInv, BrokerType
    <3>2. \A v \in Workers : d.worker[v].id <= d.lastId
      BY <2>3, <2>4, <2>6, <2>7 DEF BInv, BrokerType
    <3>3. DOMAIN d.letter \subseteq 1 .. d.lastId /\ d.lastId \in Nat
      BY <2>4 DEF BInv, BrokerType
    <3> QED
      BY <2>4, <2>5, <3>1, <3>2, <3>3 DEF BInv, BrokerType
  <2>9. WorkersRegistered(d)
    BY <1>2, <2>3, <2>4, <2>6 DEF BInv, BrokerType, WorkersRegistered, Known, Registered
  <2>10. DistinctIds(d)
    <3>1. b.lastId + 1 \notin DOMAIN b.letter
      BY DEF BInv, BrokerType
    <3> QED
      BY <2>3, <2>4, <2>6, <2>7, <3>1 DEF BInv, BrokerType, DistinctIds, Known
  <2>11. WaitingRefersToItself(d)
    BY <2>4 DEF BInv, WaitingRefersToItself
  <2>12. AssignedHasHolder(d)
    BY <1>2, <2>4, <2>6 DEF BInv, AssignedHasHolder, Known
  <2>13. HolderHasLetter(d) /\ OccupiedHasLetter(d)
    BY <2>3, <2>4, <2>6 DEF BInv, HolderHasLetter, OccupiedHasLetter, Known
  <2>14. BInv(d)
    BY <2>4, <2>8, <2>9, <2>10, <2>11, <2>12, <2>13 DEF BInv
  <2> QED
    BY <2>14 DEF d
<1> QED
  BY <1>1, <1>2

(* A request becomes a letter with the next id, which no worker has.       *)
LEMMA PushRequestInv ==
  ASSUME NEW b, BInv(b), NEW s \in Services, NEW c \in Clients, NEW body \in Bodies
  PROVE  BInv(PushRequestToService(b, s, c, body))
<1> DEFINE n == b.lastId + 1
           row == [service |-> s, state |-> "UNASSIGNED", worker |-> n,
                   client |-> c, body |-> body]
           letters == [k \in DOMAIN b.letter \cup {n} |->
                         IF k = n THEN row ELSE b.letter[k]]
           d == [b EXCEPT !.lastId = n, !.letter = letters]
<1>1. PushRequestToService(b, s, c, body) = d
  BY DEF PushRequestToService, FreshId
<1>2. /\ b.lastId \in Nat /\ DOMAIN b.letter \subseteq 1 .. b.lastId
      /\ \A w \in Workers : b.worker[w].id \in Nat /\ b.worker[w].id <= b.lastId
  BY DEF BInv, BrokerType, WorkerRow
<1>3. n \notin DOMAIN b.letter /\ \A w \in Workers : b.worker[w].id # n
  BY <1>2
<1>4. row \in LetterRow /\ row.state = "UNASSIGNED" /\ row.worker = n
  BY <1>2 DEF LetterRow, LetterStates
<1>5. /\ DOMAIN letters = DOMAIN b.letter \cup {n} /\ letters[n] = row
      /\ \A k \in DOMAIN b.letter : letters[k] = b.letter[k]
      /\ letters \in [DOMAIN letters -> LetterRow]
  <2>1. \A k \in DOMAIN b.letter : b.letter[k] \in LetterRow
    BY DEF BInv, BrokerType
  <2>2. \A k \in DOMAIN b.letter \cup {n} : letters[k] \in LetterRow
    BY <1>4, <2>1
  <2> HIDE DEF row
  <2> QED
    BY <1>3, <2>2
<1> HIDE DEF letters, row
<1>6. /\ d.service = b.service /\ d.worker = b.worker /\ d.out = b.out
      /\ d.letter = letters /\ d.lastId = n /\ d.fault = b.fault
  BY DEF BInv, BrokerType
<1>7. d = [service |-> d.service, worker |-> d.worker, letter |-> d.letter,
          lastId |-> d.lastId, out |-> d.out, fault |-> d.fault]
  <2>1. d = [b EXCEPT !.lastId = n, !.letter = letters]
    OBVIOUS
  <2> HIDE DEF d
  <2> QED
    BY <2>1 DEF BInv, BrokerType
<1> HIDE DEF d
<1>8. BrokerType(d)
  <2>1. /\ DOMAIN d.letter \subseteq 1 .. d.lastId /\ d.lastId \in Nat
        /\ \A w \in Workers : d.worker[w].id <= d.lastId
    BY <1>2, <1>5, <1>6
  <2> QED
    BY <1>5, <1>6, <1>7, <2>1 DEF BInv, BrokerType
<1>9. WorkersRegistered(d)
  BY <1>6 DEF BInv, WorkersRegistered, Known, Registered
<1>10. DistinctIds(d)
  BY <1>3, <1>5, <1>6 DEF BInv, DistinctIds, Known
<1>11. WaitingRefersToItself(d)
  BY <1>4, <1>5, <1>6 DEF BInv, WaitingRefersToItself
<1>12. AssignedHasHolder(d)
  BY <1>4, <1>5, <1>6 DEF BInv, AssignedHasHolder, Known
<1>13. HolderHasLetter(d) /\ OccupiedHasLetter(d)
  BY <1>3, <1>5, <1>6 DEF BInv, HolderHasLetter, OccupiedHasLetter, Known
<1>14. BInv(d)
  BY <1>6, <1>8, <1>9, <1>10, <1>11, <1>12, <1>13 DEF BInv
<1> QED
  BY <1>1, <1>14

(* A letter the unique index lets a worker have is one the worker can hold *)
(* beside no other: the worker referred to no letter before.               *)
LEMMA AssignableIsFree ==
  ASSUME NEW b, BInv(b), NEW w \in Workers, NEW l \in DOMAIN b.letter,
         b.letter[l].state = "UNASSIGNED", Assignable(b, w, l)
  PROVE  b.worker[w].letter = 0
<1> SUFFICES ASSUME b.worker[w].letter # 0
             PROVE  FALSE
  OBVIOUS
<1> DEFINE k == b.worker[w].letter
<1>1. /\ k \in DOMAIN b.letter /\ b.letter[k].state = "ASSIGNED"
      /\ b.letter[k].worker = b.worker[w].id
  BY DEF BInv, HolderHasLetter
<1> QED
  BY <1>1 DEF Assignable

LEMMA AssignInv ==
  ASSUME NEW b, BInv(b), NEW s \in Services, NEW w \in Armed(b, s),
         NEW l \in Waiting(b, s), NEW t \in Nat, Assignable(b, w, l)
  PROVE  BInv(AssignLetterToWorker(b, w, l, t))
<1> DEFINE wrow == [b.worker[w] EXCEPT !.state = "OCCUPIED", !.letter = l,
                                       !.expiration = t + ExpirationPeriodMsec]
           lrow == [b.letter[l] EXCEPT !.state = "ASSIGNED", !.worker = b.worker[w].id]
           d == [b EXCEPT !.worker[w] = wrow, !.letter[l] = lrow]
<1>1. AssignLetterToWorker(b, w, l, t) = d
  BY DEF AssignLetterToWorker
<1>2. /\ w \in Workers /\ b.worker[w].state = "ARMED" /\ b.worker[w].service = s
      /\ l \in DOMAIN b.letter /\ b.letter[l].state = "UNASSIGNED" /\ b.letter[l].service = s
  BY DEF Armed, Waiting
<1>3. Known(b, w) /\ b.worker[w].letter = 0
  BY <1>2, AssignableIsFree DEF BInv, WorkersRegistered, UnknownWorker
<1>4. b.worker[w] \in WorkerRow /\ b.letter[l] \in LetterRow /\ l \in Nat /\ l # 0
  BY <1>2 DEF BInv, BrokerType
<1>5. t + ExpirationPeriodMsec \in Nat
  BY BrokerAssumption
<1>6. /\ wrow \in WorkerRow /\ wrow.id = b.worker[w].id /\ wrow.state = "OCCUPIED"
      /\ wrow.service = s /\ wrow.letter = l
  BY <1>2, <1>4, <1>5 DEF WorkerRow, WorkerStates
<1>7. b.worker[w].id \in Nat
  BY <1>4 DEF WorkerRow
<1>8. /\ lrow \in LetterRow /\ lrow.state = "ASSIGNED" /\ lrow.service = s
      /\ lrow.worker = b.worker[w].id
  BY <1>2, <1>4, <1>7 DEF LetterRow, LetterStates
<1> HIDE DEF wrow, lrow
<1>9. /\ d.service = b.service /\ d.out = b.out /\ d.lastId = b.lastId
      /\ d.fault = b.fault /\ d.worker = [b.worker EXCEPT ![w] = wrow]
      /\ d.letter = [b.letter EXCEPT ![l] = lrow]
  BY DEF BInv, BrokerType
<1>10. d = [service |-> d.service, worker |-> d.worker, letter |-> d.letter,
           lastId |-> d.lastId, out |-> d.out, fault |-> d.fault]
  <2>1. d = [b EXCEPT !.worker[w] = wrow, !.letter[l] = lrow]
    OBVIOUS
  <2> HIDE DEF d
  <2> QED
    BY <2>1 DEF BInv, BrokerType
<1> HIDE DEF d
<1>11. /\ DOMAIN d.letter = DOMAIN b.letter /\ d.letter[l] = lrow
       /\ \A k \in DOMAIN b.letter : k # l => d.letter[k] = b.letter[k]
       /\ d.worker[w] = wrow
       /\ \A v \in Workers : v # w => d.worker[v] = b.worker[v]
  BY <1>2, <1>9 DEF BInv, BrokerType
<1>12. \A v \in Workers : d.worker[v].id = b.worker[v].id
                          /\ d.worker[v].service = b.worker[v].service
  BY <1>2, <1>6, <1>11
<1>13. BrokerType(d)
  BY <1>2, <1>6, <1>8, <1>9, <1>10, <1>11, <1>12 DEF BInv, BrokerType
<1>14. WorkersRegistered(d) /\ DistinctIds(d)
  BY <1>3, <1>9, <1>11, <1>12 DEF BInv, WorkersRegistered, DistinctIds, Known, Registered
<1>15. WaitingRefersToItself(d)
  BY <1>8, <1>11 DEF BInv, WaitingRefersToItself
<1>16. AssignedHasHolder(d)
  <2>1. ASSUME NEW k \in DOMAIN d.letter, d.letter[k].state = "ASSIGNED"
        PROVE  \E v \in Workers : /\ Known(d, v)
                                  /\ d.worker[v].id = d.letter[k].worker
                                  /\ d.worker[v].letter = k
                                  /\ d.worker[v].service = d.letter[k].service
    <3>1. CASE k = l
      BY <1>2, <1>3, <1>6, <1>8, <1>11, <3>1 DEF Known
    <3>2. CASE k # l
      <4>1. PICK v \in Workers : /\ Known(b, v)
                                /\ b.worker[v].id = b.letter[k].worker
                                /\ b.worker[v].letter = k
                                /\ b.worker[v].service = b.letter[k].service
        BY <1>11, <2>1, <3>2 DEF BInv, AssignedHasHolder
      <4>2. v # w
        BY <1>3, <1>11, <2>1, <4>1 DEF BInv, BrokerType
      <4> QED
        BY <1>11, <2>1, <3>2, <4>1, <4>2 DEF Known
    <3> QED
      BY <3>1, <3>2
  <2> QED
    BY <2>1 DEF AssignedHasHolder
<1>17. HolderHasLetter(d)
  <2>1. ASSUME NEW v \in Workers, d.worker[v].letter # 0
        PROVE  /\ Known(d, v)
               /\ d.worker[v].letter \in DOMAIN d.letter
               /\ d.letter[d.worker[v].letter].state = "ASSIGNED"
               /\ d.letter[d.worker[v].letter].worker = d.worker[v].id
    <3>1. CASE v = w
      BY <1>2, <1>3, <1>6, <1>8, <1>11, <3>1 DEF Known
    <3>2. CASE v # w
      BY <1>2, <1>11, <2>1, <3>2 DEF BInv, HolderHasLetter, Known
    <3> QED
      BY <3>1, <3>2
  <2> QED
    BY <2>1 DEF HolderHasLetter
<1>18. OccupiedHasLetter(d)
  BY <1>4, <1>6, <1>11 DEF BInv, OccupiedHasLetter
<1>19. BInv(d)
  BY <1>9, <1>13, <1>14, <1>15, <1>16, <1>17, <1>18 DEF BInv
<1> QED
  BY <1>1, <1>19

(* The letter the index yields for a worker is the one it refers to, and   *)
(* of its service: the assertion of ReleaseLetterFromWorker holds.         *)
LEMMA LettersOfWorker ==
  ASSUME NEW b, BInv(b), NEW w \in Workers, Known(b, w), NEW l \in LettersOf(b, w)
  PROVE  /\ l \in DOMAIN b.letter
         /\ b.letter[l].state = "ASSIGNED"
         /\ b.worker[w].letter = l
         /\ b.letter[l].service = b.worker[w].service
<1>1. l \in DOMAIN b.letter /\ b.letter[l].worker = b.worker[w].id
  BY DEF LettersOf
<1>2. b.letter[l].state # "UNASSIGNED"
  BY <1>1 DEF BInv, WaitingRefersToItself, DistinctIds
<1>3. b.letter[l] \in LetterRow
  BY <1>1 DEF BInv, BrokerType
<1>4. b.letter[l].state = "ASSIGNED"
  BY <1>2, <1>3 DEF LetterRow, LetterStates
<1>5. PICK v \in Workers : /\ Known(b, v)
                          /\ b.worker[v].id = b.letter[l].worker
                          /\ b.worker[v].letter = l
                          /\ b.worker[v].service = b.letter[l].service
  BY <1>1, <1>4 DEF BInv, AssignedHasHolder
<1>6. v = w
  BY <1>1, <1>5 DEF BInv, DistinctIds
<1> QED
  BY <1>1, <1>4, <1>5, <1>6

LEMMA ReleaseLetterInv ==
  ASSUME NEW b, BInv(b), NEW w \in Workers, Known(b, w)
  PROVE  LET d == ReleaseLetterFromWorker(b, w)
         IN  /\ BInv(d) /\ d.fault = b.fault
             /\ Known(d, w) /\ d.worker[w].service = b.worker[w].service
<1>1. CASE LettersOf(b, w) = {}
  BY <1>1 DEF ReleaseLetterFromWorker
<1>2. CASE LettersOf(b, w) # {}
  <2> DEFINE l == CHOOSE k \in LettersOf(b, w) : TRUE
             wrow == [b.worker[w] EXCEPT !.state = "ARMED", !.letter = 0]
             letters == [k \in DOMAIN b.letter \ {l} |-> b.letter[k]]
             d == [b EXCEPT !.letter = letters, !.worker[w] = wrow]
  <2>1. l \in LettersOf(b, w)
    BY <1>2
  <2> HIDE DEF l
  <2>2. /\ l \in DOMAIN b.letter /\ b.letter[l].state = "ASSIGNED"
        /\ b.worker[w].letter = l /\ b.letter[l].service = b.worker[w].service
    BY <2>1, LettersOfWorker
  <2>3. ReleaseLetterFromWorker(b, w) = d
    BY <1>2, <2>2 DEF ReleaseLetterFromWorker, l
  <2>4. b.worker[w] \in WorkerRow
    BY DEF BInv, BrokerType
  <2>5. /\ wrow \in WorkerRow /\ wrow.id = b.worker[w].id /\ wrow.state = "ARMED"
        /\ wrow.service = b.worker[w].service /\ wrow.letter = 0
    BY <2>4 DEF WorkerRow, WorkerStates
  <2>6. /\ DOMAIN letters = DOMAIN b.letter \ {l}
        /\ \A k \in DOMAIN letters : letters[k] = b.letter[k]
        /\ letters \in [DOMAIN letters -> LetterRow]
    BY DEF BInv, BrokerType
  <2> HIDE DEF wrow, letters
  <2>7. /\ d.service = b.service /\ d.out = b.out /\ d.lastId = b.lastId
        /\ d.fault = b.fault /\ d.worker = [b.worker EXCEPT ![w] = wrow]
        /\ d.letter = letters
    BY DEF BInv, BrokerType
  <2>8. d = [service |-> d.service, worker |-> d.worker, letter |-> d.letter,
            lastId |-> d.lastId, out |-> d.out, fault |-> d.fault]
    <3>1. d = [b EXCEPT !.letter = letters, !.worker[w] = wrow]
      OBVIOUS
    <3> HIDE DEF d
    <3> QED
      BY <3>1 DEF BInv, BrokerType
  <2> HIDE DEF d
  <2>9. /\ d.worker[w] = wrow
        /\ \A v \in Workers : v # w => d.worker[v] = b.worker[v]
        /\ \A v \in Workers : /\ d.worker[v].id = b.worker[v].id
                              /\ d.worker[v].service = b.worker[v].service
    BY <2>5, <2>7 DEF BInv, BrokerType
  <2>10. BrokerType(d)
    BY <2>5, <2>6, <2>7, <2>8, <2>9 DEF BInv, BrokerType
  <2>11. WorkersRegistered(d) /\ DistinctIds(d)
    BY <2>6, <2>7, <2>9 DEF BInv, WorkersRegistered, DistinctIds, Known, Registered
  <2>12. WaitingRefersToItself(d)
    BY <2>6, <2>7 DEF BInv, WaitingRefersToItself
  <2>13. AssignedHasHolder(d)
    BY <2>2, <2>6, <2>7, <2>9 DEF BInv, AssignedHasHolder, Known
  <2>14. HolderHasLetter(d)
    <3>1. ASSUME NEW v \in Workers, d.worker[v].letter # 0
          PROVE  /\ Known(d, v)
                 /\ d.worker[v].letter \in DOMAIN d.letter
                 /\ d.letter[d.worker[v].letter].state = "ASSIGNED"
                 /\ d.letter[d.worker[v].letter].worker = d.worker[v].id
      <4>1. v # w /\ d.worker[v] = b.worker[v]
        BY <2>5, <2>9, <3>1
      <4>2. /\ Known(b, v) /\ b.worker[v].letter \in DOMAIN b.letter
            /\ b.letter[b.worker[v].letter].state = "ASSIGNED"
            /\ b.letter[b.worker[v].letter].worker = b.worker[v].id
        BY <3>1, <4>1 DEF BInv, HolderHasLetter
      <4>3. b.worker[v].letter # l
        BY <2>1, <4>1, <4>2 DEF BInv, DistinctIds, LettersOf
      <4> QED
        BY <2>6, <2>7, <4>1, <4>2, <4>3 DEF Known
    <3> QED
      BY <3>1 DEF HolderHasLetter
  <2>15. OccupiedHasLetter(d)
    BY <2>5, <2>9 DEF BInv, OccupiedHasLetter
  <2>16. BInv(d)
    BY <2>7, <2>10, <2>11, <2>12, <2>13, <2>14, <2>15 DEF BInv
  <2> QED
    BY <2>3, <2>7, <2>9, <2>16 DEF Known
<1> QED
  BY <1>1, <1>2

-----------------------------------------------------------------------------
(* The methods of the broker.                                              *)

LEMMA ReleaseInv ==
  ASSUME NEW b, BInv(b), NEW w \in Workers, Known(b, w), NEW disconnect \in BOOLEAN
  PROVE  BInv(Release(b, w, disconnect))
<1>1. CASE disconnect
  <2> DEFINE m == [to |-> w, cmd |-> "DISCONNECT"]
  <2>1. m \in Messages
    BY DEF Messages
  <2> HIDE DEF m
  <2>2. BInv(Send(b, m))
    BY <2>1, SendInv
  <2>3. Known(Send(b, m), w)
    BY DEF Known, Send, BInv, BrokerType
  <2>4. BInv(RemoveWorker(Send(b, m), w))
    BY <2>2, <2>3, RemoveWorkerInv
  <2> QED
    BY <1>1, <2>4 DEF Release, m
<1>2. CASE ~ disconnect
  BY <1>2, RemoveWorkerInv DEF Release
<1> QED
  BY <1>1, <1>2

LEMMA WorkerSendInv ==
  ASSUME NEW b, BInv(b), NEW s \in Services, NEW w \in Armed(b, s),
         NEW l \in Waiting(b, s), NEW t \in Nat
  PROVE  BInv(WorkerSend(b, w, l, t))
<1>1. CASE Assignable(b, w, l)
  <2> DEFINE d == AssignLetterToWorker(b, w, l, t)
             m == [to |-> w, cmd |-> "REQUEST", letter |-> l,
                   client |-> b.letter[l].client, body |-> b.letter[l].body]
  <2>1. BInv(d)
    BY <1>1, AssignInv
  <2>2. m \in Messages
    <3>1. w \in Workers /\ l \in Nat /\ b.letter[l] \in LetterRow
      BY DEF Armed, Waiting, BInv, BrokerType
    <3> QED
      BY <3>1 DEF LetterRow, Messages
  <2> HIDE DEF d, m
  <2>3. BInv(Send(d, m))
    BY <2>1, <2>2, SendInv
  <2> QED
    BY <1>1, <2>3 DEF WorkerSend, d, m
<1>2. CASE ~ Assignable(b, w, l)
  BY <1>2 DEF WorkerSend
<1> QED
  BY <1>1, <1>2

LEMMA DispatchInv ==
  ASSUME NEW b, BInv(b), NEW s \in Services, NEW t \in Nat
  PROVE  \A d \in ServiceDispatch(b, s, t) : BInv(d)
<1> SUFFICES ASSUME NEW heads \in Heads(b), NEW d \in DispatchOne(PurgeWorkers(b, heads, t), heads, s, t)
             PROVE  BInv(d)
  BY DEF ServiceDispatch
<1> DEFINE p == PurgeWorkers(b, heads, t)
<1>1. BInv(p)
  BY PurgeInv
<1> HIDE DEF p
<1>2. d \in DispatchOne(p, heads, s, t)
  BY DEF p
<1>3. CASE Armed(p, s) = {} \/ Waiting(p, s) = {}
  BY <1>1, <1>2, <1>3 DEF DispatchOne
<1>4. CASE Armed(p, s) # {} /\ Waiting(p, s) # {}
  <2>1. PICK w \in Popped(p, heads, s), l \in Waiting(p, s) : d = WorkerSend(p, w, l, t)
    BY <1>2, <1>4 DEF DispatchOne
  <2>2. w \in Armed(p, s)
    BY DEF Popped
  <2> QED
    BY <1>1, <2>1, <2>2, WorkerSendInv
<1> QED
  BY <1>3, <1>4

LEMMA WorkerWaitingInv ==
  ASSUME NEW b, BInv(b), NEW w \in Workers, NEW s \in Services, NEW t \in Nat,
         Registered(b, s), Known(b, w) => b.worker[w].service = s
  PROVE  \A d \in WorkerWaiting(b, w, s, t) : BInv(d)
BY PushWorkerInv, DispatchInv DEF WorkerWaiting

-----------------------------------------------------------------------------
(* The handlers: every outcome of a handler has BInv.                      *)

LEMMA ReadyInv ==
  ASSUME NEW b, BInv(b), NEW w \in Workers, NEW s \in Services, NEW ep \in Endpoints,
         NEW t \in Nat
  PROVE  \A d \in ProcessReady(b, w, s, ep, t) : BInv(d)
<1>1. CASE Known(b, w)
  BY <1>1, ReleaseInv DEF ProcessReady
<1>2. CASE ~ Known(b, w) /\ w \in Reserved
  BY <1>2, FaultInv DEF ProcessReady
<1>3. CASE ~ Known(b, w) /\ w \notin Reserved
  <2> DEFINE e == [b EXCEPT !.service[s] = ep]
  <2>1. BInv(e) /\ Registered(e, s) /\ e.worker = b.worker
    BY EndpointInv
  <2> HIDE DEF e
  <2>2. \A d \in WorkerWaiting(e, w, s, t) : BInv(d)
    BY <1>3, <2>1, WorkerWaitingInv DEF Known
  <2>3. \A d \in UNION {ServiceDispatch(c, s, t) : c \in WorkerWaiting(e, w, s, t)} : BInv(d)
    BY <2>2, DispatchInv
  <2> QED
    BY <1>3, <2>3 DEF ProcessReady, e
<1> QED
  BY <1>1, <1>2, <1>3

LEMMA ReportInv ==
  ASSUME NEW b, BInv(b), b.fault = "none", NEW w \in Workers, NEW c \in Clients,
         NEW body \in Bodies, NEW t \in Nat
  PROVE  \A d \in ProcessReport(b, w, c, body, t) : BInv(d)
<1>1. CASE ~ Known(b, w)
  <2>1. [to |-> w, cmd |-> "DISCONNECT"] \in Messages
    BY DEF Messages
  <2> QED
    BY <1>1, <2>1, SendInv DEF ProcessReport
<1>2. CASE Known(b, w)
  <2> DEFINE e == ReleaseLetterFromWorker(b, w)
             s == b.worker[w].service
             m == [to |-> c, cmd |-> "REPORT", service |-> s, body |-> body]
  <2>1. BInv(e) /\ e.fault = "none" /\ Known(e, w) /\ e.worker[w].service = s
    BY <1>2, ReleaseLetterInv
  <2>2. s \in Services
    BY <1>2 DEF BInv, WorkersRegistered
  <2>3. m \in Messages
    BY <2>2 DEF Messages
  <2> HIDE DEF e, m
  <2>4. /\ BInv(Send(e, m))
        /\ Send(e, m).worker = e.worker /\ Send(e, m).service = e.service
    BY <2>1, <2>3, SendInv DEF Send, BInv, BrokerType
  <2>5. Registered(Send(e, m), s)
    BY <2>1, <2>4 DEF BInv, WorkersRegistered, Registered
  <2>6. \A d \in WorkerWaiting(Send(e, m), w, s, t) : BInv(d)
    BY <2>1, <2>2, <2>4, <2>5, WorkerWaitingInv
  <2>7. ProcessReport(b, w, c, body, t) = WorkerWaiting(Send(e, m), w, s, t)
    BY <1>2, <2>1 DEF ProcessReport, e, m
  <2> QED
    BY <2>6, <2>7
<1> QED
  BY <1>1, <1>2

LEMMA HeartbeatInv ==
  ASSUME NEW b, BInv(b), NEW w \in Workers, NEW t \in Nat
  PROVE  \A d \in ProcessHeartbeat(b, w, t) : BInv(d)
<1>1. CASE Known(b, w)
  <2>1. b.worker[w].service \in Services /\ Registered(b, b.worker[w].service)
    BY <1>1 DEF BInv, WorkersRegistered
  <2> QED
    BY <1>1, <2>1, WorkerWaitingInv DEF ProcessHeartbeat
<1>2. CASE ~ Known(b, w)
  BY <1>2 DEF ProcessHeartbeat
<1> QED
  BY <1>1, <1>2

LEMMA DisconnectInv ==
  ASSUME NEW b, BInv(b), NEW w \in Workers
  PROVE  \A d \in ProcessDisconnect(b, w) : BInv(d)
BY ReleaseInv, FaultInv DEF ProcessDisconnect

LEMMA ClientInv ==
  ASSUME NEW b, BInv(b), NEW c \in Clients, NEW s \in Services, NEW body \in Bodies,
         NEW t \in Nat
  PROVE  \A d \in ProcessClient(b, c, s, body, t) : BInv(d)
<1>1. CASE Registered(b, s)
  BY <1>1, PushRequestInv, DispatchInv DEF ProcessClient
<1>2. CASE ~ Registered(b, s)
  <2>1. [to |-> c, cmd |-> "NAK"] \in Messages
    BY DEF Messages
  <2> QED
    BY <1>2, <2>1, SendInv DEF ProcessClient
<1> QED
  BY <1>1, <1>2

LEMMA InternalInv ==
  ASSUME NEW b, BInv(b), NEW c \in Clients, NEW s \in Services,
         NEW request \in {"mmi.service", "mmi.filter", "mmi.other"}
  PROVE  \A d \in ServiceInternal(b, c, request, s) : BInv(d)
<1>1. ASSUME NEW code \in {200, 404, 501}, NEW ep \in Endpoints \cup {NoEndpoint}
      PROVE  MmiReply(c, code, ep) \in Messages
  BY DEF MmiReply, Messages
<1>2. b.service[s] \in Endpoints \cup {NoEndpoint}
  BY DEF BInv, BrokerType
<1>3. CASE request = "mmi.service"
  BY <1>1, <1>2, <1>3, SendInv DEF ServiceInternal
<1>4. CASE request = "mmi.filter"
  BY <1>4 DEF ServiceInternal
<1>5. CASE request = "mmi.other"
  BY <1>1, <1>5, SendInv DEF ServiceInternal
<1> QED
  BY <1>3, <1>4, <1>5

-----------------------------------------------------------------------------
(* What a turn does to letters, ids and messages.  It begins with changes  *)
(* that send no request, and then dispatches services, any number of times.*)

(* A request that a turn which began with b and ended with d may send: its *)
(* letter waited or is new, and its addressee now works on it.             *)
Given(b, d, m) ==
  /\ m.to \in Workers
  /\ m.letter \in DOMAIN d.letter
  /\ m.letter \in DOMAIN b.letter => b.letter[m.letter].state = "UNASSIGNED"
  /\ m.client = d.letter[m.letter].client
  /\ d.letter[m.letter].state = "ASSIGNED"
  /\ d.worker[m.to].letter = m.letter
  /\ d.worker[m.to].state = "OCCUPIED"

(* t is s, and perhaps more.                                               *)
Continues(s, t) == Len(s) <= Len(t) /\ \A i \in 1 .. Len(s) : t[i] = s[i]
Added(s, t) == {i \in 1 .. Len(t) : i > Len(s)}

(* Dispatching: no letter comes or goes, what is assigned stays assigned,  *)
(* nobody who is occupied is disturbed, and each letter that is sent is    *)
(* sent once.                                                              *)
Dispatched(b, d) ==
  /\ d.lastId = b.lastId /\ d.fault = b.fault
  /\ DOMAIN d.letter = DOMAIN b.letter
  /\ \A l \in DOMAIN b.letter : b.letter[l].state = "ASSIGNED" => d.letter[l] = b.letter[l]
  /\ \A v \in Workers : d.worker[v].id = b.worker[v].id
  /\ \A v \in Workers : b.worker[v].state = "OCCUPIED" => d.worker[v] = b.worker[v]
  /\ Continues(b.out, d.out)
  /\ \A i \in Added(b.out, d.out) : d.out[i].cmd = "REQUEST" /\ Given(b, d, d.out[i])
  /\ \A i, j \in Added(b.out, d.out) : d.out[i].letter = d.out[j].letter => i = j

(* The changes before: workers in N may get a row, the letters R are       *)
(* released, the messages M are sent, and new letters wait.                *)
Prepared(b, e, N, R, M) ==
  /\ b.lastId <= e.lastId
  /\ DOMAIN b.letter \ DOMAIN e.letter = R
  /\ \A l \in DOMAIN e.letter :
       IF l \in DOMAIN b.letter THEN e.letter[l] = b.letter[l]
       ELSE l > b.lastId /\ e.letter[l].state = "UNASSIGNED"
  /\ \A v \in Workers : e.worker[v].id = b.worker[v].id \/ (v \in N /\ ~ Known(b, v))
  /\ Continues(b.out, e.out)
  /\ {e.out[i] : i \in Added(b.out, e.out)} = M
  /\ \A m \in M : m.cmd # "REQUEST"

(* Both together, for a turn that began with nothing to send.              *)
Outcome(b, d, N, R, M) ==
  /\ b.lastId <= d.lastId
  /\ DOMAIN b.letter \ DOMAIN d.letter = R
  /\ \A l \in DOMAIN b.letter \cap DOMAIN d.letter :
       b.letter[l].state = "ASSIGNED" => d.letter[l] = b.letter[l]
  /\ \A l \in DOMAIN d.letter \ DOMAIN b.letter : l > b.lastId
  /\ \A v \in Workers : d.worker[v].id = b.worker[v].id \/ (v \in N /\ ~ Known(b, v))
  /\ M \subseteq {d.out[i] : i \in DOMAIN d.out}
  /\ \A i \in DOMAIN d.out : IF d.out[i].cmd = "REQUEST" THEN Given(b, d, d.out[i])
                                                         ELSE d.out[i] \in M
  /\ \A i, j \in DOMAIN d.out :
       /\ d.out[i].cmd = "REQUEST" /\ d.out[j].cmd = "REQUEST"
       /\ d.out[i].letter = d.out[j].letter
       => i = j

LEMMA DispatchedSame ==
  ASSUME NEW b, BInv(b)
  PROVE  Dispatched(b, b)
BY DEF Dispatched, Continues, Added, BInv, BrokerType

LEMMA DispatchedOnce ==
  ASSUME NEW b, BInv(b), NEW e, BInv(e), NEW d, BInv(d), Dispatched(b, e), Dispatched(e, d)
  PROVE  Dispatched(b, d)
<1>1. /\ d.lastId = b.lastId /\ d.fault = b.fault
      /\ DOMAIN d.letter = DOMAIN b.letter
      /\ \A l \in DOMAIN b.letter : b.letter[l].state = "ASSIGNED" => d.letter[l] = b.letter[l]
      /\ \A v \in Workers : d.worker[v].id = b.worker[v].id
      /\ \A v \in Workers : b.worker[v].state = "OCCUPIED" => d.worker[v] = b.worker[v]
  BY DEF Dispatched
<1>2. Len(b.out) \in Nat /\ Len(e.out) \in Nat /\ Len(d.out) \in Nat
  BY DEF BInv, BrokerType
<1>3. Continues(b.out, d.out)
  BY <1>2 DEF Dispatched, Continues
<1>4. \A i \in Added(b.out, d.out) :
        \/ i \in Added(b.out, e.out) /\ d.out[i] = e.out[i]
        \/ i \in Added(e.out, d.out)
  BY <1>2 DEF Dispatched, Continues, Added
<1>5. ASSUME NEW i \in Added(b.out, e.out), d.out[i] = e.out[i]
      PROVE  /\ d.out[i].cmd = "REQUEST" /\ Given(b, d, d.out[i])
             /\ e.letter[d.out[i].letter].state = "ASSIGNED"
  BY <1>5 DEF Dispatched, Given
<1>6. ASSUME NEW i \in Added(e.out, d.out)
      PROVE  /\ d.out[i].cmd = "REQUEST" /\ Given(b, d, d.out[i])
             /\ e.letter[d.out[i].letter].state = "UNASSIGNED"
  <2>1. d.out[i].cmd = "REQUEST" /\ Given(e, d, d.out[i])
    BY DEF Dispatched
  <2>2. /\ d.out[i].letter \in DOMAIN e.letter /\ d.out[i].letter \in DOMAIN b.letter
        /\ e.letter[d.out[i].letter].state = "UNASSIGNED"
    BY <1>1, <2>1 DEF Dispatched, Given
  <2>3. b.letter[d.out[i].letter] \in LetterRow
    BY <2>2 DEF BInv, BrokerType
  <2>4. b.letter[d.out[i].letter].state = "UNASSIGNED"
    BY <2>2, <2>3 DEF Dispatched, LetterRow, LetterStates
  <2> QED
    BY <2>1, <2>2, <2>4 DEF Given
<1>7. \A i \in Added(b.out, d.out) : d.out[i].cmd = "REQUEST" /\ Given(b, d, d.out[i])
  BY <1>4, <1>5, <1>6
<1>8. ASSUME NEW i \in Added(b.out, d.out), NEW j \in Added(b.out, d.out),
             d.out[i].letter = d.out[j].letter
      PROVE  i = j
  <2>1. CASE i \in Added(e.out, d.out) /\ j \in Added(e.out, d.out)
    BY <1>8, <2>1 DEF Dispatched
  <2>2. CASE i \notin Added(e.out, d.out) /\ j \notin Added(e.out, d.out)
    BY <1>4, <1>8, <2>2 DEF Dispatched
  <2>3. CASE i \in Added(e.out, d.out) /\ j \notin Added(e.out, d.out)
    BY <1>4, <1>5, <1>6, <1>8, <2>3
  <2>4. CASE i \notin Added(e.out, d.out) /\ j \in Added(e.out, d.out)
    BY <1>4, <1>5, <1>6, <1>8, <2>4
  <2> QED
    BY <2>1, <2>2, <2>3, <2>4
<1> QED
  BY <1>1, <1>3, <1>7, <1>8 DEF Dispatched

(* purge_workers disturbs nobody who is occupied.                          *)
LEMMA PurgeDispatched ==
  ASSUME NEW b, BInv(b), NEW heads \in Heads(b), NEW t
  PROVE  Dispatched(b, PurgeWorkers(b, heads, t))
<1> DEFINE rows == [w \in Workers |-> IF w \in heads /\ Expired(b, w, t)
                                        THEN [b.worker[w] EXCEPT !.state = "DISARMED"]
                                        ELSE b.worker[w]]
           d == [b EXCEPT !.worker = rows]
<1>1. PurgeWorkers(b, heads, t) = d
  BY DEF PurgeWorkers
<1>2. ASSUME NEW w \in Workers
      PROVE  /\ rows[w].id = b.worker[w].id
             /\ b.worker[w].state = "OCCUPIED" => rows[w] = b.worker[w]
  <2>1. b.worker[w] \in WorkerRow
    BY DEF BInv, BrokerType
  <2>2. w \in heads => b.worker[w].state = "ARMED"
    BY DEF Heads
  <2> QED
    BY <2>1, <2>2 DEF WorkerRow
<1> HIDE DEF rows
<1>3. /\ d.letter = b.letter /\ d.out = b.out /\ d.lastId = b.lastId
      /\ d.fault = b.fault /\ d.worker = rows
  BY DEF BInv, BrokerType
<1> HIDE DEF d
<1>4. Dispatched(b, d)
  BY <1>2, <1>3 DEF Dispatched, Continues, Added, BInv, BrokerType
<1> QED
  BY <1>1, <1>4

LEMMA WorkerSendDispatched ==
  ASSUME NEW b, BInv(b), NEW s \in Services, NEW w \in Armed(b, s),
         NEW l \in Waiting(b, s), NEW t \in Nat
  PROVE  Dispatched(b, WorkerSend(b, w, l, t))
<1>1. CASE ~ Assignable(b, w, l)
  BY <1>1, DispatchedSame DEF WorkerSend
<1>2. CASE Assignable(b, w, l)
  <2> DEFINE wrow == [b.worker[w] EXCEPT !.state = "OCCUPIED", !.letter = l,
                                         !.expiration = t + ExpirationPeriodMsec]
             lrow == [b.letter[l] EXCEPT !.state = "ASSIGNED", !.worker = b.worker[w].id]
             m == [to |-> w, cmd |-> "REQUEST", letter |-> l,
                   client |-> b.letter[l].client, body |-> b.letter[l].body]
             a == [b EXCEPT !.worker[w] = wrow, !.letter[l] = lrow]
             d == [a EXCEPT !.out = Append(a.out, m)]
  <2>1. WorkerSend(b, w, l, t) = d
    BY <1>2 DEF WorkerSend, AssignLetterToWorker, Send
  <2>2. /\ w \in Workers /\ b.worker[w].state = "ARMED" /\ b.worker[w] \in WorkerRow
        /\ l \in DOMAIN b.letter /\ b.letter[l].state = "UNASSIGNED"
        /\ b.letter[l] \in LetterRow
    BY DEF Armed, Waiting, BInv, BrokerType
  <2>3. /\ wrow.id = b.worker[w].id /\ wrow.state = "OCCUPIED" /\ wrow.letter = l
    BY <2>2 DEF WorkerRow
  <2>4. lrow.state = "ASSIGNED" /\ lrow.client = b.letter[l].client
    BY <2>2 DEF LetterRow
  <2>5. m.to = w /\ m.cmd = "REQUEST" /\ m.letter = l /\ m.client = b.letter[l].client
    OBVIOUS
  <2> HIDE DEF wrow, lrow, m
  <2>6. /\ a.lastId = b.lastId /\ a.fault = b.fault /\ a.out = b.out
        /\ a.worker = [b.worker EXCEPT ![w] = wrow]
        /\ a.letter = [b.letter EXCEPT ![l] = lrow]
        /\ DOMAIN a = DOMAIN b /\ "out" \in DOMAIN b
    BY DEF BInv, BrokerType
  <2> HIDE DEF a
  <2>7. /\ d.lastId = b.lastId /\ d.fault = b.fault /\ d.out = Append(b.out, m)
        /\ d.worker = [b.worker EXCEPT ![w] = wrow]
        /\ d.letter = [b.letter EXCEPT ![l] = lrow]
    <3>1. b = [service |-> b.service, worker |-> b.worker, letter |-> b.letter,
               lastId |-> b.lastId, out |-> b.out, fault |-> b.fault]
      BY DEF BInv, BrokerType
    <3>2. a = [b EXCEPT !.worker[w] = wrow, !.letter[l] = lrow]
      BY DEF a
    <3> QED
      BY <2>6, <3>1, <3>2
  <2> HIDE DEF d
  <2>8. /\ DOMAIN d.letter = DOMAIN b.letter /\ d.letter[l] = lrow
        /\ \A k \in DOMAIN b.letter : k # l => d.letter[k] = b.letter[k]
        /\ d.worker[w] = wrow
        /\ \A v \in Workers : v # w => d.worker[v] = b.worker[v]
    BY <2>2, <2>7 DEF BInv, BrokerType
  <2>9. Given(b, d, m)
    BY <2>2, <2>3, <2>4, <2>5, <2>8 DEF Given
  <2>10. /\ Len(b.out) \in Nat /\ Len(d.out) = Len(b.out) + 1
         /\ d.out[Len(b.out) + 1] = m
         /\ \A i \in 1 .. Len(b.out) : d.out[i] = b.out[i]
    BY <2>7 DEF BInv, BrokerType
  <2>11. Continues(b.out, d.out) /\ Added(b.out, d.out) = {Len(b.out) + 1}
    BY <2>10 DEF Continues, Added
  <2>12. Dispatched(b, d)
    BY <2>2, <2>3, <2>5, <2>7, <2>8, <2>9, <2>10, <2>11 DEF Dispatched
  <2> QED
    BY <2>1, <2>12
<1> QED
  BY <1>1, <1>2

LEMMA DispatchDispatched ==
  ASSUME NEW b, BInv(b), NEW s \in Services, NEW t \in Nat
  PROVE  \A d \in ServiceDispatch(b, s, t) : Dispatched(b, d)
<1> SUFFICES ASSUME NEW heads \in Heads(b), NEW d \in DispatchOne(PurgeWorkers(b, heads, t), heads, s, t)
             PROVE  Dispatched(b, d)
  BY DEF ServiceDispatch
<1> DEFINE p == PurgeWorkers(b, heads, t)
<1>1. BInv(p) /\ Dispatched(b, p)
  BY PurgeInv, PurgeDispatched
<1> HIDE DEF p
<1>2. d \in DispatchOne(p, heads, s, t)
  BY DEF p
<1>3. CASE Armed(p, s) = {} \/ Waiting(p, s) = {}
  BY <1>1, <1>2, <1>3 DEF DispatchOne
<1>4. CASE Armed(p, s) # {} /\ Waiting(p, s) # {}
  <2>1. PICK w \in Popped(p, heads, s), l \in Waiting(p, s) : d = WorkerSend(p, w, l, t)
    BY <1>2, <1>4 DEF DispatchOne
  <2>2. w \in Armed(p, s)
    BY DEF Popped
  <2>3. BInv(d) /\ Dispatched(p, d)
    BY <1>1, <2>1, <2>2, WorkerSendInv, WorkerSendDispatched
  <2> QED
    BY <1>1, <2>3, DispatchedOnce
<1> QED
  BY <1>3, <1>4

-----------------------------------------------------------------------------
(* The changes before.                                                     *)

LEMMA PreparedTwice ==
  ASSUME NEW b, BInv(b), NEW e, BInv(e), NEW d, BInv(d), NEW N, NEW R, NEW M, NEW M2,
         Prepared(b, e, N, R, M), Prepared(e, d, N, {}, M2)
  PROVE  Prepared(b, d, N, R, M \cup M2)
<1>1. /\ b.lastId \in Nat /\ e.lastId \in Nat /\ d.lastId \in Nat
      /\ \A l \in DOMAIN b.letter : l \in Nat /\ l <= b.lastId
      /\ \A l \in DOMAIN e.letter : l \in Nat
      /\ \A l \in DOMAIN d.letter : l \in Nat
  BY DEF BInv, BrokerType
<1>2. b.lastId <= d.lastId
  BY <1>1 DEF Prepared
<1>3. DOMAIN e.letter \subseteq DOMAIN d.letter
  BY DEF Prepared
<1>4. ASSUME NEW l \in DOMAIN d.letter
      PROVE  /\ IF l \in DOMAIN b.letter THEN d.letter[l] = b.letter[l]
                ELSE l > b.lastId /\ d.letter[l].state = "UNASSIGNED"
             /\ l \in DOMAIN b.letter => l \in DOMAIN e.letter
  <2>1. CASE l \in DOMAIN e.letter
    BY <2>1 DEF Prepared
  <2>2. CASE l \notin DOMAIN e.letter
    <3>1. l > e.lastId /\ d.letter[l].state = "UNASSIGNED"
      BY <2>2 DEF Prepared
    <3>2. l > b.lastId
      BY <1>1, <3>1 DEF Prepared
    <3>3. l \notin DOMAIN b.letter
      BY <1>1, <3>2
    <3> QED
      BY <3>1, <3>2, <3>3
  <2> QED
    BY <2>1, <2>2
<1>5. DOMAIN b.letter \ DOMAIN d.letter = R
  BY <1>3, <1>4 DEF Prepared
<1>6. \A v \in Workers : d.worker[v].id = b.worker[v].id \/ (v \in N /\ ~ Known(b, v))
  BY DEF Prepared, Known
<1>7. Len(b.out) \in Nat /\ Len(e.out) \in Nat /\ Len(d.out) \in Nat
  BY DEF BInv, BrokerType
<1>8. Continues(b.out, d.out)
  BY <1>7 DEF Prepared, Continues
<1>9. {d.out[i] : i \in Added(b.out, d.out)} = M \cup M2
  <2>1. Added(b.out, d.out) = Added(b.out, e.out) \cup Added(e.out, d.out)
    BY <1>7 DEF Prepared, Continues, Added
  <2>2. \A i \in Added(b.out, e.out) : d.out[i] = e.out[i]
    BY <1>7 DEF Prepared, Continues, Added
  <2> QED
    BY <2>1, <2>2 DEF Prepared
<1> QED
  BY <1>2, <1>4, <1>5, <1>6, <1>8, <1>9 DEF Prepared

(* Changes that leave letters, ids and messages alone.                     *)
LEMMA PreparedSame ==
  ASSUME NEW b, BInv(b), NEW d, NEW N,
         d.lastId = b.lastId, d.letter = b.letter, d.out = b.out,
         \A v \in Workers : d.worker[v].id = b.worker[v].id
  PROVE  Prepared(b, d, N, {}, {})
<1>1. Len(b.out) \in Nat /\ b.lastId \in Nat
  BY DEF BInv, BrokerType
<1>2. Continues(b.out, d.out) /\ Added(b.out, d.out) = {}
  BY <1>1 DEF Continues, Added
<1> QED
  BY <1>1, <1>2 DEF Prepared

LEMMA SendPrepared ==
  ASSUME NEW b, BInv(b), NEW m \in Messages, m.cmd # "REQUEST", NEW N
  PROVE  Prepared(b, Send(b, m), N, {}, {m})
<1> DEFINE d == Send(b, m)
<1>1. /\ d.worker = b.worker /\ d.letter = b.letter
      /\ d.lastId = b.lastId /\ d.out = Append(b.out, m)
  BY DEF BInv, BrokerType, Send
<1> HIDE DEF d
<1>2. /\ Len(b.out) \in Nat /\ Len(d.out) = Len(b.out) + 1
      /\ d.out[Len(b.out) + 1] = m
      /\ \A i \in 1 .. Len(b.out) : d.out[i] = b.out[i]
  BY <1>1 DEF BInv, BrokerType
<1>3. Continues(b.out, d.out) /\ Added(b.out, d.out) = {Len(b.out) + 1}
  BY <1>2 DEF Continues, Added
<1>4. {d.out[i] : i \in Added(b.out, d.out)} = {m}
  BY <1>2, <1>3
<1>5. Prepared(b, d, N, {}, {m})
  BY <1>1, <1>3, <1>4 DEF Prepared, BInv, BrokerType
<1> QED
  BY <1>5 DEF d

LEMMA RemoveWorkerPrepared ==
  ASSUME NEW b, BInv(b), NEW w \in Workers, NEW N
  PROVE  Prepared(b, RemoveWorker(b, w), N, {}, {})
<1> DEFINE d == RemoveWorker(b, w)
<1>1. /\ d.letter = b.letter /\ d.out = b.out /\ d.lastId = b.lastId
      /\ d.worker = [b.worker EXCEPT ![w] = [b.worker[w] EXCEPT !.state = "DISARMED"]]
  BY DEF BInv, BrokerType, RemoveWorker
<1>2. \A v \in Workers : d.worker[v].id = b.worker[v].id
  BY <1>1 DEF BInv, BrokerType, WorkerRow
<1> HIDE DEF d
<1>3. Prepared(b, d, N, {}, {})
  BY <1>1, <1>2, PreparedSame
<1> QED
  BY <1>3 DEF d

LEMMA PushWorkerPrepared ==
  ASSUME NEW b, BInv(b), NEW w \in Workers, NEW s \in Services, NEW t \in Nat,
         NEW N, w \in N \/ Known(b, w)
  PROVE  Prepared(b, PushWorker(b, w, s, t), N, {}, {})
<1> DEFINE d == PushWorker(b, w, s, t)
<1>0. b = [service |-> b.service, worker |-> b.worker, letter |-> b.letter,
           lastId |-> b.lastId, out |-> b.out, fault |-> b.fault]
  BY DEF BInv, BrokerType
<1>1. CASE Known(b, w)
  <2> DEFINE row == [b.worker[w] EXCEPT !.state = "ARMED", !.service = s,
                                        !.expiration = t + WorkerTTL]
  <2>1. d = [b EXCEPT !.worker[w] = row]
    BY <1>1 DEF PushWorker
  <2>2. row.id = b.worker[w].id
    BY DEF BInv, BrokerType, WorkerRow
  <2> HIDE DEF row, d
  <2>3. /\ d.letter = b.letter /\ d.out = b.out /\ d.lastId = b.lastId
        /\ d.worker = [b.worker EXCEPT ![w] = row]
    BY <1>0, <2>1
  <2>4. \A v \in Workers : d.worker[v].id = b.worker[v].id
    BY <2>2, <2>3 DEF BInv, BrokerType
  <2>5. Prepared(b, d, N, {}, {})
    BY <2>3, <2>4, PreparedSame
  <2> QED
    BY <2>5 DEF d
<1>2. CASE ~ Known(b, w)
  <2> DEFINE row == [id |-> b.lastId + 1, state |-> "ARMED", service |-> s,
                     letter |-> 0, expiration |-> t + WorkerTTL]
  <2>1. d = [b EXCEPT !.lastId = b.lastId + 1, !.worker[w] = row]
    BY <1>2 DEF PushWorker, FreshId
  <2> HIDE DEF row, d
  <2>2. /\ d.letter = b.letter /\ d.out = b.out /\ d.lastId = b.lastId + 1
        /\ d.worker = [b.worker EXCEPT ![w] = row]
    BY <1>0, <2>1
  <2>3. \A v \in Workers : v # w => d.worker[v].id = b.worker[v].id
    BY <2>2 DEF BInv, BrokerType
  <2>4. Len(b.out) \in Nat /\ b.lastId \in Nat
    BY DEF BInv, BrokerType
  <2>5. Continues(b.out, d.out) /\ Added(b.out, d.out) = {}
    BY <2>2, <2>4 DEF Continues, Added
  <2>6. Prepared(b, d, N, {}, {})
    BY <1>2, <2>2, <2>3, <2>4, <2>5 DEF Prepared
  <2> QED
    BY <2>6 DEF d
<1> QED
  BY <1>1, <1>2

LEMMA PushRequestPrepared ==
  ASSUME NEW b, BInv(b), NEW s \in Services, NEW c \in Clients, NEW body \in Bodies, NEW N
  PROVE  Prepared(b, PushRequestToService(b, s, c, body), N, {}, {})
<1> DEFINE n == b.lastId + 1
           row == [service |-> s, state |-> "UNASSIGNED", worker |-> n,
                   client |-> c, body |-> body]
           letters == [k \in DOMAIN b.letter \cup {n} |->
                         IF k = n THEN row ELSE b.letter[k]]
           d == [b EXCEPT !.lastId = n, !.letter = letters]
<1>1. PushRequestToService(b, s, c, body) = d
  BY DEF PushRequestToService, FreshId
<1>2. b.lastId \in Nat /\ n \notin DOMAIN b.letter /\ Len(b.out) \in Nat
  BY DEF BInv, BrokerType
<1>3. /\ DOMAIN letters = DOMAIN b.letter \cup {n} /\ letters[n].state = "UNASSIGNED"
      /\ \A k \in DOMAIN b.letter : letters[k] = b.letter[k]
  BY <1>2
<1> HIDE DEF letters
<1>4. /\ d.worker = b.worker /\ d.out = b.out /\ d.letter = letters /\ d.lastId = n
  BY DEF BInv, BrokerType
<1> HIDE DEF d
<1>5. Continues(b.out, d.out) /\ Added(b.out, d.out) = {}
  BY <1>2, <1>4 DEF Continues, Added
<1>6. Prepared(b, d, N, {}, {})
  BY <1>2, <1>3, <1>4, <1>5 DEF Prepared
<1> QED
  BY <1>1, <1>6

LEMMA ReleaseLetterPrepared ==
  ASSUME NEW b, BInv(b), NEW w \in Workers, Known(b, w), NEW N
  PROVE  Prepared(b, ReleaseLetterFromWorker(b, w), N, LettersOf(b, w), {})
<1>1. CASE LettersOf(b, w) = {}
  BY <1>1, PreparedSame DEF ReleaseLetterFromWorker
<1>2. CASE LettersOf(b, w) # {}
  <2> DEFINE l == CHOOSE k \in LettersOf(b, w) : TRUE
             wrow == [b.worker[w] EXCEPT !.state = "ARMED", !.letter = 0]
             letters == [k \in DOMAIN b.letter \ {l} |-> b.letter[k]]
             d == [b EXCEPT !.letter = letters, !.worker[w] = wrow]
  <2>1. l \in LettersOf(b, w)
    BY <1>2
  <2> HIDE DEF l
  <2>2. /\ l \in DOMAIN b.letter /\ b.letter[l].service = b.worker[w].service
        /\ LettersOf(b, w) = {l}
    BY <2>1, LettersOfWorker
  <2>3. ReleaseLetterFromWorker(b, w) = d
    BY <1>2, <2>2 DEF ReleaseLetterFromWorker, l
  <2>4. wrow.id = b.worker[w].id
    BY DEF BInv, BrokerType, WorkerRow
  <2>5. /\ DOMAIN letters = DOMAIN b.letter \ {l}
        /\ \A k \in DOMAIN letters : letters[k] = b.letter[k]
    OBVIOUS
  <2> HIDE DEF wrow, letters
  <2>6. /\ d.out = b.out /\ d.lastId = b.lastId
        /\ d.worker = [b.worker EXCEPT ![w] = wrow] /\ d.letter = letters
    BY DEF BInv, BrokerType
  <2> HIDE DEF d
  <2>7. \A v \in Workers : d.worker[v].id = b.worker[v].id
    BY <2>4, <2>6 DEF BInv, BrokerType
  <2>8. Len(b.out) \in Nat /\ b.lastId \in Nat
    BY DEF BInv, BrokerType
  <2>9. Continues(b.out, d.out) /\ Added(b.out, d.out) = {}
    BY <2>6, <2>8 DEF Continues, Added
  <2>10. Prepared(b, d, N, LettersOf(b, w), {})
    BY <2>2, <2>5, <2>6, <2>7, <2>8, <2>9 DEF Prepared
  <2> QED
    BY <2>3, <2>10
<1> QED
  BY <1>1, <1>2

-----------------------------------------------------------------------------
(* The handlers: how each of them gets from b to one of its outcomes.      *)

Reached(b, d, N, R, M) ==
  \E e : BInv(e) /\ Prepared(b, e, N, R, M) /\ Dispatched(e, d)

LEMMA ReachedAtOnce ==
  ASSUME NEW b, NEW d, BInv(d), NEW N, NEW R, NEW M, Prepared(b, d, N, R, M)
  PROVE  Reached(b, d, N, R, M)
BY DispatchedSame DEF Reached

LEMMA WorkerWaitingReached ==
  ASSUME NEW b, BInv(b), NEW e, BInv(e), NEW w \in Workers, NEW s \in Services, NEW t \in Nat,
         NEW N, NEW R, NEW M, Prepared(b, e, N, R, M),
         Registered(e, s), w \in N \/ Known(e, w), Known(e, w) => e.worker[w].service = s
  PROVE  \A d \in WorkerWaiting(e, w, s, t) : Reached(b, d, N, R, M)
<1> DEFINE f == PushWorker(e, w, s, t)
<1>1. BInv(f) /\ Prepared(e, f, N, {}, {})
  BY PushWorkerInv, PushWorkerPrepared
<1> HIDE DEF f
<1>2. Prepared(b, f, N, R, M \cup {})
  BY <1>1, PreparedTwice
<1>3. Prepared(b, f, N, R, M)
  BY <1>2, M \cup {} = M
<1>4. \A d \in ServiceDispatch(f, s, t) : Dispatched(f, d)
  BY <1>1, DispatchDispatched
<1> QED
  BY <1>1, <1>3, <1>4 DEF WorkerWaiting, Reached, f

LEMMA ReadyReached ==
  ASSUME NEW b, BInv(b), NEW w \in Workers, NEW s \in Services, NEW ep \in Endpoints,
         NEW t \in Nat, NEW d \in ProcessReady(b, w, s, ep, t)
  PROVE  Reached(b, d, {w}, {}, IF Known(b, w) THEN {[to |-> w, cmd |-> "DISCONNECT"]} ELSE {})
<1>0. BInv(d)
  BY ReadyInv
<1>1. CASE Known(b, w)
  <2> DEFINE m == [to |-> w, cmd |-> "DISCONNECT"]
  <2>1. m \in Messages /\ m.cmd # "REQUEST"
    BY DEF Messages
  <2> HIDE DEF m
  <2>2. BInv(Send(b, m)) /\ Prepared(b, Send(b, m), {w}, {}, {m})
    BY <2>1, SendInv, SendPrepared
  <2>3. d = RemoveWorker(Send(b, m), w)
    BY <1>1 DEF ProcessReady, Release, m
  <2>4. Prepared(Send(b, m), d, {w}, {}, {})
    BY <2>2, <2>3, RemoveWorkerPrepared
  <2>5. Prepared(b, d, {w}, {}, {m} \cup {})
    BY <1>0, <2>2, <2>4, PreparedTwice
  <2>6. Prepared(b, d, {w}, {}, {m})
    BY <2>5, {m} \cup {} = {m}
  <2> QED
    BY <1>0, <1>1, <2>6, ReachedAtOnce DEF m
<1>2. CASE ~ Known(b, w) /\ w \in Reserved
  <2>1. d = Fault(b, "release_null")
    BY <1>2 DEF ProcessReady
  <2>2. d.lastId = b.lastId /\ d.letter = b.letter /\ d.out = b.out /\ d.worker = b.worker
    BY <2>1 DEF Fault, BInv, BrokerType
  <2>3. Prepared(b, d, {w}, {}, {})
    BY <2>2, PreparedSame
  <2> QED
    BY <1>0, <1>2, <2>3, ReachedAtOnce
<1>3. CASE ~ Known(b, w) /\ w \notin Reserved
  <2> DEFINE e == [b EXCEPT !.service[s] = ep]
  <2>1. BInv(e) /\ Registered(e, s) /\ e.worker = b.worker
    BY EndpointInv
  <2>2. e.lastId = b.lastId /\ e.letter = b.letter /\ e.out = b.out
    BY DEF BInv, BrokerType
  <2>3. d \in UNION {ServiceDispatch(c, s, t) : c \in WorkerWaiting(e, w, s, t)}
    BY <1>3 DEF ProcessReady
  <2> HIDE DEF e
  <2>4. Prepared(b, e, {w}, {}, {})
    BY <2>1, <2>2, PreparedSame
  <2>5. PICK c \in WorkerWaiting(e, w, s, t) : d \in ServiceDispatch(c, s, t)
    BY <2>3
  <2>6. BInv(c) /\ Reached(b, c, {w}, {}, {})
    BY <1>3, <2>1, <2>4, WorkerWaitingInv, WorkerWaitingReached DEF Known
  <2>7. PICK f : BInv(f) /\ Prepared(b, f, {w}, {}, {}) /\ Dispatched(f, c)
    BY <2>6 DEF Reached
  <2>8. Dispatched(c, d)
    BY <2>5, <2>6, DispatchDispatched
  <2>9. Dispatched(f, d)
    BY <1>0, <2>6, <2>7, <2>8, DispatchedOnce
  <2> QED
    BY <1>3, <2>7, <2>9 DEF Reached
<1> QED
  BY <1>1, <1>2, <1>3

ReportSent(b, w, c, body) ==
  [to |-> c, cmd |-> "REPORT", service |-> b.worker[w].service, body |-> body]

LEMMA ReportReached ==
  ASSUME NEW b, BInv(b), b.fault = "none", NEW w \in Workers, NEW c \in Clients,
         NEW body \in Bodies, NEW t \in Nat, NEW d \in ProcessReport(b, w, c, body, t)
  PROVE  IF Known(b, w) THEN Reached(b, d, {}, LettersOf(b, w), {ReportSent(b, w, c, body)})
                        ELSE Reached(b, d, {}, {}, {[to |-> w, cmd |-> "DISCONNECT"]})
<1>0. BInv(d)
  BY ReportInv
<1>1. CASE ~ Known(b, w)
  <2> DEFINE m == [to |-> w, cmd |-> "DISCONNECT"]
  <2>1. m \in Messages /\ m.cmd # "REQUEST" /\ d = Send(b, m)
    BY <1>1 DEF ProcessReport, Messages
  <2> QED
    BY <1>0, <1>1, <2>1, SendPrepared, ReachedAtOnce
<1>2. CASE Known(b, w)
  <2> DEFINE e == ReleaseLetterFromWorker(b, w)
             s == b.worker[w].service
             m == [to |-> c, cmd |-> "REPORT", service |-> s, body |-> body]
             R == LettersOf(b, w)
  <2>1. /\ BInv(e) /\ e.fault = "none" /\ Known(e, w) /\ e.worker[w].service = s
        /\ Prepared(b, e, {}, R, {})
    BY <1>2, ReleaseLetterInv, ReleaseLetterPrepared
  <2>2. s \in Services
    BY <1>2 DEF BInv, WorkersRegistered
  <2>3. m \in Messages /\ m.cmd # "REQUEST"
    BY <2>2 DEF Messages
  <2>4. ProcessReport(b, w, c, body, t) = WorkerWaiting(Send(e, m), w, s, t)
    BY <1>2, <2>1 DEF ProcessReport
  <2> HIDE DEF e, m, R
  <2>5. /\ BInv(Send(e, m)) /\ Prepared(e, Send(e, m), {}, {}, {m})
        /\ Send(e, m).worker = e.worker /\ Send(e, m).service = e.service
    BY <2>1, <2>3, SendInv, SendPrepared DEF Send, BInv, BrokerType
  <2>6. Prepared(b, Send(e, m), {}, R, {} \cup {m})
    BY <2>1, <2>5, PreparedTwice
  <2>7. Prepared(b, Send(e, m), {}, R, {m})
    BY <2>6, {} \cup {m} = {m}
  <2>8. Registered(Send(e, m), s)
    BY <2>1, <2>5 DEF BInv, WorkersRegistered, Registered
  <2>9. Reached(b, d, {}, R, {m})
    BY <2>1, <2>2, <2>4, <2>5, <2>7, <2>8, WorkerWaitingReached DEF Known
  <2> QED
    BY <1>2, <2>9 DEF R, m, ReportSent
<1> QED
  BY <1>1, <1>2

LEMMA HeartbeatReached ==
  ASSUME NEW b, BInv(b), NEW w \in Workers, NEW t \in Nat, NEW d \in ProcessHeartbeat(b, w, t)
  PROVE  Reached(b, d, {}, {}, {})
<1>0. Prepared(b, b, {}, {}, {})
  BY PreparedSame
<1>1. CASE Known(b, w)
  <2>1. b.worker[w].service \in Services /\ Registered(b, b.worker[w].service)
    BY <1>1 DEF BInv, WorkersRegistered
  <2> QED
    BY <1>0, <1>1, <2>1, WorkerWaitingReached DEF ProcessHeartbeat
<1>2. CASE ~ Known(b, w)
  BY <1>0, <1>2, ReachedAtOnce DEF ProcessHeartbeat
<1> QED
  BY <1>1, <1>2

LEMMA DisconnectReached ==
  ASSUME NEW b, BInv(b), NEW w \in Workers, NEW d \in ProcessDisconnect(b, w)
  PROVE  Reached(b, d, {}, {}, {})
<1>0. BInv(d)
  BY DisconnectInv
<1>1. CASE Known(b, w)
  BY <1>0, <1>1, RemoveWorkerPrepared, ReachedAtOnce DEF ProcessDisconnect, Release
<1>2. CASE ~ Known(b, w)
  <2>1. d = Fault(b, "release_null")
    BY <1>2 DEF ProcessDisconnect
  <2>2. d.lastId = b.lastId /\ d.letter = b.letter /\ d.out = b.out /\ d.worker = b.worker
    BY <2>1 DEF Fault, BInv, BrokerType
  <2>3. Prepared(b, d, {}, {}, {})
    BY <2>2, PreparedSame
  <2> QED
    BY <1>0, <2>3, ReachedAtOnce
<1> QED
  BY <1>1, <1>2

LEMMA ClientReached ==
  ASSUME NEW b, BInv(b), NEW c \in Clients, NEW s \in Services, NEW body \in Bodies,
         NEW t \in Nat, NEW d \in ProcessClient(b, c, s, body, t)
  PROVE  Reached(b, d, {}, {}, IF Registered(b, s) THEN {} ELSE {[to |-> c, cmd |-> "NAK"]})
<1>0. BInv(d)
  BY ClientInv
<1>1. CASE Registered(b, s)
  <2> DEFINE e == PushRequestToService(b, s, c, body)
  <2>1. BInv(e) /\ Prepared(b, e, {}, {}, {})
    BY PushRequestInv, PushRequestPrepared
  <2>2. d \in ServiceDispatch(e, s, t)
    BY <1>1 DEF ProcessClient
  <2> HIDE DEF e
  <2>3. Dispatched(e, d)
    BY <2>1, <2>2, DispatchDispatched
  <2> QED
    BY <1>1, <2>1, <2>3 DEF Reached
<1>2. CASE ~ Registered(b, s)
  <2> DEFINE m == [to |-> c, cmd |-> "NAK"]
  <2>1. m \in Messages /\ m.cmd # "REQUEST" /\ d = Send(b, m)
    BY <1>2 DEF ProcessClient, Messages
  <2> QED
    BY <1>0, <1>2, <2>1, SendPrepared, ReachedAtOnce
<1> QED
  BY <1>1, <1>2

LEMMA InternalReached ==
  ASSUME NEW b, BInv(b), NEW c \in Clients, NEW s \in Services,
         NEW request \in {"mmi.service", "mmi.filter", "mmi.other"},
         NEW d \in ServiceInternal(b, c, request, s)
  PROVE  \E M : Reached(b, d, {}, {}, M)
<1>0. BInv(d)
  BY InternalInv
<1>1. CASE d = b
  BY <1>0, <1>1, PreparedSame, ReachedAtOnce
<1>2. ASSUME NEW m \in Messages, m.cmd # "REQUEST", d = Send(b, m)
      PROVE  Reached(b, d, {}, {}, {m})
  BY <1>0, <1>2, SendPrepared, ReachedAtOnce
<1>3. ASSUME NEW code \in {200, 404, 501}, NEW ep \in Endpoints \cup {NoEndpoint}
      PROVE  MmiReply(c, code, ep) \in Messages /\ MmiReply(c, code, ep).cmd # "REQUEST"
  BY DEF MmiReply, Messages
<1>4. b.service[s] \in Endpoints \cup {NoEndpoint}
  BY DEF BInv, BrokerType
<1>5. \/ d = b
      \/ \E code \in {200, 404, 501}, ep \in Endpoints \cup {NoEndpoint} :
           d = Send(b, MmiReply(c, code, ep))
  <2>1. CASE request = "mmi.service"
    BY <1>4, <2>1 DEF ServiceInternal
  <2>2. CASE request = "mmi.filter"
    BY <2>2 DEF ServiceInternal
  <2>3. CASE request = "mmi.other"
    BY <2>3 DEF ServiceInternal
  <2> QED
    BY <2>1, <2>2, <2>3
<1>6. CASE d # b
  <2>1. PICK code \in {200, 404, 501}, ep \in Endpoints \cup {NoEndpoint} :
          d = Send(b, MmiReply(c, code, ep))
    BY <1>5, <1>6
  <2>2. Reached(b, d, {}, {}, {MmiReply(c, code, ep)})
    BY <1>2, <1>3, <2>1
  <2> QED
    BY <2>2
<1> QED
  BY <1>1, <1>6

(* The end of a turn purges workers, which dispatches nothing.             *)
LEMMA TurnOutcome ==
  ASSUME NEW b, BInv(b), b.out = <<>>, NEW c, BInv(c), NEW N, NEW R, NEW M,
         Reached(b, c, N, R, M), NEW d \in EndOfTurn(c)
  PROVE  BInv(d) /\ Outcome(b, d, N, R, M)
<1>1. PICK e : BInv(e) /\ Prepared(b, e, N, R, M) /\ Dispatched(e, c)
  BY DEF Reached
<1>2. BInv(d) /\ Dispatched(c, d)
  BY PurgeInv, PurgeDispatched, DispatchedSame DEF EndOfTurn
<1>3. Dispatched(e, d)
  BY <1>1, <1>2, DispatchedOnce
<1>4. /\ b.lastId <= d.lastId
      /\ DOMAIN b.letter \ DOMAIN d.letter = R
      /\ \A l \in DOMAIN b.letter \cap DOMAIN d.letter :
           b.letter[l].state = "ASSIGNED" => d.letter[l] = b.letter[l]
      /\ \A l \in DOMAIN d.letter \ DOMAIN b.letter : l > b.lastId
      /\ \A v \in Workers : d.worker[v].id = b.worker[v].id \/ (v \in N /\ ~ Known(b, v))
  BY <1>1, <1>3 DEF Prepared, Dispatched
<1>5. /\ Len(b.out) = 0 /\ Len(e.out) \in Nat /\ Len(d.out) \in Nat
      /\ DOMAIN d.out = 1 .. Len(d.out)
  BY <1>1, <1>2 DEF BInv, BrokerType
<1>6. /\ Added(b.out, e.out) = 1 .. Len(e.out) /\ Len(e.out) <= Len(d.out)
      /\ \A i \in 1 .. Len(e.out) : d.out[i] = e.out[i]
      /\ Added(e.out, d.out) = {i \in DOMAIN d.out : i > Len(e.out)}
  BY <1>3, <1>5 DEF Added, Dispatched, Continues
<1>7. {e.out[i] : i \in 1 .. Len(e.out)} = M /\ \A m \in M : m.cmd # "REQUEST"
  BY <1>1, <1>6 DEF Prepared
<1>8. \A i \in DOMAIN d.out : i <= Len(e.out) => d.out[i] \in M
  BY <1>5, <1>6, <1>7
<1>9. ASSUME NEW i \in DOMAIN d.out, i > Len(e.out)
      PROVE  d.out[i].cmd = "REQUEST" /\ Given(b, d, d.out[i])
  <2>1. d.out[i].cmd = "REQUEST" /\ Given(e, d, d.out[i])
    BY <1>3, <1>6, <1>9 DEF Dispatched
  <2>2. d.out[i].letter \in DOMAIN e.letter
    BY <1>3, <2>1 DEF Given, Dispatched
  <2>3. d.out[i].letter \in DOMAIN b.letter => b.letter[d.out[i].letter].state = "UNASSIGNED"
    BY <1>1, <2>1, <2>2 DEF Given, Prepared
  <2> QED
    BY <2>1, <2>3 DEF Given
<1>10. \A i, j \in DOMAIN d.out :
         /\ d.out[i].cmd = "REQUEST" /\ d.out[j].cmd = "REQUEST"
         /\ d.out[i].letter = d.out[j].letter
         => i = j
  <2>1. ASSUME NEW i \in DOMAIN d.out, d.out[i].cmd = "REQUEST"
        PROVE  i \in Added(e.out, d.out)
    BY <1>5, <1>6, <1>7, <1>8, <2>1
  <2> QED
    BY <1>3, <2>1 DEF Dispatched
<1>11. M \subseteq {d.out[i] : i \in DOMAIN d.out}
  BY <1>5, <1>6, <1>7
<1>12. \A i \in DOMAIN d.out : IF d.out[i].cmd = "REQUEST" THEN Given(b, d, d.out[i])
                                                           ELSE d.out[i] \in M
  <2>1. \A i \in DOMAIN d.out : i <= Len(e.out) \/ i > Len(e.out)
    BY <1>5
  <2> QED
    BY <1>7, <1>8, <1>9, <2>1
<1> QED
  BY <1>2, <1>4, <1>10, <1>11, <1>12 DEF Outcome

-----------------------------------------------------------------------------
(* The specification.                                                      *)

IInv == now \in Nat /\ BInv(broker)

LEMMA InitInv == Init => IInv
<1> SUFFICES ASSUME Init
             PROVE  BInv(broker)
  BY DEF IInv, Init
<1>1. /\ broker.service = [s \in Services |-> NoEndpoint]
      /\ broker.worker = [w \in Workers |-> UnknownWorker]
      /\ DOMAIN broker.letter = {} /\ broker.letter = [l \in {} |-> 0]
      /\ broker.lastId = 0 /\ broker.out = <<>> /\ broker.fault = "none"
      /\ broker = [service |-> broker.service, worker |-> broker.worker,
                   letter |-> broker.letter, lastId |-> broker.lastId,
                   out |-> broker.out, fault |-> broker.fault]
  BY DEF Init, EmptyDatabase
<1>2. UnknownWorker \in WorkerRow
  BY DEF UnknownWorker, WorkerRow, WorkerStates
<1>3. /\ UnknownWorker.id = 0 /\ UnknownWorker.letter = 0
      /\ UnknownWorker.state = "INIT"
  BY DEF UnknownWorker
<1>4. broker.letter \in [DOMAIN broker.letter -> LetterRow]
  BY <1>1
<1>5. BrokerType(broker)
  BY <1>1, <1>2, <1>3, <1>4 DEF BrokerType, Faults
<1>6. WorkersRegistered(broker) /\ DistinctIds(broker)
  BY <1>1, <1>3 DEF WorkersRegistered, DistinctIds, Known
<1>7. /\ WaitingRefersToItself(broker) /\ AssignedHasHolder(broker)
      /\ HolderHasLetter(broker) /\ OccupiedHasLetter(broker)
  BY <1>1, <1>3 DEF WaitingRefersToItself, AssignedHasHolder, HolderHasLetter,
     OccupiedHasLetter
<1> QED
  BY <1>1, <1>5, <1>6, <1>7 DEF BInv

(* A turn whose outcomes have BInv keeps it, with the purge at its end.    *)
LEMMA TurnInv ==
  ASSUME IInv, NEW outcomes, \A d \in outcomes : BInv(d), Turn(outcomes)
  PROVE  IInv'
<1>1. PICK d \in outcomes : broker' \in EndOfTurn(d)
  BY DEF Turn, Leaves
<1>2. \A e \in EndOfTurn(d) : BInv(e)
  BY PurgeInv DEF EndOfTurn
<1>3. now' \in Nat
  BY DEF Turn, Leaves, IInv
<1> QED
  BY <1>1, <1>2, <1>3 DEF IInv, BInv

LEMMA ClearedInv ==
  ASSUME IInv
  PROVE  BInv(Cleared) /\ Cleared.fault = broker.fault
<1> DEFINE d == Cleared
<1>1. /\ d.service = broker.service /\ d.worker = broker.worker
      /\ d.letter = broker.letter /\ d.lastId = broker.lastId
      /\ d.fault = broker.fault /\ d.out = <<>>
  BY DEF IInv, BInv, BrokerType, Cleared
<1>2. d = [service |-> d.service, worker |-> d.worker, letter |-> d.letter,
          lastId |-> d.lastId, out |-> d.out, fault |-> d.fault]
  BY DEF IInv, BInv, BrokerType, Cleared
<1> HIDE DEF d
<1>3. BrokerType(d)
  BY <1>1, <1>2 DEF IInv, BInv, BrokerType
<1>4. BInv(d)
  BY <1>1, <1>3 DEF IInv, BInv, WorkersRegistered, DistinctIds, WaitingRefersToItself,
     AssignedHasHolder, HolderHasLetter, OccupiedHasLetter, Known, Registered
<1> QED
  BY <1>1, <1>4 DEF d

LEMMA NextInv == IInv /\ [Next]_vars => IInv'
<1> SUFFICES ASSUME IInv, [Next]_vars
             PROVE  IInv'
  OBVIOUS
<1>0. now \in Nat /\ BInv(Cleared) /\ Cleared.fault = broker.fault
  BY ClearedInv DEF IInv
<1>1. ASSUME NEW w \in Workers, NEW s \in Services, NEW ep \in Endpoints, Ready(w, s, ep)
      PROVE  IInv'
  BY <1>0, <1>1, ReadyInv, TurnInv DEF Ready
<1>2. ASSUME NEW w \in Workers, NEW c \in Clients, NEW body \in Bodies, Report(w, c, body)
      PROVE  IInv'
  <2>1. broker.fault = "none"
    BY <1>2 DEF Report, Turn, Leaves
  <2> QED
    BY <1>0, <1>2, <2>1, ReportInv, TurnInv DEF Report
<1>3. ASSUME NEW w \in Workers, Heartbeat(w)
      PROVE  IInv'
  BY <1>0, <1>3, HeartbeatInv, TurnInv DEF Heartbeat
<1>4. ASSUME NEW w \in Workers, Disconnect(w)
      PROVE  IInv'
  BY <1>0, <1>4, DisconnectInv, TurnInv DEF Disconnect
<1>5. ASSUME NEW c \in Clients, NEW s \in Services, NEW body \in Bodies, Request(c, s, body)
      PROVE  IInv'
  BY <1>0, <1>5, ClientInv, TurnInv DEF Request
<1>6. ASSUME NEW c \in Clients, NEW s \in Services,
             NEW req \in {"mmi.service", "mmi.filter", "mmi.other"}, Internal(c, req, s)
      PROVE  IInv'
  BY <1>0, <1>6, InternalInv, TurnInv DEF Internal
<1>7. CASE Timeout
  BY <1>0, <1>7, TurnInv DEF Timeout
<1>8. CASE Tick
  BY <1>8 DEF Tick, IInv, BInv
<1>9. CASE UNCHANGED vars
  BY <1>9 DEF vars, IInv, BInv
<1> QED
  BY <1>1, <1>2, <1>3, <1>4, <1>5, <1>6, <1>7, <1>8, <1>9 DEF Next

LEMMA Invariance == Spec => []IInv
BY InitInv, NextInv, PTL DEF Spec

(* The rows of the three tables keep their types, and ids are given out    *)
(* before they are used, in every behaviour of the broker.                 *)
THEOREM TypeCorrect == Spec => []TypeOK
<1>1. IInv => TypeOK
  BY DEF IInv, BInv, TypeOK
<1> QED
  BY <1>1, Invariance, PTL

(* Workers and assigned letters refer to each other, one to one and within *)
(* a service.                                                              *)
THEOREM CrossReferencesHold == Spec => []CrossReferences
<1>1. IInv => CrossReferences
  BY DEF IInv, BInv, CrossReferences
<1> QED
  BY <1>1, Invariance, PTL

(* No two letters are assigned to one worker, for any number of workers.   *)
THEOREM OneLetter == Spec => []OneLetterPerWorker
<1>1. IInv => OneLetterPerWorker
  BY DEF IInv, BInv, OneLetterPerWorker, AssignedHasHolder, DistinctIds
<1> QED
  BY <1>1, Invariance, PTL

(* A REPORT releases a letter that was assigned, never one that waits.     *)
THEOREM NoPlaceholder == Spec => []PlaceholderIsNoWorker
<1>1. IInv => PlaceholderIsNoWorker
  BY LettersOfWorker DEF IInv, PlaceholderIsNoWorker
<1> QED
  BY <1>1, Invariance, PTL

(* The assertion on the service of a released letter never fails.          *)
THEOREM AssertionHolds == Spec => []ReleasedLetterIsOfService
<1>1. IInv => ReleasedLetterIsOfService
  BY DEF IInv, BInv, ReleasedLetterIsOfService
<1> QED
  BY <1>1, Invariance, PTL

-----------------------------------------------------------------------------
(* What a turn of the broker may never do.                                 *)

(* Every turn has an outcome; one that releases a letter is that of a      *)
(* REPORT, whose reply it sends.                                           *)
LEMMA TurnHasOutcome ==
  ASSUME IInv, Next
  PROVE  \/ UNCHANGED broker
         \/ \E N, R, M :
              /\ Outcome(Cleared, broker', N, R, M)
              /\ \/ R = {}
                 \/ \E w \in Workers, c \in Clients, body \in Bodies :
                      /\ Known(Cleared, w)
                      /\ R = LettersOf(Cleared, w)
                      /\ M = {ReportSent(Cleared, w, c, body)}
<1>0. now \in Nat /\ BInv(Cleared) /\ Cleared.fault = broker.fault /\ Cleared.out = <<>>
  BY ClearedInv DEF IInv, Cleared, BInv, BrokerType
<1>1. ASSUME NEW outcomes, \A d \in outcomes : BInv(d), Turn(outcomes), NEW N, NEW R, NEW M,
             \A d \in outcomes : Reached(Cleared, d, N, R, M)
      PROVE  Outcome(Cleared, broker', N, R, M)
  <2>1. PICK d \in outcomes : broker' \in EndOfTurn(d)
    BY <1>1 DEF Turn, Leaves
  <2> QED
    BY <1>0, <1>1, <2>1, TurnOutcome
<1>2. ASSUME NEW w \in Workers, NEW s \in Services, NEW ep \in Endpoints, Ready(w, s, ep)
      PROVE  \E N, M : Outcome(Cleared, broker', N, {}, M)
  <2> DEFINE M == IF Known(Cleared, w) THEN {[to |-> w, cmd |-> "DISCONNECT"]} ELSE {}
  <2>1. \A d \in ProcessReady(Cleared, w, s, ep, now) :
          BInv(d) /\ Reached(Cleared, d, {w}, {}, M)
    BY <1>0, ReadyInv, ReadyReached
  <2> HIDE DEF M
  <2>2. Outcome(Cleared, broker', {w}, {}, M)
    BY <1>1, <1>2, <2>1 DEF Ready
  <2> QED
    BY <2>2
<1>3. ASSUME NEW w \in Workers, NEW c \in Clients, NEW body \in Bodies, Report(w, c, body)
      PROVE  \E R, M :
               /\ Outcome(Cleared, broker', {}, R, M)
               /\ R = {} \/ (/\ Known(Cleared, w) /\ R = LettersOf(Cleared, w)
                             /\ M = {ReportSent(Cleared, w, c, body)})
  <2>0. Cleared.fault = "none"
    BY <1>0, <1>3 DEF Report, Turn, Leaves
  <2> DEFINE R == IF Known(Cleared, w) THEN LettersOf(Cleared, w) ELSE {}
             M == IF Known(Cleared, w) THEN {ReportSent(Cleared, w, c, body)}
                                       ELSE {[to |-> w, cmd |-> "DISCONNECT"]}
  <2>1. \A d \in ProcessReport(Cleared, w, c, body, now) :
          BInv(d) /\ Reached(Cleared, d, {}, R, M)
    BY <1>0, <2>0, ReportInv, ReportReached
  <2>2. R = {} \/ (Known(Cleared, w) /\ R = LettersOf(Cleared, w)
                     /\ M = {ReportSent(Cleared, w, c, body)})
    OBVIOUS
  <2> HIDE DEF R, M
  <2>3. Outcome(Cleared, broker', {}, R, M)
    BY <1>1, <1>3, <2>1 DEF Report
  <2> QED
    BY <2>2, <2>3
<1>4. ASSUME NEW w \in Workers, Heartbeat(w) \/ Disconnect(w)
      PROVE  Outcome(Cleared, broker', {}, {}, {})
  <2>1. \A d \in ProcessHeartbeat(Cleared, w, now) : BInv(d) /\ Reached(Cleared, d, {}, {}, {})
    BY <1>0, HeartbeatInv, HeartbeatReached
  <2>2. \A d \in ProcessDisconnect(Cleared, w) : BInv(d) /\ Reached(Cleared, d, {}, {}, {})
    BY <1>0, DisconnectInv, DisconnectReached
  <2> QED
    BY <1>1, <1>4, <2>1, <2>2 DEF Heartbeat, Disconnect
<1>5. ASSUME NEW c \in Clients, NEW s \in Services, NEW body \in Bodies, Request(c, s, body)
      PROVE  \E M : Outcome(Cleared, broker', {}, {}, M)
  <2> DEFINE M == IF Registered(Cleared, s) THEN {} ELSE {[to |-> c, cmd |-> "NAK"]}
  <2>1. \A d \in ProcessClient(Cleared, c, s, body, now) :
          BInv(d) /\ Reached(Cleared, d, {}, {}, M)
    BY <1>0, ClientInv, ClientReached
  <2> HIDE DEF M
  <2>2. Outcome(Cleared, broker', {}, {}, M)
    BY <1>1, <1>5, <2>1 DEF Request
  <2> QED
    BY <2>2
<1>6. ASSUME NEW c \in Clients, NEW s \in Services,
             NEW req \in {"mmi.service", "mmi.filter", "mmi.other"}, Internal(c, req, s)
      PROVE  \E M : Outcome(Cleared, broker', {}, {}, M)
  <2>1. PICK d \in ServiceInternal(Cleared, c, req, s) : broker' \in EndOfTurn(d)
    BY <1>6 DEF Internal, Turn, Leaves
  <2>2. BInv(d) /\ \E M : Reached(Cleared, d, {}, {}, M)
    BY <1>0, InternalInv, InternalReached
  <2> QED
    BY <1>0, <2>1, <2>2, TurnOutcome
<1>7. ASSUME Timeout
      PROVE  Outcome(Cleared, broker', {}, {}, {})
  <2>1. Reached(Cleared, Cleared, {}, {}, {})
    BY <1>0, PreparedSame, ReachedAtOnce
  <2>2. Outcome(Cleared, broker', {}, {}, {})
    BY <1>0, <1>1, <1>7, <2>1 DEF Timeout
  <2> QED
    BY <2>2
<1>8. Tick => UNCHANGED broker
  BY DEF Tick
<1> DEFINE Told == \E N, R, M :
              /\ Outcome(Cleared, broker', N, R, M)
              /\ \/ R = {}
                 \/ \E w \in Workers, c \in Clients, body \in Bodies :
                      /\ Known(Cleared, w)
                      /\ R = LettersOf(Cleared, w)
                      /\ M = {ReportSent(Cleared, w, c, body)}
<1>9. ASSUME NEW N, NEW M, Outcome(Cleared, broker', N, {}, M)
      PROVE  Told
  BY <1>9
<1>10. ASSUME NEW w \in Workers, NEW s \in Services, NEW ep \in Endpoints, Ready(w, s, ep)
       PROVE  Told
  <2> HIDE DEF Told
  <2> QED
    BY <1>2, <1>9, <1>10
<1>11. ASSUME NEW w \in Workers, NEW c \in Clients, NEW body \in Bodies, Report(w, c, body)
       PROVE  Told
  BY <1>3, <1>11
<1> HIDE DEF Told
<1>12. ASSUME NEW w \in Workers, Heartbeat(w) \/ Disconnect(w)
       PROVE  Told
  BY <1>4, <1>9, <1>12
<1>13. ASSUME NEW c \in Clients, NEW s \in Services, NEW body \in Bodies, Request(c, s, body)
       PROVE  Told
  BY <1>5, <1>9, <1>13
<1>14. ASSUME NEW c \in Clients, NEW s \in Services,
              NEW req \in {"mmi.service", "mmi.filter", "mmi.other"}, Internal(c, req, s)
       PROVE  Told
  BY <1>6, <1>9, <1>14
<1>15. UNCHANGED broker \/ Told
  BY <1>7, <1>8, <1>9, <1>10, <1>11, <1>12, <1>13, <1>14 DEF Next
<1> QED
  BY <1>15 DEF Told

(* A letter is sent to a worker at most once, and to the one it is then    *)
(* assigned to.                                                            *)
THEOREM SentOnce == Spec => RequestSentOnce
<1>1. ASSUME IInv, [Next]_vars, broker' # broker, NEW m \in Sent("REQUEST")
      PROVE  /\ m.letter \in DOMAIN broker.letter => broker.letter[m.letter].state = "UNASSIGNED"
             /\ broker'.worker[m.to].letter = m.letter
             /\ broker'.worker[m.to].state = "OCCUPIED"
             /\ broker'.letter[m.letter].state = "ASSIGNED"
  <2>1. PICK N, R, M : Outcome(Cleared, broker', N, R, M)
    BY <1>1, TurnHasOutcome DEF vars
  <2>2. Cleared.letter = broker.letter
    BY <1>1 DEF Cleared, IInv, BInv, BrokerType
  <2>3. Given(Cleared, broker', m)
    BY <1>1, <2>1 DEF Sent, Outcome
  <2> QED
    BY <2>2, <2>3 DEF Given
<1>2. IInv /\ [Next]_vars =>
        [\A m \in Sent("REQUEST") :
           /\ m.letter \in DOMAIN broker.letter => broker.letter[m.letter].state = "UNASSIGNED"
           /\ broker'.worker[m.to].letter = m.letter
           /\ broker'.worker[m.to].state = "OCCUPIED"
           /\ broker'.letter[m.letter].state = "ASSIGNED"]_broker
  BY <1>1
<1> QED
  BY <1>2, Invariance, PTL DEF Spec, RequestSentOnce

(* A letter leaves the table when its worker reports, one at a time, and a *)
(* client is sent the report; an assigned letter is never changed.         *)
THEOREM LeavesByReport == Spec => LetterLeavesByReport
<1>1. ASSUME IInv, [Next]_vars, broker' # broker, NEW l \in DOMAIN broker.letter
      PROVE  IF l \in DOMAIN broker'.letter
               THEN broker.letter[l].state = "ASSIGNED" => broker'.letter[l] = broker.letter[l]
               ELSE /\ broker.letter[l].state = "ASSIGNED"
                    /\ DOMAIN broker.letter \ DOMAIN broker'.letter = {l}
                    /\ \E m \in Sent("REPORT") : m.service = broker.letter[l].service
  <2>1. PICK N, R, M :
          /\ Outcome(Cleared, broker', N, R, M)
          /\ \/ R = {}
             \/ \E w \in Workers, c \in Clients, body \in Bodies :
                  /\ Known(Cleared, w)
                  /\ R = LettersOf(Cleared, w)
                  /\ M = {ReportSent(Cleared, w, c, body)}
    BY <1>1, TurnHasOutcome DEF vars
  <2>2. Cleared.letter = broker.letter /\ BInv(Cleared)
    BY <1>1, ClearedInv DEF Cleared, IInv, BInv, BrokerType
  <2>3. CASE l \in DOMAIN broker'.letter
    BY <2>1, <2>2, <2>3 DEF Outcome
  <2>4. CASE l \notin DOMAIN broker'.letter
    <3>1. l \in R /\ DOMAIN broker.letter \ DOMAIN broker'.letter = R
      BY <2>1, <2>2, <2>4 DEF Outcome
    <3>2. PICK w \in Workers, c \in Clients, body \in Bodies :
            /\ Known(Cleared, w)
            /\ R = LettersOf(Cleared, w)
            /\ M = {ReportSent(Cleared, w, c, body)}
      BY <2>1, <3>1
    <3>3. /\ broker.letter[l].state = "ASSIGNED" /\ R = {l}
          /\ broker.letter[l].service = Cleared.worker[w].service
      BY <2>2, <3>1, <3>2, LettersOfWorker
    <3>4. ReportSent(Cleared, w, c, body) \in Sent("REPORT")
      BY <2>1, <3>2 DEF Outcome, Sent, ReportSent
    <3> QED
      BY <2>4, <3>1, <3>3, <3>4 DEF ReportSent
  <2> QED
    BY <2>3, <2>4
<1>2. IInv /\ [Next]_vars =>
        [\A l \in DOMAIN broker.letter :
           IF l \in DOMAIN broker'.letter
             THEN broker.letter[l].state = "ASSIGNED" => broker'.letter[l] = broker.letter[l]
             ELSE /\ broker.letter[l].state = "ASSIGNED"
                  /\ DOMAIN broker.letter \ DOMAIN broker'.letter = {l}
                  /\ \E m \in Sent("REPORT") : m.service = broker.letter[l].service]_broker
  BY <1>1
<1> QED
  BY <1>2, Invariance, PTL DEF Spec, LetterLeavesByReport

-----------------------------------------------------------------------------
(* The broker keeps the promises of LetterQueue.  A turn leaves a queue by *)
(* what its message asks for, at a record e that the lemmas below name for *)
(* each handler; from there to its end it does nothing but give letters.   *)

(* A request that is sent is for an idle worker of the letter's service.   *)
Order(b, d, m) ==
  /\ m = [to |-> m.to, cmd |-> "REQUEST", letter |-> m.letter,
          client |-> d.letter[m.letter].client, body |-> d.letter[m.letter].body]
  /\ b.worker[m.to].letter = 0
  /\ d.worker[m.to].service = d.letter[m.letter].service

(* What Dispatched leaves open: no letter is given without an order.       *)
Dealt(b, d) ==
  /\ \A v \in Workers : d.worker[v].service = b.worker[v].service
  /\ \A v \in Workers : b.worker[v].letter # 0 => d.worker[v].letter = b.worker[v].letter
  /\ \A l \in DOMAIN b.letter :
       /\ d.letter[l].service = b.letter[l].service
       /\ d.letter[l].client = b.letter[l].client
       /\ d.letter[l].body = b.letter[l].body
       /\ \/ d.letter[l].state = b.letter[l].state
          \/ \E i \in Added(b.out, d.out) : d.out[i].letter = l
  /\ \A i \in Added(b.out, d.out) : Order(b, d, d.out[i])

Deals(b, d) == Dispatched(b, d) /\ Dealt(b, d)

LEMMA DealsSame ==
  ASSUME NEW b, BInv(b)
  PROVE  Deals(b, b)
<1>1. Len(b.out) \in Nat
  BY DEF BInv, BrokerType
<1>2. Added(b.out, b.out) = {}
  BY <1>1 DEF Added
<1> QED
  BY <1>2, DispatchedSame DEF Deals, Dealt

LEMMA DealsTwice ==
  ASSUME NEW b, BInv(b), NEW e, BInv(e), NEW d, BInv(d), Deals(b, e), Deals(e, d)
  PROVE  Deals(b, d)
<1>1. Dispatched(b, e) /\ Dispatched(e, d) /\ Dispatched(b, d)
  BY DispatchedOnce DEF Deals
<1>2. /\ DOMAIN e.letter = DOMAIN b.letter /\ DOMAIN d.letter = DOMAIN b.letter
      /\ \A l \in DOMAIN b.letter : e.letter[l].state = "ASSIGNED" => d.letter[l] = e.letter[l]
  BY <1>1 DEF Dispatched
<1>3. Len(b.out) \in Nat /\ Len(e.out) \in Nat /\ Len(d.out) \in Nat
  BY DEF BInv, BrokerType
<1>4. \A i \in Added(b.out, d.out) :
        \/ i \in Added(b.out, e.out) /\ d.out[i] = e.out[i]
        \/ i \in Added(e.out, d.out)
  BY <1>1, <1>3 DEF Dispatched, Continues, Added
<1>5. /\ \A i \in Added(b.out, e.out) : i \in Added(b.out, d.out) /\ d.out[i] = e.out[i]
      /\ Added(e.out, d.out) \subseteq Added(b.out, d.out)
  BY <1>1, <1>3 DEF Dispatched, Continues, Added
<1>6. /\ \A v \in Workers : d.worker[v].service = b.worker[v].service
      /\ \A v \in Workers : b.worker[v].letter # 0 => d.worker[v].letter = b.worker[v].letter
  BY DEF Deals, Dealt
<1>7. ASSUME NEW l \in DOMAIN b.letter
      PROVE  /\ d.letter[l].service = b.letter[l].service
             /\ d.letter[l].client = b.letter[l].client
             /\ d.letter[l].body = b.letter[l].body
             /\ \/ d.letter[l].state = b.letter[l].state
                \/ \E i \in Added(b.out, d.out) : d.out[i].letter = l
  <2>1. /\ e.letter[l].service = b.letter[l].service
        /\ e.letter[l].client = b.letter[l].client
        /\ e.letter[l].body = b.letter[l].body
        /\ \/ e.letter[l].state = b.letter[l].state
           \/ \E i \in Added(b.out, e.out) : e.out[i].letter = l
    BY DEF Deals, Dealt
  <2>2. /\ d.letter[l].service = e.letter[l].service
        /\ d.letter[l].client = e.letter[l].client
        /\ d.letter[l].body = e.letter[l].body
        /\ \/ d.letter[l].state = e.letter[l].state
           \/ \E i \in Added(e.out, d.out) : d.out[i].letter = l
    BY <1>2 DEF Deals, Dealt
  <2> QED
    BY <1>5, <2>1, <2>2
<1>8. ASSUME NEW i \in Added(b.out, d.out)
      PROVE  Order(b, d, d.out[i])
  <2>1. CASE i \in Added(b.out, e.out) /\ d.out[i] = e.out[i]
    <3> DEFINE m == e.out[i]
    <3>1. Order(b, e, m) /\ Given(b, e, m)
      BY <1>1, <2>1 DEF Deals, Dealt, Dispatched
    <3> HIDE DEF m
    <3>2. /\ m.letter \in DOMAIN e.letter /\ e.letter[m.letter].state = "ASSIGNED"
          /\ m.to \in Workers
      BY <3>1 DEF Given
    <3>3. d.letter[m.letter] = e.letter[m.letter]
      BY <1>2, <3>2
    <3>4. d.worker[m.to].service = e.worker[m.to].service
      BY <3>2 DEF Deals, Dealt
    <3>5. Order(b, d, m)
      BY <3>1, <3>3, <3>4 DEF Order
    <3> QED
      BY <2>1, <3>5 DEF m
  <2>2. CASE i \in Added(e.out, d.out)
    <3> DEFINE m == d.out[i]
    <3>1. Order(e, d, m) /\ Given(e, d, m)
      BY <1>1, <2>2 DEF Deals, Dealt, Dispatched
    <3> HIDE DEF m
    <3>2. m.to \in Workers /\ e.worker[m.to].letter = 0
      BY <3>1 DEF Given, Order
    <3>3. b.worker[m.to].letter = 0
      BY <3>2 DEF Deals, Dealt
    <3>4. Order(b, d, m)
      BY <3>1, <3>3 DEF Order
    <3> QED
      BY <3>4 DEF m
  <2> QED
    BY <1>4, <2>1, <2>2
<1> QED
  BY <1>1, <1>6, <1>7, <1>8 DEF Deals, Dealt

LEMMA PurgeDeals ==
  ASSUME NEW b, BInv(b), NEW heads \in Heads(b), NEW t
  PROVE  Deals(b, PurgeWorkers(b, heads, t))
<1> DEFINE rows == [w \in Workers |-> IF w \in heads /\ Expired(b, w, t)
                                        THEN [b.worker[w] EXCEPT !.state = "DISARMED"]
                                        ELSE b.worker[w]]
           d == [b EXCEPT !.worker = rows]
<1>1. PurgeWorkers(b, heads, t) = d
  BY DEF PurgeWorkers
<1>2. ASSUME NEW w \in Workers
      PROVE  rows[w].service = b.worker[w].service /\ rows[w].letter = b.worker[w].letter
  BY DEF BInv, BrokerType, WorkerRow
<1> HIDE DEF rows
<1>3. d.letter = b.letter /\ d.out = b.out /\ d.worker = rows /\ Len(b.out) \in Nat
  BY DEF BInv, BrokerType
<1> HIDE DEF d
<1>4. Added(b.out, d.out) = {}
  BY <1>3 DEF Added
<1>5. Dealt(b, d)
  BY <1>2, <1>3, <1>4 DEF Dealt
<1> QED
  BY <1>1, <1>5, PurgeDispatched DEF Deals

LEMMA WorkerSendDeals ==
  ASSUME NEW b, BInv(b), NEW s \in Services, NEW w \in Armed(b, s),
         NEW l \in Waiting(b, s), NEW t \in Nat
  PROVE  Deals(b, WorkerSend(b, w, l, t))
<1>1. CASE ~ Assignable(b, w, l)
  BY <1>1, DealsSame DEF WorkerSend
<1>2. CASE Assignable(b, w, l)
  <2> DEFINE wrow == [b.worker[w] EXCEPT !.state = "OCCUPIED", !.letter = l,
                                         !.expiration = t + ExpirationPeriodMsec]
             lrow == [b.letter[l] EXCEPT !.state = "ASSIGNED", !.worker = b.worker[w].id]
             m == [to |-> w, cmd |-> "REQUEST", letter |-> l,
                   client |-> b.letter[l].client, body |-> b.letter[l].body]
             a == [b EXCEPT !.worker[w] = wrow, !.letter[l] = lrow]
             d == [a EXCEPT !.out = Append(a.out, m)]
  <2>1. WorkerSend(b, w, l, t) = d
    BY <1>2 DEF WorkerSend, AssignLetterToWorker, Send
  <2>2. /\ w \in Workers /\ b.worker[w].service = s /\ b.worker[w] \in WorkerRow
        /\ l \in DOMAIN b.letter /\ b.letter[l].state = "UNASSIGNED"
        /\ b.letter[l].service = s /\ b.letter[l] \in LetterRow
    BY DEF Armed, Waiting, BInv, BrokerType
  <2>0. b.worker[w].letter = 0
    BY <1>2, <2>2, AssignableIsFree
  <2>3. wrow.service = s
    BY <2>2 DEF WorkerRow
  <2>4. lrow.service = s /\ lrow.client = b.letter[l].client /\ lrow.body = b.letter[l].body
    BY <2>2 DEF LetterRow
  <2>5. /\ m.to = w /\ m.letter = l
        /\ m = [to |-> w, cmd |-> "REQUEST", letter |-> l,
                client |-> b.letter[l].client, body |-> b.letter[l].body]
    OBVIOUS
  <2> HIDE DEF wrow, lrow, m
  <2>6. /\ a.out = b.out
        /\ a.worker = [b.worker EXCEPT ![w] = wrow]
        /\ a.letter = [b.letter EXCEPT ![l] = lrow]
        /\ DOMAIN a = DOMAIN b /\ "out" \in DOMAIN b
    BY DEF BInv, BrokerType
  <2> HIDE DEF a
  <2>7. /\ d.out = Append(b.out, m)
        /\ d.worker = [b.worker EXCEPT ![w] = wrow]
        /\ d.letter = [b.letter EXCEPT ![l] = lrow]
    <3>1. b = [service |-> b.service, worker |-> b.worker, letter |-> b.letter,
               lastId |-> b.lastId, out |-> b.out, fault |-> b.fault]
      BY DEF BInv, BrokerType
    <3>2. a = [b EXCEPT !.worker[w] = wrow, !.letter[l] = lrow]
      BY DEF a
    <3> QED
      BY <2>6, <3>1, <3>2
  <2> HIDE DEF d
  <2>8. /\ d.letter[l] = lrow
        /\ \A k \in DOMAIN b.letter : k # l => d.letter[k] = b.letter[k]
        /\ d.worker[w] = wrow
        /\ \A v \in Workers : v # w => d.worker[v] = b.worker[v]
    BY <2>2, <2>7 DEF BInv, BrokerType
  <2>9. Order(b, d, m)
    BY <2>0, <2>2, <2>3, <2>4, <2>5, <2>8 DEF Order
  <2>10. /\ Len(b.out) \in Nat /\ Len(d.out) = Len(b.out) + 1
         /\ d.out[Len(b.out) + 1] = m
    BY <2>7 DEF BInv, BrokerType
  <2>11. Added(b.out, d.out) = {Len(b.out) + 1}
    BY <2>10 DEF Added
  <2>12. /\ \A v \in Workers : d.worker[v].service = b.worker[v].service
         /\ \A v \in Workers : b.worker[v].letter # 0 => d.worker[v].letter = b.worker[v].letter
    BY <2>0, <2>2, <2>3, <2>8
  <2>13. Dealt(b, d)
    BY <2>2, <2>4, <2>5, <2>8, <2>9, <2>10, <2>11, <2>12 DEF Dealt
  <2> QED
    BY <2>1, <2>13, WorkerSendDispatched DEF Deals
<1> QED
  BY <1>1, <1>2

LEMMA DispatchDeals ==
  ASSUME NEW b, BInv(b), NEW s \in Services, NEW t \in Nat
  PROVE  \A d \in ServiceDispatch(b, s, t) : BInv(d) /\ Deals(b, d)
<1> SUFFICES ASSUME NEW heads \in Heads(b), NEW d \in DispatchOne(PurgeWorkers(b, heads, t), heads, s, t)
             PROVE  BInv(d) /\ Deals(b, d)
  BY DEF ServiceDispatch
<1> DEFINE p == PurgeWorkers(b, heads, t)
<1>1. BInv(p) /\ Deals(b, p)
  BY PurgeInv, PurgeDeals
<1> HIDE DEF p
<1>2. d \in DispatchOne(p, heads, s, t)
  BY DEF p
<1>3. CASE Armed(p, s) = {} \/ Waiting(p, s) = {}
  BY <1>1, <1>2, <1>3 DEF DispatchOne
<1>4. CASE Armed(p, s) # {} /\ Waiting(p, s) # {}
  <2>1. PICK w \in Popped(p, heads, s), l \in Waiting(p, s) : d = WorkerSend(p, w, l, t)
    BY <1>2, <1>4 DEF DispatchOne
  <2>2. w \in Armed(p, s)
    BY DEF Popped
  <2>3. BInv(d) /\ Deals(p, d)
    BY <1>1, <2>1, <2>2, WorkerSendInv, WorkerSendDeals
  <2> QED
    BY <1>1, <2>3, DealsTwice
<1> QED
  BY <1>3, <1>4

(* The tables as the queue sees them.                                      *)
LEMMA SameQueue ==
  ASSUME NEW b, NEW e, e.letter = b.letter,
         \A v \in Workers : /\ e.worker[v].letter = b.worker[v].letter
                            /\ e.worker[v].service = b.worker[v].service
  PROVE  LettersIn(e) = LettersIn(b) /\ ServesIn(e) = ServesIn(b)
<1>1. \A l : {w \in Workers : e.worker[w].letter = l} = {w \in Workers : b.worker[w].letter = l}
  OBVIOUS
<1> QED
  BY <1>1 DEF LettersIn, ServesIn

(* A letter that waits is held by nobody, one that is assigned by one      *)
(* worker; only letters are held.                                          *)
LEMMA HoldersOf ==
  ASSUME NEW b, BInv(b), NEW l \in DOMAIN b.letter
  PROVE  /\ l # 0
         /\ b.letter[l].state \in LetterStates
         /\ \A v, w \in Workers :
              b.worker[v].letter = l /\ b.worker[w].letter = l => v = w
         /\ (\E w \in Workers : b.worker[w].letter = l) <=> b.letter[l].state = "ASSIGNED"
<1>1. l \in Nat /\ l # 0 /\ b.letter[l] \in LetterRow
  BY DEF BInv, BrokerType
<1>2. b.letter[l].state \in LetterStates
  BY <1>1 DEF LetterRow
<1>3. \A w \in Workers : b.worker[w].letter = l =>
        /\ Known(b, w) /\ b.letter[l].state = "ASSIGNED"
        /\ b.letter[l].worker = b.worker[w].id
  BY <1>1 DEF BInv, HolderHasLetter
<1>4. \A v, w \in Workers :
        b.worker[v].letter = l /\ b.worker[w].letter = l => v = w
  BY <1>3 DEF BInv, DistinctIds
<1>5. b.letter[l].state = "ASSIGNED" => \E w \in Workers : b.worker[w].letter = l
  BY DEF BInv, AssignedHasHolder
<1> QED
  BY <1>1, <1>2, <1>3, <1>4, <1>5

(* What dealing does to one letter: nothing, or it gives it to an idle     *)
(* worker of its service and sends the order.                              *)
LEMMA LetterDealt ==
  ASSUME NEW b, BInv(b), NEW d, BInv(d), Deals(b, d), NEW l \in DOMAIN b.letter,
         d.letter[l].state # b.letter[l].state
  PROVE  \E w \in Workers, i \in Added(b.out, d.out) :
           /\ b.letter[l].state = "UNASSIGNED"
           /\ b.worker[w].letter = 0
           /\ d.worker[w].letter = l
           /\ d.worker[w].service = b.letter[l].service
           /\ d.out[i] = [to |-> w, cmd |-> "REQUEST", letter |-> l,
                          client |-> b.letter[l].client, body |-> b.letter[l].body]
<1>1. PICK i \in Added(b.out, d.out) : d.out[i].letter = l
  BY DEF Deals, Dealt
<1>2. Given(b, d, d.out[i]) /\ Order(b, d, d.out[i])
  BY DEF Deals, Dealt, Dispatched
<1>3. /\ d.letter[l].service = b.letter[l].service
      /\ d.letter[l].client = b.letter[l].client
      /\ d.letter[l].body = b.letter[l].body
  BY DEF Deals, Dealt
<1> DEFINE m == d.out[i]
<1> HIDE DEF m
<1>4. /\ m.to \in Workers /\ m.letter = l /\ b.letter[l].state = "UNASSIGNED"
      /\ d.worker[m.to].letter = l
      /\ m = [to |-> m.to, cmd |-> "REQUEST", letter |-> m.letter,
              client |-> d.letter[m.letter].client, body |-> d.letter[m.letter].body]
      /\ b.worker[m.to].letter = 0
      /\ d.worker[m.to].service = d.letter[m.letter].service
  BY <1>1, <1>2 DEF Given, Order, m
<1>5. m = [to |-> m.to, cmd |-> "REQUEST", letter |-> l,
           client |-> b.letter[l].client, body |-> b.letter[l].body]
  BY <1>3, <1>4
<1> QED
  BY <1>3, <1>4, <1>5 DEF m

(* The holders of a letter that was not dealt are the same.                *)
LEMMA HoldersKept ==
  ASSUME NEW b, BInv(b), NEW d, BInv(d), Deals(b, d), NEW l \in DOMAIN b.letter,
         d.letter[l].state = b.letter[l].state
  PROVE  LettersIn(d)[l] = LettersIn(b)[l]
<1>1. l \in DOMAIN d.letter
  BY DEF Deals, Dispatched
<1>2. /\ d.letter[l].service = b.letter[l].service
      /\ d.letter[l].client = b.letter[l].client
      /\ d.letter[l].body = b.letter[l].body
      /\ \A v \in Workers : b.worker[v].letter # 0 => d.worker[v].letter = b.worker[v].letter
  BY DEF Deals, Dealt
<1>3. {w \in Workers : d.worker[w].letter = l} = {w \in Workers : b.worker[w].letter = l}
  <2>1. \A w \in Workers : b.worker[w].letter = l => d.worker[w].letter = l
    BY <1>2, HoldersOf
  <2>2. ASSUME NEW w \in Workers, d.worker[w].letter = l
        PROVE  b.worker[w].letter = l
    <3>1. b.letter[l].state = "ASSIGNED"
      BY <1>1, <2>2, HoldersOf
    <3>2. PICK v \in Workers : b.worker[v].letter = l
      BY <3>1, HoldersOf
    <3>3. d.worker[v].letter = l
      BY <2>1, <3>2
    <3>4. v = w
      BY <1>1, <2>2, <3>3, HoldersOf
    <3> QED
      BY <3>2, <3>4
  <2> QED
    BY <2>1, <2>2
<1> QED
  BY <1>1, <1>2, <1>3 DEF LettersIn

(* The end of a turn, from a record whose queue is q: what is left was     *)
(* dealt from there.                                                       *)
Arrives(d, q, srv, n, out) ==
  \E e : /\ BInv(e) /\ Deals(e, d)
         /\ LettersIn(e) = q /\ ServesIn(e) = srv /\ e.lastId = n /\ e.out = out

(* The messages of a turn that the queue does not speak of.                *)
Quiet(out) == \A i \in DOMAIN out : out[i].cmd \notin {"REQUEST", "REPORT", "NAK"}
NoOrder(out) == \A i \in DOMAIN out : out[i].cmd # "REQUEST"

LEMMA ArrivesFrom ==
  ASSUME NEW b, BInv(b), NEW e, BInv(e), Deals(b, e), NEW d, BInv(d),
         NEW q, NEW srv, NEW n, NEW out, Arrives(b, q, srv, n, out)
  PROVE  Arrives(e, q, srv, n, out)
<1>1. PICK f : /\ BInv(f) /\ Deals(f, b)
               /\ LettersIn(f) = q /\ ServesIn(f) = srv /\ f.lastId = n /\ f.out = out
  BY DEF Arrives
<1>2. Deals(f, e)
  BY <1>1, DealsTwice
<1> QED
  BY <1>1, <1>2 DEF Arrives

LEMMA HoldersReplaced ==
  ASSUME NEW s, NEW c, NEW body, NEW g, NEW h
  PROVE  [[service |-> s, client |-> c, body |-> body, holders |-> g] EXCEPT !.holders = h]
           = [service |-> s, client |-> c, body |-> body, holders |-> h]
OBVIOUS

(* Dealing gives letters as the queue has it.                              *)
LEMMA GiveHolds ==
  ASSUME NEW q, NEW srv, NEW n, NEW out, NoOrder(out), BInv(broker'),
         Arrives(broker', q, srv, n, out)
  PROVE  /\ Queue!Give(q)
         /\ ServesIn(broker)' = srv
         /\ broker'.lastId = n
         /\ Queue!Answers = {i \in DOMAIN out : out[i].cmd \in {"REPORT", "NAK"}}
         /\ \A i \in DOMAIN out : i \in DOMAIN broker'.out /\ broker'.out[i] = out[i]
<1> DEFINE d == broker'
<1>1. PICK e : /\ BInv(e) /\ Deals(e, d)
               /\ LettersIn(e) = q /\ ServesIn(e) = srv /\ e.lastId = n /\ e.out = out
  BY DEF Arrives
<1>2. Dispatched(e, d) /\ Dealt(e, d)
  BY <1>1 DEF Deals
<1>3. d.lastId = n
  BY <1>1, <1>2 DEF Dispatched
<1>4. ServesIn(d) = srv
  BY <1>1, <1>2 DEF Dealt, ServesIn
<1>5. /\ Len(out) \in Nat /\ Len(d.out) \in Nat /\ DOMAIN out = 1 .. Len(out)
      /\ DOMAIN d.out = 1 .. Len(d.out) /\ Len(out) <= Len(d.out)
      /\ \A i \in 1 .. Len(out) : d.out[i] = out[i]
  BY <1>1, <1>2 DEF BInv, BrokerType, Dispatched, Continues
<1>6. \A i \in DOMAIN out : i \in DOMAIN d.out /\ d.out[i] = out[i]
  BY <1>5
<1>7. \A i \in DOMAIN d.out : i \in DOMAIN out \/ i \in Added(out, d.out)
  BY <1>5 DEF Added
<1>8. \A i \in Added(out, d.out) : i \in DOMAIN d.out /\ d.out[i].cmd = "REQUEST"
  BY <1>1, <1>2, <1>5 DEF Dispatched, Added
<1>9. {i \in DOMAIN d.out : d.out[i].cmd \in {"REPORT", "NAK"}}
        = {i \in DOMAIN out : out[i].cmd \in {"REPORT", "NAK"}}
  BY <1>6, <1>7, <1>8
<1>10. {i \in DOMAIN d.out : d.out[i].cmd = "REQUEST"} = Added(out, d.out)
  BY <1>6, <1>7, <1>8 DEF NoOrder
<1>11. Queue!Orders = Added(out, d.out)
  BY <1>10 DEF Queue!Orders
<1>12. DOMAIN LettersIn(d) = DOMAIN q /\ DOMAIN q = DOMAIN e.letter /\ DOMAIN d.letter = DOMAIN e.letter
  BY <1>1, <1>2 DEF Dispatched, LettersIn
<1>13. ASSUME NEW l \in DOMAIN q, d.letter[l].state # e.letter[l].state
       PROVE  \E w \in Workers : Queue!GivenTo(q, l, w) /\ LettersIn(d)[l].holders = {w}
  <2>1. PICK w \in Workers, i \in Added(out, d.out) :
           /\ e.letter[l].state = "UNASSIGNED"
           /\ e.worker[w].letter = 0
           /\ d.worker[w].letter = l
           /\ d.worker[w].service = e.letter[l].service
           /\ d.out[i] = [to |-> w, cmd |-> "REQUEST", letter |-> l,
                          client |-> e.letter[l].client, body |-> e.letter[l].body]
    BY <1>1, <1>12, <1>13, LetterDealt
  <2>2. q[l] = [service |-> e.letter[l].service, client |-> e.letter[l].client,
                body |-> e.letter[l].body, holders |-> {v \in Workers : e.worker[v].letter = l}]
    BY <1>1, <1>12 DEF LettersIn
  <2>3. {v \in Workers : e.worker[v].letter = l} = {}
    BY <1>1, <1>12, <2>1, HoldersOf
  <2>4. LettersIn(d)[l] = [service |-> d.letter[l].service, client |-> d.letter[l].client,
                           body |-> d.letter[l].body,
                           holders |-> {v \in Workers : d.worker[v].letter = l}]
    BY <1>12 DEF LettersIn
  <2>5. {v \in Workers : d.worker[v].letter = l} = {w}
    BY <1>12, <2>1, HoldersOf
  <2>6. /\ d.letter[l].service = e.letter[l].service
        /\ d.letter[l].client = e.letter[l].client
        /\ d.letter[l].body = e.letter[l].body
    BY <1>2, <1>12 DEF Dealt
  <2>7. LettersIn(d)[l] = [q[l] EXCEPT !.holders = {w}]
    <3> DEFINE svc == e.letter[l].service
               cl == e.letter[l].client
               bd == e.letter[l].body
    <3>1. q[l] = [service |-> svc, client |-> cl, body |-> bd, holders |-> {}]
      BY <2>2, <2>3
    <3>2. LettersIn(d)[l] = [service |-> svc, client |-> cl, body |-> bd, holders |-> {w}]
      BY <2>4, <2>5, <2>6
    <3> HIDE DEF svc, cl, bd
    <3>3. [[service |-> svc, client |-> cl, body |-> bd, holders |-> {}] EXCEPT !.holders = {w}]
            = [service |-> svc, client |-> cl, body |-> bd, holders |-> {w}]
      BY HoldersReplaced
    <3> QED
      BY <3>1, <3>2, <3>3
  <2>8. Queue!Idle(q, w)
    <3>1. ASSUME NEW k \in DOMAIN q
          PROVE  w \notin q[k].holders
      <4>1. q[k].holders = {v \in Workers : e.worker[v].letter = k}
        BY <1>1, <1>12 DEF LettersIn
      <4>2. k # 0
        BY <1>1, <1>12, HoldersOf
      <4> QED
        BY <2>1, <4>1, <4>2
    <3> QED
      BY <3>1 DEF Queue!Idle
  <2>9. q[l].holders = {} /\ q[l].service = e.letter[l].service
        /\ q[l].client = e.letter[l].client /\ q[l].body = e.letter[l].body
    BY <2>2, <2>3
  <2>10. ServesIn(d)[w] = q[l].service
    BY <2>1, <2>9 DEF ServesIn
  <2>11. d.out[i] = [to |-> w, cmd |-> "REQUEST", letter |-> l,
                     client |-> q[l].client, body |-> q[l].body]
    BY <2>1, <2>9
  <2>12. Queue!GivenTo(q, l, w)
    BY <1>11, <2>7, <2>8, <2>9, <2>10, <2>11 DEF Queue!GivenTo
  <2> QED
    BY <2>4, <2>5, <2>12
<1>14. \A l \in DOMAIN q : LettersIn(d)[l] = q[l] \/ \E w \in Workers : Queue!GivenTo(q, l, w)
  BY <1>1, <1>12, <1>13, HoldersKept
<1>15. \A k, l \in DOMAIN q :
         k # l => LettersIn(d)[k].holders \cap LettersIn(d)[l].holders = {}
  <2>1. \A l \in DOMAIN q : LettersIn(d)[l].holders = {w \in Workers : d.worker[w].letter = l}
    BY <1>12 DEF LettersIn
  <2> QED
    BY <2>1
<1>16. ASSUME NEW i \in Added(out, d.out)
       PROVE  d.out[i].letter \in DOMAIN q /\ LettersIn(d)[d.out[i].letter] # q[d.out[i].letter]
  <2> DEFINE l == d.out[i].letter
  <2>1. Given(e, d, d.out[i])
    BY <1>1, <1>2 DEF Dispatched
  <2>2. /\ l \in DOMAIN q /\ d.letter[l].state = "ASSIGNED" /\ e.letter[l].state = "UNASSIGNED"
    BY <1>12, <2>1 DEF Given
  <2>3. PICK w \in Workers : Queue!GivenTo(q, l, w) /\ LettersIn(d)[l].holders = {w}
    BY <1>13, <2>2
  <2>4. q[l].holders = {}
    BY <2>3 DEF Queue!GivenTo
  <2> QED
    BY <2>2, <2>3, <2>4
<1>17. \A i, j \in Added(out, d.out) : d.out[i].letter = d.out[j].letter => i = j
  BY <1>1, <1>2 DEF Dispatched
<1>18. Queue!Give(q)
  BY <1>11, <1>12, <1>14, <1>15, <1>16, <1>17 DEF Queue!Give
<1> QED
  BY <1>3, <1>4, <1>6, <1>9, <1>18 DEF Queue!Answers

-----------------------------------------------------------------------------
(* The handlers, each with the queue it leaves and what it has said before *)
(* letters are given.                                                      *)

Stands(b, d, out) == Arrives(d, LettersIn(b), ServesIn(b), b.lastId, out)

LEMMA SendStands ==
  ASSUME NEW b, BInv(b), b.out = <<>>, NEW m \in Messages
  PROVE  Stands(b, Send(b, m), <<m>>)
<1> DEFINE d == Send(b, m)
<1>1. BInv(d) /\ Deals(d, d)
  BY SendInv, DealsSame
<1>2. /\ d.worker = b.worker /\ d.letter = b.letter /\ d.lastId = b.lastId
      /\ d.out = Append(b.out, m)
  BY DEF Send, BInv, BrokerType
<1> HIDE DEF d
<1>3. d.out = <<m>>
  BY <1>2
<1>4. LettersIn(d) = LettersIn(b) /\ ServesIn(d) = ServesIn(b)
  BY <1>2, SameQueue
<1>5. Stands(b, d, <<m>>)
  BY <1>1, <1>2, <1>3, <1>4 DEF Stands, Arrives
<1> QED
  BY <1>5 DEF d

(* A fault, a new endpoint and a removed worker are nothing to the queue.  *)
LEMMA SameStands ==
  ASSUME NEW b, NEW e, BInv(e), e.letter = b.letter, e.lastId = b.lastId,
         \A v \in Workers : /\ e.worker[v].letter = b.worker[v].letter
                            /\ e.worker[v].service = b.worker[v].service,
         NEW d, Deals(e, d)
  PROVE  Stands(b, d, e.out)
BY SameQueue DEF Stands, Arrives

(* A worker that waits again keeps its letter; then letters are given.     *)
LEMMA WaitingStands ==
  ASSUME NEW b, BInv(b), NEW w \in Workers, NEW t \in Nat, Known(b, w),
         NEW d \in WorkerWaiting(b, w, b.worker[w].service, t)
  PROVE  Stands(b, d, b.out)
<1> DEFINE s == b.worker[w].service
           e == PushWorker(b, w, s, t)
           row == [b.worker[w] EXCEPT !.state = "ARMED", !.service = s,
                                      !.expiration = t + WorkerTTL]
<1>1. s \in Services /\ Registered(b, s)
  BY DEF BInv, WorkersRegistered
<1>2. BInv(e)
  BY <1>1, PushWorkerInv
<1>3. e = [b EXCEPT !.worker[w] = row]
  BY DEF PushWorker
<1>4. row.letter = b.worker[w].letter /\ row.service = s
  BY DEF BInv, BrokerType, WorkerRow
<1>5. d \in ServiceDispatch(e, s, t)
  BY DEF WorkerWaiting
<1> HIDE DEF e, row
<1>6. /\ e.letter = b.letter /\ e.out = b.out /\ e.lastId = b.lastId
      /\ e.worker = [b.worker EXCEPT ![w] = row]
  BY <1>3 DEF BInv, BrokerType
<1>7. \A v \in Workers : /\ e.worker[v].letter = b.worker[v].letter
                         /\ e.worker[v].service = b.worker[v].service
  BY <1>4, <1>6 DEF BInv, BrokerType
<1> HIDE DEF s
<1>8. Deals(e, d)
  BY <1>1, <1>2, <1>5, DispatchDeals
<1> QED
  BY <1>2, <1>6, <1>7, <1>8, SameStands

LEMMA HeartbeatStands ==
  ASSUME NEW b, BInv(b), b.out = <<>>, NEW w \in Workers, NEW t \in Nat,
         NEW d \in ProcessHeartbeat(b, w, t)
  PROVE  Stands(b, d, <<>>)
<1>1. CASE Known(b, w)
  BY <1>1, WaitingStands DEF ProcessHeartbeat
<1>2. CASE ~ Known(b, w)
  BY <1>2, DealsSame DEF ProcessHeartbeat, Stands, Arrives
<1> QED
  BY <1>1, <1>2

LEMMA RemoveStands ==
  ASSUME NEW b, BInv(b), NEW w \in Workers, Known(b, w)
  PROVE  LET d == RemoveWorker(b, w)
         IN  /\ BInv(d) /\ d.letter = b.letter /\ d.lastId = b.lastId /\ d.out = b.out
             /\ \A v \in Workers : /\ d.worker[v].letter = b.worker[v].letter
                                   /\ d.worker[v].service = b.worker[v].service
<1> DEFINE d == RemoveWorker(b, w)
           row == [b.worker[w] EXCEPT !.state = "DISARMED"]
<1>1. BInv(d)
  BY RemoveWorkerInv
<1>2. row.letter = b.worker[w].letter /\ row.service = b.worker[w].service
  BY DEF BInv, BrokerType, WorkerRow
<1> HIDE DEF row
<1>3. /\ d.letter = b.letter /\ d.lastId = b.lastId /\ d.out = b.out
      /\ d.worker = [b.worker EXCEPT ![w] = row]
  BY DEF RemoveWorker, BInv, BrokerType, row
<1> HIDE DEF d
<1>4. \A v \in Workers : /\ d.worker[v].letter = b.worker[v].letter
                         /\ d.worker[v].service = b.worker[v].service
  BY <1>2, <1>3 DEF BInv, BrokerType
<1> QED
  BY <1>1, <1>3, <1>4 DEF d

LEMMA FaultStands ==
  ASSUME NEW b, BInv(b), b.out = <<>>
  PROVE  Stands(b, Fault(b, "release_null"), <<>>)
<1> DEFINE d == Fault(b, "release_null")
<1>1. BInv(d) /\ Deals(d, d)
  BY FaultInv, DealsSame
<1>2. d.letter = b.letter /\ d.lastId = b.lastId /\ d.out = b.out /\ d.worker = b.worker
  BY DEF Fault, BInv, BrokerType
<1> HIDE DEF d
<1>3. Stands(b, d, d.out)
  BY <1>1, <1>2, SameStands
<1> QED
  BY <1>2, <1>3 DEF d

LEMMA DisconnectStands ==
  ASSUME NEW b, BInv(b), b.out = <<>>, NEW w \in Workers, NEW d \in ProcessDisconnect(b, w)
  PROVE  Stands(b, d, <<>>)
<1>1. CASE Known(b, w)
  <2>1. d = RemoveWorker(b, w)
    BY <1>1 DEF ProcessDisconnect, Release
  <2>2. /\ BInv(d) /\ d.letter = b.letter /\ d.lastId = b.lastId /\ d.out = b.out
        /\ \A v \in Workers : /\ d.worker[v].letter = b.worker[v].letter
                              /\ d.worker[v].service = b.worker[v].service
    BY <1>1, <2>1, RemoveStands
  <2>3. Stands(b, d, d.out)
    BY <2>2, DealsSame, SameStands
  <2> QED
    BY <2>2, <2>3
<1>2. CASE ~ Known(b, w)
  BY <1>2, FaultStands DEF ProcessDisconnect
<1> QED
  BY <1>1, <1>2

LEMMA InternalStands ==
  ASSUME NEW b, BInv(b), b.out = <<>>, NEW c \in Clients, NEW s \in Services,
         NEW request \in {"mmi.service", "mmi.filter", "mmi.other"},
         NEW d \in ServiceInternal(b, c, request, s)
  PROVE  \E out : Quiet(out) /\ Stands(b, d, out)
<1>1. ASSUME NEW code \in {200, 404, 501}, NEW ep \in Endpoints \cup {NoEndpoint},
             d = Send(b, MmiReply(c, code, ep))
      PROVE  \E out : Quiet(out) /\ Stands(b, d, out)
  <2> DEFINE m == MmiReply(c, code, ep)
  <2>1. m \in Messages /\ m.cmd = "MMI"
    BY DEF MmiReply, Messages
  <2> HIDE DEF m
  <2>2. Quiet(<<m>>)
    BY <2>1 DEF Quiet
  <2>3. Stands(b, d, <<m>>)
    BY <1>1, <2>1, SendStands DEF m
  <2> QED
    BY <2>2, <2>3
<1>2. b.service[s] \in Endpoints \cup {NoEndpoint}
  BY DEF BInv, BrokerType
<1>3. CASE request = "mmi.service"
  BY <1>1, <1>2, <1>3 DEF ServiceInternal
<1>4. CASE request = "mmi.filter"
  <2>1. d = b
    BY <1>4 DEF ServiceInternal
  <2>2. Stands(b, d, <<>>) /\ Quiet(<<>>)
    BY <2>1, DealsSame DEF Stands, Arrives, Quiet
  <2> QED
    BY <2>2
<1>5. CASE request = "mmi.other"
  BY <1>1, <1>5 DEF ServiceInternal
<1> QED
  BY <1>3, <1>4, <1>5

(* READY: an identity that has no row becomes a worker of the service; one *)
(* that has is sent a DISCONNECT and stays of the service it is of.        *)
LEMMA ReadyStands ==
  ASSUME NEW b, BInv(b), b.out = <<>>, NEW w \in Workers, NEW s \in Services,
         NEW ep \in Endpoints, NEW t \in Nat, NEW d \in ProcessReady(b, w, s, ep, t),
         Known(b, w) \/ w \in Reserved
  PROVE  \E out : Quiet(out) /\ Stands(b, d, out)
<1>1. CASE Known(b, w)
  <2> DEFINE m == [to |-> w, cmd |-> "DISCONNECT"]
             e == Send(b, m)
  <2>1. m \in Messages /\ m.cmd = "DISCONNECT"
    BY DEF Messages
  <2> HIDE DEF m
  <2>2. BInv(e)
    BY <2>1, SendInv
  <2>3. /\ e.worker = b.worker /\ e.letter = b.letter /\ e.lastId = b.lastId
        /\ e.out = Append(b.out, m)
    BY DEF Send, BInv, BrokerType
  <2>4. d = RemoveWorker(e, w)
    BY <1>1 DEF ProcessReady, Release, m
  <2> HIDE DEF e
  <2>5. e.out = <<m>>
    BY <2>3
  <2>6. Known(e, w)
    BY <1>1, <2>3 DEF Known
  <2>7. /\ BInv(d) /\ d.letter = e.letter /\ d.lastId = e.lastId /\ d.out = e.out
        /\ \A v \in Workers : /\ d.worker[v].letter = e.worker[v].letter
                              /\ d.worker[v].service = e.worker[v].service
    BY <2>2, <2>4, <2>6, RemoveStands
  <2>8. Stands(b, d, d.out)
    BY <2>3, <2>7, DealsSame, SameStands
  <2>9. Quiet(<<m>>)
    BY <2>1 DEF Quiet
  <2> QED
    BY <2>5, <2>7, <2>8, <2>9
<1>2. CASE ~ Known(b, w)
  <2>1. d = Fault(b, "release_null")
    BY <1>2 DEF ProcessReady
  <2>2. Stands(b, d, <<>>) /\ Quiet(<<>>)
    BY <2>1, FaultStands DEF Quiet
  <2> QED
    BY <2>2
<1> QED
  BY <1>1, <1>2

LEMMA ReadyRegisters ==
  ASSUME NEW b, BInv(b), b.out = <<>>, NEW w \in Workers, NEW s \in Services,
         NEW ep \in Endpoints, NEW t \in Nat, NEW d \in ProcessReady(b, w, s, ep, t),
         ~ Known(b, w), w \notin Reserved
  PROVE  /\ ServesIn(b)[w] = NoService
         /\ Arrives(d, LettersIn(b), [ServesIn(b) EXCEPT ![w] = s], b.lastId + 1, <<>>)
<1> DEFINE e == [b EXCEPT !.service[s] = ep]
           row == [id |-> e.lastId + 1, state |-> "ARMED", service |-> s,
                   letter |-> 0, expiration |-> t + WorkerTTL]
           f == [e EXCEPT !.lastId = e.lastId + 1, !.worker[w] = row]
<1>1. BInv(e) /\ Registered(e, s) /\ e.worker = b.worker
  BY EndpointInv
<1>2. e.lastId = b.lastId /\ e.letter = b.letter /\ e.out = b.out
  BY DEF BInv, BrokerType
<1>3. PICK c \in WorkerWaiting(e, w, s, t) : d \in ServiceDispatch(c, s, t)
  BY DEF ProcessReady
<1> HIDE DEF e
<1>4. ~ Known(e, w) /\ b.worker[w] = UnknownWorker
  BY <1>1 DEF Known, BInv, WorkersRegistered
<1>5. PushWorker(e, w, s, t) = f
  BY <1>4 DEF PushWorker, FreshId
<1>6. BInv(f)
  BY <1>1, <1>4, <1>5, PushWorkerInv
<1>7. c \in ServiceDispatch(f, s, t)
  BY <1>3, <1>5 DEF WorkerWaiting
<1>8. row.letter = 0 /\ row.service = s
  OBVIOUS
<1> HIDE DEF row
<1>9. /\ f.letter = b.letter /\ f.out = <<>> /\ f.lastId = b.lastId + 1
      /\ f.worker = [b.worker EXCEPT ![w] = row]
  BY <1>1, <1>2 DEF BInv, BrokerType
<1> HIDE DEF f
<1>10. /\ \A v \in Workers : v # w => f.worker[v] = b.worker[v]
       /\ f.worker[w] = row
  BY <1>9 DEF BInv, BrokerType
<1>11. b.worker[w].letter = 0 /\ b.worker[w].service = NoService
  BY <1>4 DEF UnknownWorker
<1>12. BInv(c) /\ Deals(f, c)
  BY <1>6, <1>7, DispatchDeals
<1>13. BInv(d) /\ Deals(c, d)
  BY <1>3, <1>12, DispatchDeals
<1>14. Deals(f, d)
  BY <1>6, <1>12, <1>13, DealsTwice
<1>15. LettersIn(f) = LettersIn(b)
  <2>1. \A v \in Workers : f.worker[v].letter = b.worker[v].letter
    BY <1>8, <1>10, <1>11
  <2>2. \A l : {v \in Workers : f.worker[v].letter = l} = {v \in Workers : b.worker[v].letter = l}
    BY <2>1
  <2> QED
    BY <1>9, <2>2 DEF LettersIn
<1>16. ServesIn(f) = [ServesIn(b) EXCEPT ![w] = s]
  BY <1>8, <1>10 DEF ServesIn
<1>17. ServesIn(b)[w] = NoService
  BY <1>11 DEF ServesIn
<1> QED
  BY <1>6, <1>9, <1>14, <1>15, <1>16, <1>17 DEF Arrives

(* A client's request waits under the next number.                         *)
LEMMA ClientAccepted ==
  ASSUME NEW b, BInv(b), b.out = <<>>, NEW c \in Clients, NEW s \in Services,
         NEW body \in Bodies, NEW t \in Nat, NEW d \in ProcessClient(b, c, s, body, t),
         Registered(b, s)
  PROVE  LET n == b.lastId + 1
         IN  Arrives(d, [l \in DOMAIN LettersIn(b) \cup {n} |->
                           IF l = n THEN Queue!Letter(c, s, body) ELSE LettersIn(b)[l]],
                     ServesIn(b), n, <<>>)
<1> DEFINE n == b.lastId + 1
           row == [service |-> s, state |-> "UNASSIGNED", worker |-> n,
                   client |-> c, body |-> body]
           letters == [k \in DOMAIN b.letter \cup {n} |->
                         IF k = n THEN row ELSE b.letter[k]]
           e == [b EXCEPT !.lastId = n, !.letter = letters]
<1>1. PushRequestToService(b, s, c, body) = e
  BY DEF PushRequestToService, FreshId
<1>2. BInv(e)
  BY <1>1, PushRequestInv
<1>3. b.lastId \in Nat /\ n \notin DOMAIN b.letter /\ n # 0
  BY DEF BInv, BrokerType
<1>4. row.service = s /\ row.client = c /\ row.body = body
  OBVIOUS
<1>5. /\ DOMAIN letters = DOMAIN b.letter \cup {n} /\ letters[n] = row
      /\ \A k \in DOMAIN b.letter : letters[k] = b.letter[k]
  BY <1>3
<1>6. d \in ServiceDispatch(e, s, t)
  BY <1>1 DEF ProcessClient
<1> HIDE DEF letters, row
<1>7. e.worker = b.worker /\ e.out = b.out /\ e.letter = letters /\ e.lastId = n
  BY DEF BInv, BrokerType
<1> HIDE DEF e
<1>8. Deals(e, d)
  BY <1>2, <1>6, DispatchDeals
<1>9. {v \in Workers : b.worker[v].letter = n} = {}
  BY <1>3 DEF BInv, HolderHasLetter
<1> DEFINE q == [l \in DOMAIN LettersIn(b) \cup {n} |->
                   IF l = n THEN Queue!Letter(c, s, body) ELSE LettersIn(b)[l]]
<1> HIDE DEF n
<1>10. LettersIn(e) = q
  <2>1. DOMAIN LettersIn(b) = DOMAIN b.letter /\ DOMAIN LettersIn(e) = DOMAIN b.letter \cup {n}
    BY <1>5, <1>7 DEF LettersIn
  <2>2. LettersIn(e)[n] = Queue!Letter(c, s, body)
    BY <1>4, <1>5, <1>7, <1>9 DEF LettersIn, Queue!Letter
  <2>3. ASSUME NEW l \in DOMAIN b.letter
        PROVE  LettersIn(e)[l] = LettersIn(b)[l] /\ l # n
    BY <1>3, <1>5, <1>7 DEF LettersIn
  <2>4. LettersIn(e) = [l \in DOMAIN LettersIn(e) |-> LettersIn(e)[l]]
    BY DEF LettersIn
  <2> QED
    BY <2>1, <2>2, <2>3, <2>4
<1>11. ServesIn(e) = ServesIn(b)
  BY <1>7 DEF ServesIn
<1>12. Arrives(d, q, ServesIn(b), n, <<>>)
  BY <1>2, <1>7, <1>8, <1>10, <1>11 DEF Arrives
<1> QED
  BY <1>12 DEF n

LEMMA ClientRefused ==
  ASSUME NEW b, BInv(b), b.out = <<>>, NEW c \in Clients, NEW s \in Services,
         NEW body \in Bodies, NEW t \in Nat, NEW d \in ProcessClient(b, c, s, body, t),
         ~ Registered(b, s)
  PROVE  Stands(b, d, <<[to |-> c, cmd |-> "NAK"]>>)
<1>1. [to |-> c, cmd |-> "NAK"] \in Messages
  BY DEF Messages
<1> QED
  BY <1>1, SendStands DEF ProcessClient

(* REPORT of a worker: what it held is gone, and nothing else.             *)
LEMMA ReleasedQueue ==
  ASSUME NEW b, BInv(b), NEW w \in Workers, Known(b, w)
  PROVE  LET d == ReleaseLetterFromWorker(b, w)
             q == LettersIn(b)
         IN  /\ LettersIn(d) = [l \in {k \in DOMAIN q : w \notin q[k].holders} |-> q[l]]
             /\ ServesIn(d) = ServesIn(b)
             /\ d.lastId = b.lastId /\ d.out = b.out
<1> DEFINE q == LettersIn(b)
           rest == [l \in {k \in DOMAIN q : w \notin q[k].holders} |-> q[l]]
<1>1. /\ DOMAIN q = DOMAIN b.letter
      /\ \A l \in DOMAIN q : (w \in q[l].holders) <=> (b.worker[w].letter = l)
  BY DEF LettersIn
<1>2. CASE LettersOf(b, w) = {}
  <2>1. \A l \in DOMAIN q : b.worker[w].letter # l
    <3>1. ASSUME NEW l \in DOMAIN q, b.worker[w].letter = l
          PROVE  l \in LettersOf(b, w)
      <4>1. l # 0
        BY <1>1, HoldersOf
      <4> QED
        BY <3>1, <4>1 DEF BInv, HolderHasLetter, LettersOf
    <3> QED
      BY <1>2, <3>1
  <2>2. {k \in DOMAIN q : w \notin q[k].holders} = DOMAIN q
    BY <1>1, <2>1
  <2>3. q = [l \in DOMAIN q |-> q[l]]
    BY DEF LettersIn
  <2>4. rest = q
    BY <2>2, <2>3
  <2> QED
    BY <1>2, <2>4 DEF ReleaseLetterFromWorker
<1>3. CASE LettersOf(b, w) # {}
  <2> DEFINE l == CHOOSE k \in LettersOf(b, w) : TRUE
             wrow == [b.worker[w] EXCEPT !.state = "ARMED", !.letter = 0]
             letters == [k \in DOMAIN b.letter \ {l} |-> b.letter[k]]
             d == [b EXCEPT !.letter = letters, !.worker[w] = wrow]
  <2>1. l \in LettersOf(b, w)
    BY <1>3
  <2> HIDE DEF l
  <2>2. /\ l \in DOMAIN b.letter /\ b.worker[w].letter = l
        /\ b.letter[l].service = b.worker[w].service
    BY <2>1, LettersOfWorker
  <2>3. ReleaseLetterFromWorker(b, w) = d
    BY <1>3, <2>2 DEF ReleaseLetterFromWorker, l
  <2>4. wrow.service = b.worker[w].service /\ wrow.letter = 0
    BY DEF BInv, BrokerType, WorkerRow
  <2>5. /\ DOMAIN letters = DOMAIN b.letter \ {l}
        /\ \A k \in DOMAIN letters : letters[k] = b.letter[k]
    OBVIOUS
  <2> HIDE DEF wrow, letters
  <2>6. /\ d.out = b.out /\ d.lastId = b.lastId /\ d.letter = letters
        /\ d.worker = [b.worker EXCEPT ![w] = wrow]
    BY DEF BInv, BrokerType
  <2> HIDE DEF d
  <2>7. /\ d.worker[w] = wrow
        /\ \A v \in Workers : v # w => d.worker[v] = b.worker[v]
    BY <2>6 DEF BInv, BrokerType
  <2>8. ServesIn(d) = ServesIn(b)
    BY <2>4, <2>7 DEF ServesIn
  <2>9. {k \in DOMAIN q : w \notin q[k].holders} = DOMAIN letters
    BY <1>1, <2>2, <2>5
  <2>10. ASSUME NEW k \in DOMAIN letters
         PROVE  LettersIn(d)[k] = q[k]
    <3>1. k \in DOMAIN b.letter /\ k # l /\ k # 0
      BY <2>5, HoldersOf
    <3>2. {v \in Workers : d.worker[v].letter = k} = {v \in Workers : b.worker[v].letter = k}
      BY <2>2, <2>4, <2>7, <3>1
    <3> QED
      BY <2>5, <2>6, <3>1, <3>2 DEF LettersIn
  <2>11. LettersIn(d) = [k \in DOMAIN letters |-> LettersIn(d)[k]]
    BY <2>6 DEF LettersIn
  <2> HIDE DEF q
  <2>12. LettersIn(d) = rest
    BY <2>9, <2>10, <2>11
  <2> QED
    BY <2>3, <2>6, <2>8, <2>12 DEF q
<1> QED
  BY <1>2, <1>3

LEMMA ReportReleases ==
  ASSUME NEW b, BInv(b), b.fault = "none", b.out = <<>>, NEW w \in Workers, NEW c \in Clients,
         NEW body \in Bodies, NEW t \in Nat, NEW d \in ProcessReport(b, w, c, body, t),
         Known(b, w)
  PROVE  LET q == LettersIn(b)
         IN  Arrives(d, [l \in {k \in DOMAIN q : w \notin q[k].holders} |-> q[l]],
                     ServesIn(b), b.lastId, <<ReportSent(b, w, c, body)>>)
<1> DEFINE e == ReleaseLetterFromWorker(b, w)
           s == b.worker[w].service
           m == ReportSent(b, w, c, body)
           f == Send(e, m)
           rest == [l \in {k \in DOMAIN LettersIn(b) : w \notin LettersIn(b)[k].holders} |->
                      LettersIn(b)[l]]
<1>1. /\ BInv(e) /\ e.fault = "none" /\ Known(e, w) /\ e.worker[w].service = s
  BY ReleaseLetterInv
<1>2. /\ LettersIn(e) = rest /\ ServesIn(e) = ServesIn(b)
      /\ e.lastId = b.lastId /\ e.out = <<>>
  BY ReleasedQueue
<1>3. s \in Services
  BY DEF BInv, WorkersRegistered
<1>4. m \in Messages
  BY <1>3 DEF ReportSent, Messages
<1>5. d \in WorkerWaiting(f, w, s, t)
  BY <1>1 DEF ProcessReport, ReportSent
<1> HIDE DEF e, m, rest
<1>6. BInv(f) /\ f.worker = e.worker /\ f.letter = e.letter /\ f.lastId = e.lastId
      /\ f.out = Append(e.out, m)
  BY <1>1, <1>4, SendInv DEF Send, BInv, BrokerType
<1> HIDE DEF f
<1>7. f.out = <<m>>
  BY <1>2, <1>6
<1>8. LettersIn(f) = rest /\ ServesIn(f) = ServesIn(b) /\ f.lastId = b.lastId
  BY <1>2, <1>6, SameQueue
<1>9. Known(f, w) /\ f.worker[w].service = s
  BY <1>1, <1>6 DEF Known
<1>10. Stands(f, d, f.out)
  BY <1>5, <1>6, <1>9, WaitingStands
<1>11. Arrives(d, rest, ServesIn(b), b.lastId, <<m>>)
  BY <1>7, <1>8, <1>10 DEF Stands
<1> QED
  BY <1>11 DEF rest, m

LEMMA ReportUnknown ==
  ASSUME NEW b, BInv(b), b.out = <<>>, NEW w \in Workers, NEW c \in Clients,
         NEW body \in Bodies, NEW t \in Nat, NEW d \in ProcessReport(b, w, c, body, t),
         ~ Known(b, w)
  PROVE  \E out : Quiet(out) /\ Stands(b, d, out)
<1> DEFINE m == [to |-> w, cmd |-> "DISCONNECT"]
<1>1. m \in Messages /\ Quiet(<<m>>) /\ d = Send(b, m)
  BY DEF ProcessReport, Messages, Quiet
<1>2. Stands(b, d, <<m>>)
  BY <1>1, SendStands
<1> QED
  BY <1>1, <1>2

(* The end of a turn gives nothing away.                                   *)
LEMMA TurnArrives ==
  ASSUME NEW c, BInv(c), NEW q, NEW srv, NEW n, NEW out, Arrives(c, q, srv, n, out),
         NEW d \in EndOfTurn(c)
  PROVE  BInv(d) /\ Arrives(d, q, srv, n, out)
<1>1. BInv(d) /\ Deals(c, d)
  BY PurgeInv, PurgeDeals, DealsSame DEF EndOfTurn
<1> QED
  BY <1>1, ArrivesFrom

(* The queue of a cleared record is that of the record.                    *)
LEMMA ClearedQueue ==
  ASSUME IInv
  PROVE  /\ BInv(Cleared) /\ Cleared.out = <<>> /\ Cleared.fault = broker.fault
         /\ LettersIn(Cleared) = LettersIn(broker) /\ ServesIn(Cleared) = ServesIn(broker)
         /\ Cleared.lastId = broker.lastId
         /\ \A w \in Workers : Known(Cleared, w) <=> Known(broker, w)
<1>1. /\ Cleared.out = <<>> /\ Cleared.letter = broker.letter
      /\ Cleared.worker = broker.worker /\ Cleared.lastId = broker.lastId
  BY DEF Cleared, IInv, BInv, BrokerType
<1>2. LettersIn(Cleared) = LettersIn(broker) /\ ServesIn(Cleared) = ServesIn(broker)
  BY <1>1, SameQueue
<1> QED
  BY <1>1, <1>2, ClearedInv DEF Known

(* A turn that leaves the queue alone deals, whatever it says to peers the *)
(* queue does not know.                                                    *)
LEMMA StandsDeals ==
  ASSUME IInv, BInv(broker'), NEW out, Quiet(out), Stands(Cleared, broker', out)
  PROVE  Queue!Deal
<1>1. Arrives(broker', LettersIn(broker), ServesIn(broker), broker.lastId, out)
  BY ClearedQueue DEF Stands
<1>2. NoOrder(out)
  BY DEF Quiet, NoOrder
<1>3. /\ Queue!Give(LettersIn(broker))
      /\ ServesIn(broker)' = ServesIn(broker)
      /\ broker'.lastId = broker.lastId
      /\ Queue!Answers = {i \in DOMAIN out : out[i].cmd \in {"REPORT", "NAK"}}
  BY <1>1, <1>2, GiveHolds
<1>4. Queue!Answers = {}
  BY <1>3 DEF Quiet
<1> QED
  BY <1>3, <1>4 DEF Queue!Deal, Queue!Silent

LEMMA SaysHolds ==
  ASSUME NEW q, NEW srv, NEW n, NEW m, m.cmd \in {"REPORT", "NAK"}, BInv(broker'),
         Arrives(broker', q, srv, n, <<m>>)
  PROVE  /\ Queue!Give(q) /\ Queue!Says(m)
         /\ ServesIn(broker)' = srv /\ broker'.lastId = n
<1> DEFINE out == <<m>>
<1>1. NoOrder(out)
  BY DEF NoOrder
<1>2. /\ Queue!Give(q)
      /\ ServesIn(broker)' = srv
      /\ broker'.lastId = n
      /\ Queue!Answers = {i \in DOMAIN out : out[i].cmd \in {"REPORT", "NAK"}}
      /\ \A i \in DOMAIN out : i \in DOMAIN broker'.out /\ broker'.out[i] = out[i]
  BY <1>1, GiveHolds
<1>3. DOMAIN out = {1} /\ out[1] = m
  OBVIOUS
<1>4. {i \in DOMAIN out : out[i].cmd \in {"REPORT", "NAK"}} = {1}
  BY <1>3
<1>5. Queue!Says(m)
  BY <1>2, <1>3, <1>4 DEF Queue!Says
<1> QED
  BY <1>2, <1>5

LEMMA SilentHolds ==
  ASSUME NEW q, NEW srv, NEW n, BInv(broker'), Arrives(broker', q, srv, n, <<>>)
  PROVE  /\ Queue!Give(q) /\ Queue!Silent
         /\ ServesIn(broker)' = srv /\ broker'.lastId = n
<1>1. NoOrder(<<>>) /\ DOMAIN <<>> = {}
  BY DEF NoOrder
<1>2. /\ Queue!Give(q) /\ ServesIn(broker)' = srv /\ broker'.lastId = n
      /\ Queue!Answers = {i \in DOMAIN <<>> : <<>>[i].cmd \in {"REPORT", "NAK"}}
  BY <1>1, GiveHolds
<1>3. Queue!Answers = {}
  BY <1>1, <1>2
<1> QED
  BY <1>2, <1>3 DEF Queue!Silent

(* Each step of the broker is a step of the queue, or none of its business.*)
LEMMA QueueStep ==
  ASSUME IInv, [Next]_vars
  PROVE  [Queue!Next]_(Queue!vars)
<1>0. /\ now \in Nat /\ BInv(Cleared) /\ Cleared.out = <<>>
      /\ Cleared.fault = broker.fault
      /\ LettersIn(Cleared) = LettersIn(broker) /\ ServesIn(Cleared) = ServesIn(broker)
      /\ Cleared.lastId = broker.lastId
  BY ClearedQueue DEF IInv
<1>1. BInv(broker')
  BY NextInv DEF IInv
<1>2. ASSUME NEW outcomes, Turn(outcomes)
      PROVE  \E c \in outcomes : broker' \in EndOfTurn(c) /\ broker.fault = "none"
  BY <1>2 DEF Turn, Leaves
<1>3. ASSUME NEW w \in Workers, NEW s \in Services, NEW ep \in Endpoints, Ready(w, s, ep)
      PROVE  Queue!Next
  <2>1. PICK c \in ProcessReady(Cleared, w, s, ep, now) : broker' \in EndOfTurn(c)
    BY <1>2, <1>3 DEF Ready
  <2>2. BInv(c)
    BY <1>0, ReadyInv
  <2>3. CASE Known(Cleared, w) \/ w \in Reserved
    <3>1. PICK out : Quiet(out) /\ Stands(Cleared, c, out)
      BY <1>0, <2>3, ReadyStands
    <3>2. Stands(Cleared, broker', out)
      BY <2>1, <2>2, <3>1, TurnArrives DEF Stands
    <3>3. Queue!Deal
      BY <1>1, <3>1, <3>2, StandsDeals
    <3> QED
      BY <3>3 DEF Queue!Next
  <2>4. CASE ~ (Known(Cleared, w) \/ w \in Reserved)
    <3>1. /\ ServesIn(Cleared)[w] = NoService
          /\ Arrives(c, LettersIn(Cleared), [ServesIn(Cleared) EXCEPT ![w] = s],
                     Cleared.lastId + 1, <<>>)
      BY <1>0, <2>4, ReadyRegisters
    <3>2. Arrives(broker', LettersIn(broker), [ServesIn(broker) EXCEPT ![w] = s],
                  broker.lastId + 1, <<>>)
      BY <1>0, <2>1, <2>2, <3>1, TurnArrives
    <3>3. /\ Queue!Give(LettersIn(broker)) /\ Queue!Silent
          /\ ServesIn(broker)' = [ServesIn(broker) EXCEPT ![w] = s]
          /\ broker'.lastId = broker.lastId + 1
      BY <1>1, <3>2, SilentHolds
    <3>4. Queue!Register(w, s)
      BY <1>0, <3>1, <3>3 DEF Queue!Register
    <3> QED
      BY <3>4 DEF Queue!Next
  <2> QED
    BY <2>3, <2>4
<1>4. ASSUME NEW w \in Workers, NEW c \in Clients, NEW body \in Bodies, Report(w, c, body)
      PROVE  Queue!Next
  <2>1. PICK e \in ProcessReport(Cleared, w, c, body, now) :
          broker' \in EndOfTurn(e) /\ broker.fault = "none"
    BY <1>2, <1>4 DEF Report
  <2>2. BInv(e)
    BY <1>0, <2>1, ReportInv
  <2>3. CASE ~ Known(Cleared, w)
    <3>1. PICK out : Quiet(out) /\ Stands(Cleared, e, out)
      BY <1>0, <2>3, ReportUnknown
    <3>2. Stands(Cleared, broker', out)
      BY <2>1, <2>2, <3>1, TurnArrives DEF Stands
    <3>3. Queue!Deal
      BY <1>1, <3>1, <3>2, StandsDeals
    <3> QED
      BY <3>3 DEF Queue!Next
  <2>4. CASE Known(Cleared, w)
    <3> DEFINE q == LettersIn(Cleared)
               rest == [l \in {k \in DOMAIN q : w \notin q[k].holders} |-> q[l]]
               m == ReportSent(Cleared, w, c, body)
    <3>1. Arrives(e, rest, ServesIn(Cleared), Cleared.lastId, <<m>>)
      BY <1>0, <2>1, <2>4, ReportReleases
    <3>2. /\ m = [to |-> c, cmd |-> "REPORT", service |-> ServesIn(Cleared)[w], body |-> body]
          /\ m.cmd \in {"REPORT", "NAK"}
      BY DEF ReportSent, ServesIn
    <3>3. ServesIn(Cleared)[w] # NoService
      BY <1>0, <2>4, BrokerAssumption DEF ServesIn, BInv, WorkersRegistered
    <3> HIDE DEF m, rest
    <3>4. Arrives(broker', rest, ServesIn(Cleared), Cleared.lastId, <<m>>)
      BY <2>1, <2>2, <3>1, TurnArrives
    <3>5. /\ Queue!Give(rest) /\ Queue!Says(m)
          /\ ServesIn(broker)' = ServesIn(Cleared) /\ broker'.lastId = Cleared.lastId
      BY <1>1, <3>2, <3>4, SaysHolds
    <3>6. Queue!Finish(w, c, body)
      BY <1>0, <3>2, <3>3, <3>5 DEF Queue!Finish, rest
    <3> QED
      BY <3>6 DEF Queue!Next
  <2> QED
    BY <2>3, <2>4
<1>5. ASSUME NEW outcomes, Turn(outcomes), \A c \in outcomes : BInv(c),
             \A c \in outcomes : \E out : Quiet(out) /\ Stands(Cleared, c, out)
      PROVE  Queue!Next
  <2>1. PICK c \in outcomes : broker' \in EndOfTurn(c)
    BY <1>2, <1>5
  <2>2. PICK out : Quiet(out) /\ Stands(Cleared, c, out)
    BY <1>5
  <2>3. Stands(Cleared, broker', out)
    BY <1>5, <2>1, <2>2, TurnArrives DEF Stands
  <2>4. Queue!Deal
    BY <1>1, <2>2, <2>3, StandsDeals
  <2> QED
    BY <2>4 DEF Queue!Next
<1>6. Quiet(<<>>)
  BY DEF Quiet
<1>7. ASSUME NEW w \in Workers, Heartbeat(w)
      PROVE  Queue!Next
  BY <1>0, <1>5, <1>6, <1>7, HeartbeatInv, HeartbeatStands DEF Heartbeat
<1>8. ASSUME NEW w \in Workers, Disconnect(w)
      PROVE  Queue!Next
  BY <1>0, <1>5, <1>6, <1>8, DisconnectInv, DisconnectStands DEF Disconnect
<1>9. ASSUME NEW c \in Clients, NEW s \in Services, NEW body \in Bodies, Request(c, s, body)
      PROVE  Queue!Next
  <2>1. PICK d \in ProcessClient(Cleared, c, s, body, now) : broker' \in EndOfTurn(d)
    BY <1>2, <1>9 DEF Request
  <2>2. BInv(d)
    BY <1>0, ClientInv
  <2>3. CASE Registered(Cleared, s)
    <3> DEFINE n == Cleared.lastId + 1
               q == LettersIn(Cleared)
               more == [l \in DOMAIN q \cup {n} |-> IF l = n THEN Queue!Letter(c, s, body) ELSE q[l]]
    <3>1. Arrives(d, more, ServesIn(Cleared), n, <<>>)
      BY <1>0, <2>3, ClientAccepted
    <3> HIDE DEF more
    <3>2. Arrives(broker', more, ServesIn(Cleared), n, <<>>)
      BY <2>1, <2>2, <3>1, TurnArrives
    <3>3. /\ Queue!Give(more) /\ Queue!Silent
          /\ ServesIn(broker)' = ServesIn(Cleared) /\ broker'.lastId = n
      BY <1>1, <3>2, SilentHolds
    <3>4. Queue!Accept(c, s, body)
      BY <1>0, <3>3 DEF Queue!Accept, more
    <3> QED
      BY <3>4 DEF Queue!Next
  <2>4. CASE ~ Registered(Cleared, s)
    <3> DEFINE m == [to |-> c, cmd |-> "NAK"]
    <3>1. Stands(Cleared, d, <<m>>) /\ m.cmd \in {"REPORT", "NAK"}
      BY <1>0, <2>4, ClientRefused
    <3> HIDE DEF m
    <3>2. Arrives(broker', LettersIn(broker), ServesIn(broker), broker.lastId, <<m>>)
      BY <1>0, <2>1, <2>2, <3>1, TurnArrives DEF Stands
    <3>3. /\ Queue!Give(LettersIn(broker)) /\ Queue!Says(m)
          /\ ServesIn(broker)' = ServesIn(broker) /\ broker'.lastId = broker.lastId
      BY <1>1, <3>1, <3>2, SaysHolds
    <3>4. Queue!Refuse(c)
      BY <3>3 DEF Queue!Refuse, m
    <3> QED
      BY <3>4 DEF Queue!Next
  <2> QED
    BY <2>3, <2>4
<1>10. ASSUME NEW c \in Clients, NEW s \in Services,
              NEW req \in {"mmi.service", "mmi.filter", "mmi.other"}, Internal(c, req, s)
       PROVE  Queue!Next
  BY <1>0, <1>5, <1>10, InternalInv, InternalStands DEF Internal
<1>11. CASE Timeout
  <2>1. Stands(Cleared, Cleared, <<>>)
    BY <1>0, DealsSame DEF Stands, Arrives
  <2> QED
    BY <1>0, <1>5, <1>6, <1>11, <2>1 DEF Timeout
<1>12. CASE Tick \/ UNCHANGED vars
  <2>1. broker' = broker
    BY <1>12 DEF Tick, vars
  <2>2. UNCHANGED Queue!vars
    BY <2>1 DEF Queue!vars
  <2> QED
    BY <2>2
<1> QED
  BY <1>3, <1>4, <1>7, <1>8, <1>9, <1>10, <1>11, <1>12 DEF Next

LEMMA QueueInit == Init => Queue!Init
<1> SUFFICES ASSUME Init
             PROVE  Queue!Init
  OBVIOUS
<1>1. /\ broker.worker = [w \in Workers |-> UnknownWorker]
      /\ DOMAIN broker.letter = {}
      /\ broker.lastId = 0 /\ broker.out = <<>>
  BY DEF Init, EmptyDatabase
<1>2. LettersIn(broker) = [l \in {} |-> 0]
  BY <1>1 DEF LettersIn
<1>3. ServesIn(broker) = [w \in Workers |-> NoService]
  BY <1>1 DEF ServesIn, UnknownWorker
<1> QED
  BY <1>1, <1>2, <1>3 DEF Queue!Init

(* The broker implements LetterQueue, for any number of services, workers  *)
(* and clients: whatever its tables, its purges and the choices of its     *)
(* indexes do, to its peers it is a queue that gives each request to one   *)
(* idle worker of its service and takes it away by that worker's report.   *)
THEOREM Implements == Spec => KeepsPromises
<1>1. Init => Queue!Init
  BY QueueInit
<1>2. IInv /\ [Next]_vars => [Queue!Next]_(Queue!vars)
  BY QueueStep
<1> QED
  BY <1>1, <1>2, Invariance, PTL DEF Spec, KeepsPromises, Queue!Spec

=============================================================================
