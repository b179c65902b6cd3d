--------------------------- MODULE MajordomoProofs ---------------------------
(***************************************************************************)
(* Safety of the broker together with its worker processes, for any number *)
(* of them and any number of messages under way.                           *)
(*                                                                         *)
(* What the broker's turns do to rows, letters and messages is taken from  *)
(* BrokerProofs.  The invariant has two levels.  TypeInv holds whatever is *)
(* stopped and however soon a worker reconnects; IInv says why a worker    *)
(* never has two requests: nothing but a request or a report is pending    *)
(* between the broker and the worker it has the letter of, and while no    *)
(* worker is stopped a READY or a DISCONNECT is never under way together   *)
(* with one of them.  For the second part a worker must not reconnect by   *)
(* itself, with a report in its socket: Lively keeps its liveness within   *)
(* one of HEARTBEAT_LIVENESS, which must therefore be greater than 2.      *)
(***************************************************************************)
EXTENDS Majordomo, TLAPS, FiniteSetTheorems
LOCAL INSTANCE SequencesExt

P == INSTANCE BrokerProofs WITH now <- BrokerNow

(* What BrokerProofs assumes of the constants it is given here.            *)
LEMMA Assumed == P!BrokerAssumption
BY MajordomoAssumption

-----------------------------------------------------------------------------
(* Queues.                                                                 *)

(* q is a part of s: what precedes it and what follows it is lost.         *)
Part(q, s) == \E o \in Nat : \A i \in DOMAIN q : i + o \in DOMAIN s /\ q[i] = s[i + o]

LEMMA UnsentPart ==
  ASSUME NEW S, NEW s \in Seq(S), NEW q \in Unsent(s)
  PROVE  q \in Seq(S) /\ Part(q, s)
<1>1. q \in Seq(S) /\ \A i \in DOMAIN q : i + 0 \in DOMAIN s /\ q[i] = s[i + 0]
  BY DEF Unsent, Prefixes
<1> QED
  BY <1>1 DEF Part

LEMMA SuffixPart ==
  ASSUME NEW S, NEW s \in Seq(S), NEW q \in Suffixes(s)
  PROVE  q \in Seq(S) /\ Part(q, s)
<1>1. CASE q = <<>>
  BY <1>1 DEF Part
<1>2. ASSUME NEW l \in 1 .. Len(s), q = SubSeq(s, l, Len(s))
      PROVE  q \in Seq(S) /\ Part(q, s)
  <2>1. q \in Seq(S) /\ \A i \in DOMAIN q : i + (l - 1) \in DOMAIN s /\ q[i] = s[i + (l - 1)]
    BY <1>2
  <2> QED
    BY <2>1 DEF Part
<1> QED
  BY <1>1, <1>2 DEF Suffixes

LEMMA TailPart ==
  ASSUME NEW S, NEW s \in Seq(S), s # <<>>
  PROVE  Tail(s) \in Seq(S) /\ Part(Tail(s), s) /\ Head(s) \in S
<1>1. Tail(s) \in Seq(S) /\ \A i \in DOMAIN Tail(s) : i + 1 \in DOMAIN s /\ Tail(s)[i] = s[i + 1]
  OBVIOUS
<1> QED
  BY <1>1 DEF Part

(* Of a finite set of naturals, each place in its order is taken.          *)
LEMMA PlaceTaken ==
  ASSUME NEW n \in Nat, NEW I, I \subseteq 1 .. n, NEW k \in 1 .. Cardinality(I)
  PROVE  \E i \in I : Cardinality({j \in I : j < i}) = k - 1
<1> DEFINE Under(i) == {j \in I : j < i}
           T == {i \in 1 .. n : Cardinality(Under(i + 1)) >= k}
<1>1. IsFiniteSet(I) /\ Cardinality(I) \in Nat
  BY FS_Interval, FS_Subset, FS_CardinalityType, 1 \in Int, n \in Int
<1>2. \A i \in Nat : IsFiniteSet(Under(i)) /\ Cardinality(Under(i)) \in Nat
  <2>1. \A i \in Nat : Under(i) \subseteq I
    OBVIOUS
  <2> QED
    BY <1>1, <2>1, FS_Subset, FS_CardinalityType
<1>3. Under(n + 1) = I
  <2>1. \A j \in I : j \in 1 .. n
    OBVIOUS
  <2>2. \A j \in I : j < n + 1
    BY <2>1
  <2> QED
    BY <2>2
<1>4. Under(1) = {}
  <2>1. \A j \in I : j \in 1 .. n
    OBVIOUS
  <2>2. \A j \in I : ~ (j < 1)
    BY <2>1
  <2> QED
    BY <2>2
<1>5. ASSUME NEW i \in Nat
      PROVE  IF i \in I THEN Under(i + 1) = Under(i) \cup {i} /\ i \notin Under(i)
                        ELSE Under(i + 1) = Under(i)
  <2>1. \A j \in I : j \in 1 .. n
    OBVIOUS
  <2>2. \A j \in I : j < i + 1 <=> (j < i \/ j = i)
    BY <2>1
  <2>3. CASE i \in I
    <3>1. Under(i + 1) = Under(i) \cup {i}
      BY <2>2, <2>3
    <3> QED
      BY <2>3, <3>1
  <2>4. CASE i \notin I
    <3>1. \A j \in I : j < i + 1 <=> j < i
      BY <2>2, <2>4
    <3> QED
      BY <2>4, <3>1
  <2> QED
    BY <2>3, <2>4
<1>6. T \subseteq Nat /\ \A i \in 1 .. n : i \in T <=> Cardinality(Under(i + 1)) >= k
  OBVIOUS
<1> HIDE DEF Under, T
<1>7. n \in T
  <2>1. n # 0
    <3>1. n = 0 => I = {}
      BY 1 .. 0 = {}
    <3> QED
      BY <3>1, FS_EmptySet, 1 .. 0 = {}
  <2> QED
    BY <1>1, <1>3, <1>6, <2>1
<1>8. \E i \in T : \A m \in T : i <= m
  BY <1>6, <1>7, P!LeastNatural, Assumed
<1>9. PICK i \in T : \A m \in T : i <= m
  BY <1>8
<1>10. i \in 1 .. n
  BY <1>9 DEF T
<1>11. Cardinality(Under(i)) < k
  <2>1. CASE i = 1
    BY <1>4, <2>1, FS_EmptySet
  <2>2. CASE i # 1
    <3>1. i - 1 \in 1 .. n /\ ~ (i <= i - 1) /\ (i - 1) + 1 = i
      BY <1>10, <2>2
    <3>2. i - 1 \notin T
      BY <1>9, <3>1
    <3>3. ~ (Cardinality(Under((i - 1) + 1)) >= k)
      BY <1>6, <3>1, <3>2
    <3> QED
      BY <1>2, <1>10, <3>1, <3>3
  <2> QED
    BY <2>1, <2>2
<1>12. Cardinality(Under(i + 1)) >= k
  BY <1>6, <1>9, <1>10
<1>13. i \in I
  BY <1>2, <1>5, <1>10, <1>11, <1>12
<1>14. Cardinality(Under(i + 1)) = Cardinality(Under(i)) + 1
  BY <1>2, <1>5, <1>10, <1>13, FS_AddElement
<1>15. Cardinality(Under(i)) \in Nat
  BY <1>2, <1>10
<1>16. Cardinality(Under(i)) = k - 1
  BY <1>11, <1>12, <1>14, <1>15
<1> QED
  BY <1>13, <1>16 DEF Under

(* q consists of messages of out addressed to w, each of them once.        *)
Selects(q, out, w, at) ==
  \A k \in DOMAIN q :
    /\ at[k] \in DOMAIN out
    /\ out[at[k]].to = w
    /\ q[k] = out[at[k]]
    /\ \A h \in DOMAIN q : at[h] = at[k] => h = k

LEMMA AddressedFrom ==
  ASSUME NEW S, NEW out \in Seq(S), NEW w
  PROVE  /\ Addressed(out, w) \in Seq(S)
         /\ \E at : Selects(Addressed(out, w), out, w, at)
<1> DEFINE I == {i \in DOMAIN out : out[i].to = w}
           q == Addressed(out, w)
           Rank(i) == Cardinality({j \in I : j < i})
           at == [k \in 1 .. Cardinality(I) |-> CHOOSE i \in I : Rank(i) = k - 1]
<1>1. I \subseteq 1 .. Len(out) /\ Len(out) \in Nat
  OBVIOUS
<1>2. Cardinality(I) \in Nat
  BY <1>1, FS_Interval, FS_Subset, FS_CardinalityType, 1 \in Int, Len(out) \in Int
<1>3. ASSUME NEW k \in 1 .. Cardinality(I)
      PROVE  at[k] \in I /\ Rank(at[k]) = k - 1
  <2>1. \E i \in I : Rank(i) = k - 1
    BY <1>1, PlaceTaken
  <2> HIDE DEF Rank
  <2> QED
    BY <2>1
<1>4. q = [k \in 1 .. Cardinality(I) |-> out[at[k]]]
  BY DEF Addressed
<1> HIDE DEF q, at, Rank
<1>5. \A k \in DOMAIN q : /\ at[k] \in DOMAIN out
                          /\ out[at[k]].to = w
                          /\ q[k] = out[at[k]]
  BY <1>3, <1>4
<1>6. Selects(q, out, w, at)
  <2>1. \A k, h \in DOMAIN q : at[h] = at[k] => h = k
    BY <1>2, <1>3, <1>4
  <2> QED
    BY <1>5, <2>1 DEF Selects
<1>7. q \in Seq(S)
  <2>1. \A k \in 1 .. Cardinality(I) : out[at[k]] \in S
    BY <1>3
  <2>2. \E n \in Nat : q \in [1 .. n -> S]
    BY <1>2, <1>4, <2>1
  <2> QED
    BY <2>2
<1> QED
  BY <1>6, <1>7 DEF q

-----------------------------------------------------------------------------
(* The broker of this module is the one BrokerProofs is about.             *)

LEMMA SameTables ==
  /\ B!Messages = P!Messages
  /\ B!Cleared = P!Cleared
  /\ B!EmptyDatabase = P!EmptyDatabase
  /\ \A b : B!BrokerType(b) = P!BrokerType(b)
  /\ \A b, w : B!Known(b, w) = P!Known(b, w)
  /\ \A b : B!EndOfTurn(b) = P!EndOfTurn(b)
<1>1. B!Messages = P!Messages
  BY DEF B!Messages, P!Messages
<1>2. B!Cleared = P!Cleared
  BY DEF B!Cleared, P!Cleared
<1>3. B!EmptyDatabase = P!EmptyDatabase
  BY DEF B!EmptyDatabase, P!EmptyDatabase, B!UnknownWorker, P!UnknownWorker
<1>4. ASSUME NEW b
      PROVE  B!BrokerType(b) = P!BrokerType(b)
  BY <1>1 DEF B!BrokerType, P!BrokerType, B!WorkerRow, P!WorkerRow, B!LetterRow, P!LetterRow,
     B!WorkerStates, P!WorkerStates, B!LetterStates, P!LetterStates, B!Faults, P!Faults
<1>5. ASSUME NEW b, NEW w
      PROVE  B!Known(b, w) = P!Known(b, w)
  BY DEF B!Known, P!Known
<1>6. ASSUME NEW b
      PROVE  B!EndOfTurn(b) = P!EndOfTurn(b)
  BY DEF B!EndOfTurn, P!EndOfTurn, B!PurgeWorkers, P!PurgeWorkers, B!Expired, P!Expired,
     B!Heads, P!Heads, B!Armed, P!Armed
<1> QED
  BY <1>1, <1>2, <1>3, <1>4, <1>5, <1>6

LEMMA SameDispatch ==
  ASSUME NEW b, NEW s, NEW t
  PROVE  B!ServiceDispatch(b, s, t) = P!ServiceDispatch(b, s, t)
BY DEF B!ServiceDispatch, P!ServiceDispatch, B!DispatchOne, P!DispatchOne,
   B!PurgeWorkers, P!PurgeWorkers, B!Expired, P!Expired, B!Heads, P!Heads, B!Armed, P!Armed,
   B!Waiting, P!Waiting, B!Popped, P!Popped, B!WorkerSend, P!WorkerSend,
   B!Assignable, P!Assignable, B!AssignLetterToWorker, P!AssignLetterToWorker, B!Send, P!Send

LEMMA SameWaiting ==
  ASSUME NEW b, NEW w, NEW s, NEW t
  PROVE  B!WorkerWaiting(b, w, s, t) = P!WorkerWaiting(b, w, s, t)
<1>1. B!PushWorker(b, w, s, t) = P!PushWorker(b, w, s, t)
  BY DEF B!PushWorker, P!PushWorker, B!Known, P!Known, B!FreshId, P!FreshId,
     B!WorkerTTL, P!WorkerTTL
<1> QED
  BY <1>1, SameDispatch DEF B!WorkerWaiting, P!WorkerWaiting

LEMMA SameHandlers ==
  ASSUME NEW b, NEW w, NEW s, NEW ep, NEW c, NEW body, NEW t
  PROVE  /\ B!ProcessReady(b, w, s, ep, t) = P!ProcessReady(b, w, s, ep, t)
         /\ B!ProcessReport(b, w, c, body, t) = P!ProcessReport(b, w, c, body, t)
         /\ B!ProcessHeartbeat(b, w, t) = P!ProcessHeartbeat(b, w, t)
         /\ B!ProcessDisconnect(b, w) = P!ProcessDisconnect(b, w)
         /\ B!ProcessClient(b, c, s, body, t) = P!ProcessClient(b, c, s, body, t)
<1>1. \A d : B!Release(b, w, d) = P!Release(b, w, d)
  BY DEF B!Release, P!Release, B!RemoveWorker, P!RemoveWorker, B!Send, P!Send
<1>2. /\ B!Known(b, w) = P!Known(b, w)
      /\ B!Registered(b, s) = P!Registered(b, s)
      /\ \A m : B!Send(b, m) = P!Send(b, m)
      /\ \A d, m : B!Send(d, m) = P!Send(d, m)
      /\ \A f : B!Fault(b, f) = P!Fault(b, f)
  BY DEF B!Known, P!Known, B!Registered, P!Registered, B!Send, P!Send, B!Fault, P!Fault
<1>3. B!ReleaseLetterFromWorker(b, w) = P!ReleaseLetterFromWorker(b, w)
  BY <1>2 DEF B!ReleaseLetterFromWorker, P!ReleaseLetterFromWorker,
     B!LettersOf, P!LettersOf
<1>4. B!PushRequestToService(b, s, c, body) = P!PushRequestToService(b, s, c, body)
  BY DEF B!PushRequestToService, P!PushRequestToService, B!FreshId, P!FreshId
<1>5. B!ProcessReady(b, w, s, ep, t) = P!ProcessReady(b, w, s, ep, t)
  BY <1>1, <1>2, SameDispatch, SameWaiting DEF B!ProcessReady, P!ProcessReady
<1>6. B!ProcessReport(b, w, c, body, t) = P!ProcessReport(b, w, c, body, t)
  BY <1>2, <1>3, SameWaiting DEF B!ProcessReport, P!ProcessReport
<1>7. B!ProcessHeartbeat(b, w, t) = P!ProcessHeartbeat(b, w, t)
  BY <1>2, SameWaiting DEF B!ProcessHeartbeat, P!ProcessHeartbeat
<1>8. B!ProcessDisconnect(b, w) = P!ProcessDisconnect(b, w)
  BY <1>1, <1>2 DEF B!ProcessDisconnect, P!ProcessDisconnect
<1>9. B!ProcessClient(b, c, s, body, t) = P!ProcessClient(b, c, s, body, t)
  BY <1>2, <1>4, SameDispatch DEF B!ProcessClient, P!ProcessClient
<1> QED
  BY <1>5, <1>6, <1>7, <1>8, <1>9

-----------------------------------------------------------------------------
(* What the queues of a worker, and its process, hold.                     *)

(* The letters on their way to a worker, in its hands or reported by it,   *)
(* each with the client that is to be answered.                            *)
Pending(p, in, out) ==
  {<<in[i].letter, in[i].client>> : i \in Carrying(in, "REQUEST")}
    \cup (IF p.phase = "busy" THEN {<<p.letter, p.client>>} ELSE {})
    \cup {<<out[i].letter, out[i].client>> : i \in Carrying(out, "REPORT")}

Typed(b, p, in, out) ==
  /\ p \in Process
  /\ in \in Seq(P!Messages)
  /\ out \in Seq(Entry)
  /\ \A i \in DOMAIN in : in[i].cmd \in {"REQUEST", "DISCONNECT"}
  /\ \A i \in DOMAIN out : out[i].cmd = "REPORT" =>
       out[i].client \in Clients /\ out[i].body \in Bodies
  /\ \A x \in Pending(p, in, out) : x[1] \in 1 .. b.lastId
  /\ IF p.phase = "busy" THEN p.client \in Clients /\ p.body \in Bodies ELSE p.letter = 0
  /\ p.phase # "down" => p.liveness > 0
  /\ p.phase = "down" => in = <<>>

TypeInv ==
  /\ P!BInv(broker)
  /\ proc \in [Workers -> Process]
  /\ toWorker \in [Workers -> Seq(P!Messages)]
  /\ toBroker \in [Workers -> Seq(Entry)]
  /\ \A w \in Workers : Typed(broker, proc[w], toWorker[w], toBroker[w])
  /\ stops \in 0 .. MaxStops
  /\ brokerStops \in 0 .. MaxBrokerStops

(* The commands that are not requests or reports carry no letter.          *)
LEMMA CommandPlain ==
  ASSUME NEW cmd \in {"READY", "HEARTBEAT", "DISCONNECT"}
  PROVE  Command(cmd) \in Entry /\ Command(cmd).cmd = cmd
BY DEF Command, Entry

(* What is pending in parts of the queues was pending in the queues.       *)
LEMMA PendingPart ==
  ASSUME NEW S, NEW T, NEW p, NEW in \in Seq(S), NEW out \in Seq(T),
         NEW in2 \in Seq(S), NEW out2 \in Seq(T), Part(in2, in), Part(out2, out)
  PROVE  Pending(p, in2, out2) \subseteq Pending(p, in, out)
<1>1. \A i \in DOMAIN in2 : \E j \in DOMAIN in : in2[i] = in[j]
  BY DEF Part
<1>2. \A i \in DOMAIN out2 : \E j \in DOMAIN out : out2[i] = out[j]
  BY DEF Part
<1>3. ASSUME NEW i \in Carrying(in2, "REQUEST")
      PROVE  \E j \in Carrying(in, "REQUEST") : in2[i] = in[j]
  BY <1>1 DEF Carrying
<1>4. ASSUME NEW i \in Carrying(out2, "REPORT")
      PROVE  \E j \in Carrying(out, "REPORT") : out2[i] = out[j]
  BY <1>2 DEF Carrying
<1> QED
  BY <1>3, <1>4 DEF Pending

LEMMA PartItself ==
  ASSUME NEW S, NEW s \in Seq(S)
  PROVE  Part(s, s) /\ Part(<<>>, s) /\ <<>> \in Seq(S)
<1>1. \A i \in DOMAIN s : i + 0 \in DOMAIN s /\ s[i] = s[i + 0]
  OBVIOUS
<1>2. Part(s, s)
  BY <1>1, 0 \in Nat DEF Part
<1>3. Part(<<>>, s)
  BY 0 \in Nat, DOMAIN <<>> = {} DEF Part
<1> QED
  BY <1>2, <1>3

(* A command appended to the queue makes nothing more pending.             *)
LEMMA PendingAppend ==
  ASSUME NEW p, NEW in, NEW out \in Seq(Entry), NEW m \in Entry
  PROVE  Pending(p, in, Append(out, m)) =
           Pending(p, in, out) \cup
             (IF m.cmd = "REPORT" THEN {<<m.letter, m.client>>} ELSE {})
<1> DEFINE q == Append(out, m)
<1>1. /\ DOMAIN q = DOMAIN out \cup {Len(out) + 1}
      /\ \A i \in DOMAIN out : q[i] = out[i]
      /\ q[Len(out) + 1] = m
  OBVIOUS
<1> HIDE DEF q
<1>2. Carrying(q, "REPORT") =
        Carrying(out, "REPORT") \cup (IF m.cmd = "REPORT" THEN {Len(out) + 1} ELSE {})
  BY <1>1 DEF Carrying
<1>3. {<<q[i].letter, q[i].client>> : i \in Carrying(q, "REPORT")} =
        {<<out[i].letter, out[i].client>> : i \in Carrying(out, "REPORT")}
          \cup (IF m.cmd = "REPORT" THEN {<<m.letter, m.client>>} ELSE {})
  <2>1. \A i \in Carrying(out, "REPORT") : q[i] = out[i]
    BY <1>1 DEF Carrying
  <2> QED
    BY <1>1, <1>2, <2>1
<1> QED
  BY <1>3 DEF Pending, q

-----------------------------------------------------------------------------
(* Types: the steps of a worker.                                           *)

LEMMA PeriodPositive ==
  /\ Period \in Nat \ {0} /\ BrokerNow \in Nat
  /\ Period \in -1 .. Period /\ Period \in 0 .. Period
  /\ HeartbeatLiveness \in 0 .. HeartbeatLiveness
BY MajordomoAssumption DEF Period, BrokerNow

(* A process that polls for the first time since it is connected.          *)
Fresh(p) ==
  /\ p \in Process
  /\ p.phase = "recv" /\ p.liveness = HeartbeatLiveness
  /\ p.heartbeatIn = Period /\ p.pollIn = Period
  /\ p.letter = 0

LEMMA Connecting ==
  ASSUME NEW p \in Process
  PROVE  Fresh(Polling(Signed(Freed(p))))
<1> DEFINE q == Freed(p)
           r == Signed(q)
<1>1. q \in Process /\ q.letter = 0
  BY DEF Process, Freed
<1> HIDE DEF q
<1>2. /\ r \in Process /\ r.letter = 0
      /\ r.heartbeatIn = Period /\ r.liveness = HeartbeatLiveness
  BY <1>1, PeriodPositive DEF Process, Signed
<1> HIDE DEF r
<1>3. /\ Polling(r) \in Process /\ Polling(r).letter = 0
      /\ Polling(r).heartbeatIn = Period /\ Polling(r).liveness = HeartbeatLiveness
      /\ Polling(r).phase = "recv" /\ Polling(r).pollIn = Period
  BY <1>2, PeriodPositive DEF Process, Polling
<1> QED
  BY <1>3 DEF Fresh, q, r

LEMMA ConnectTyped ==
  ASSUME NEW b, NEW p, NEW in, NEW out, Typed(b, p, in, out), p.phase # "busy",
         NEW rest \in Unsent(out)
  PROVE  LET p2 == Polling(Signed(Freed(p)))
             out2 == Append(rest, Command("READY"))
         IN  Typed(b, p2, <<>>, out2) /\ Pending(p2, <<>>, out2) \subseteq Pending(p, in, out)
<1> DEFINE p2 == Polling(Signed(Freed(p)))
           m == Command("READY")
<1>1. Fresh(p2)
  BY Connecting DEF Typed
<1>2. rest \in Seq(Entry) /\ Part(rest, out)
  BY UnsentPart DEF Typed
<1>3. m \in Entry /\ m.cmd = "READY"
  BY CommandPlain
<1>4. Part(<<>>, in) /\ <<>> \in Seq(P!Messages) /\ in \in Seq(P!Messages) /\ out \in Seq(Entry)
  BY PartItself DEF Typed
<1> HIDE DEF p2, m
<1>5. Pending(p2, <<>>, Append(rest, m)) = Pending(p2, <<>>, rest)
  <2>1. Pending(p2, <<>>, Append(rest, m)) = Pending(p2, <<>>, rest) \cup
          (IF m.cmd = "REPORT" THEN {<<m.letter, m.client>>} ELSE {})
    BY <1>2, <1>3, PendingAppend
  <2> QED
    BY <1>3, <2>1
<1>6. Pending(p2, <<>>, rest) \subseteq Pending(p2, in, out)
  BY <1>2, <1>4, PendingPart
<1>7. Pending(p2, in, out) = Pending(p, in, out)
  BY <1>1 DEF Pending, Fresh, Typed
<1>8. \A x \in Pending(p2, <<>>, Append(rest, m)) : x[1] \in 1 .. b.lastId
  BY <1>5, <1>6, <1>7 DEF Typed
<1>9. Append(rest, m) \in Seq(Entry)
  BY <1>2, <1>3
<1>10. \A i \in DOMAIN Append(rest, m) :
         \/ Append(rest, m)[i] = m
         \/ \E j \in DOMAIN out : Append(rest, m)[i] = out[j]
  BY <1>2 DEF Part
<1>11. \A i \in DOMAIN Append(rest, m) : Append(rest, m)[i].cmd = "REPORT" =>
         Append(rest, m)[i].client \in Clients /\ Append(rest, m)[i].body \in Bodies
  BY <1>3, <1>10 DEF Typed
<1> QED
  BY <1>1, <1>4, <1>5, <1>6, <1>7, <1>8, <1>9, <1>11, MajordomoAssumption
     DEF Typed, Fresh, p2, m

(* A step of one worker that leaves the broker alone.                      *)
Moves(w, p, in, out) ==
  /\ broker' = broker
  /\ proc' = [proc EXCEPT ![w] = p]
  /\ toWorker' = [toWorker EXCEPT ![w] = in]
  /\ toBroker' = [toBroker EXCEPT ![w] = out]

LEMMA MovesTyped ==
  ASSUME TypeInv, NEW w \in Workers, NEW p, NEW in, NEW out, Moves(w, p, in, out),
         Typed(broker, p, in, out), stops' \in 0 .. MaxStops, UNCHANGED brokerStops
  PROVE  TypeInv'
<1>1. \A v \in Workers : /\ proc'[v] = IF v = w THEN p ELSE proc[v]
                         /\ toWorker'[v] = IF v = w THEN in ELSE toWorker[v]
                         /\ toBroker'[v] = IF v = w THEN out ELSE toBroker[v]
  BY DEF TypeInv, Moves
<1>2. /\ proc' \in [Workers -> Process]
      /\ toWorker' \in [Workers -> Seq(P!Messages)]
      /\ toBroker' \in [Workers -> Seq(Entry)]
  BY DEF TypeInv, Moves, Typed
<1>3. \A v \in Workers : Typed(broker', proc'[v], toWorker'[v], toBroker'[v])
  BY <1>1 DEF TypeInv, Moves
<1> QED
  BY <1>2, <1>3 DEF TypeInv, Moves

(* What a step may make of the process p and its queues in and out.        *)

Connects(p, in, out, p2, in2, out2) ==
  /\ \/ p.phase = "down"
     \/ p.phase = "recv" /\ in # <<>> /\ Head(in).cmd = "DISCONNECT"
     \/ p.phase = "recv" /\ in = <<>> /\ p.pollIn = 0 /\ p.liveness - 1 = 0
  /\ p2 = Polling(Signed(Freed(p)))
  /\ in2 = <<>>
  /\ \E rest \in Unsent(out) : out2 = Append(rest, Command("READY"))

Ends(p, out, p2, in2, out2) ==
  /\ p.phase # "down"
  /\ p2 = Down
  /\ in2 = <<>>
  /\ out2 \in Unsent(out) \/ out2 \in Unsent(Append(out, Command("DISCONNECT")))

Takes(p, in, out, p2, in2, out2) ==
  /\ p.phase = "recv"
  /\ in # <<>> /\ Head(in).cmd = "REQUEST"
  /\ p2 = [Signed(p) EXCEPT !.phase = "busy", !.pollIn = 0, !.letter = Head(in).letter,
                            !.client = Head(in).client, !.body = Head(in).body]
  /\ in2 = Tail(in)
  /\ out2 = out

Answers(p, in, out, p2, in2, out2) ==
  /\ p.phase = "busy"
  /\ p2 = Polling(Freed(p))
  /\ in2 = in
  /\ \/ out2 = out
     \/ out2 = Append(out, [cmd |-> "REPORT", letter |-> p.letter,
                            client |-> p.client, body |-> p.body])

Polls(p, in, out, p2, in2, out2) ==
  /\ p.phase = "recv" /\ in = <<>> /\ p.pollIn = 0 /\ p.liveness - 1 # 0
  /\ in2 = in
  /\ \/ p.heartbeatIn >= 0 /\ p2 = Polling(Missed(p)) /\ out2 = out
     \/ p.heartbeatIn <= 0 /\ p2 = Polling(Signed(p)) /\ out2 = Append(out, Command("HEARTBEAT"))

Step(p, in, out, p2, in2, out2) ==
  \/ Connects(p, in, out, p2, in2, out2)
  \/ Takes(p, in, out, p2, in2, out2)
  \/ Answers(p, in, out, p2, in2, out2)
  \/ Polls(p, in, out, p2, in2, out2)

LEMMA StepOf ==
  ASSUME TypeInv, NEW w \in Workers, Start(w) \/ Worker(w)
  PROVE  /\ \E p, in, out : /\ Moves(w, p, in, out)
                            /\ Step(proc[w], toWorker[w], toBroker[w], p, in, out)
         /\ UNCHANGED <<stops, brokerStops>>
<1>0. /\ toWorker = [toWorker EXCEPT ![w] = toWorker[w]]
      /\ toBroker = [toBroker EXCEPT ![w] = toBroker[w]]
      /\ Typed(broker, proc[w], toWorker[w], toBroker[w])
      /\ Missed(proc[w]).liveness = proc[w].liveness - 1
  BY DEF TypeInv, Missed, Process
<1>1. ASSUME Connect(w), UNCHANGED broker,
             \/ proc[w].phase = "down" /\ UNCHANGED toWorker
             \/ /\ proc[w].phase = "recv" /\ toWorker[w] # <<>>
                /\ Head(toWorker[w]).cmd = "DISCONNECT"
                /\ toWorker' = [toWorker EXCEPT ![w] = <<>>]
             \/ /\ PollTimedOut(w) /\ Missed(proc[w]).liveness = 0
                /\ UNCHANGED toWorker
      PROVE  \E p, in, out : /\ Moves(w, p, in, out)
                             /\ Step(proc[w], toWorker[w], toBroker[w], p, in, out)
  <2>1. PICK rest \in Unsent(toBroker[w]) :
          toBroker' = [toBroker EXCEPT ![w] = Append(rest, Command("READY"))]
    BY <1>1 DEF Connect
  <2>2. proc' = [proc EXCEPT ![w] = Polling(Signed(Freed(proc[w])))]
    BY <1>1 DEF Connect
  <2>3. toWorker' = [toWorker EXCEPT ![w] = <<>>]
    BY <1>0, <1>1 DEF Typed, PollTimedOut
  <2>4. Moves(w, Polling(Signed(Freed(proc[w]))), <<>>, Append(rest, Command("READY")))
    BY <1>1, <2>1, <2>2, <2>3 DEF Moves
  <2>5. Connects(proc[w], toWorker[w], toBroker[w],
                 Polling(Signed(Freed(proc[w]))), <<>>, Append(rest, Command("READY")))
    BY <1>0, <1>1, <2>1 DEF Connects, PollTimedOut
  <2> QED
    BY <2>4, <2>5 DEF Step
<1>2. CASE Start(w)
  BY <1>1, <1>2 DEF Start
<1>3. CASE ReceiveRequest(w)
  <2> DEFINE m == Head(toWorker[w])
             p == [Signed(proc[w]) EXCEPT !.phase = "busy", !.pollIn = 0, !.letter = m.letter,
                                          !.client = m.client, !.body = m.body]
  <2>1. Moves(w, p, Tail(toWorker[w]), toBroker[w])
    BY <1>0, <1>3 DEF ReceiveRequest, Moves
  <2>2. Takes(proc[w], toWorker[w], toBroker[w], p, Tail(toWorker[w]), toBroker[w])
    BY <1>3 DEF ReceiveRequest, Takes
  <2> QED
    BY <1>3, <2>1, <2>2 DEF Step, ReceiveRequest
<1>4. CASE ReceiveDisconnect(w)
  BY <1>1, <1>4 DEF ReceiveDisconnect
<1>5. CASE HandleRequest(w)
  <2> DEFINE m == [cmd |-> "REPORT", letter |-> proc[w].letter,
                   client |-> proc[w].client, body |-> proc[w].body]
             out == IF proc[w].body \in Supported THEN Append(toBroker[w], m) ELSE toBroker[w]
             p == Polling(Freed(proc[w]))
  <2>1. Moves(w, p, toWorker[w], out)
    BY <1>0, <1>5 DEF HandleRequest, SendToBroker, Moves
  <2>2. Answers(proc[w], toWorker[w], toBroker[w], p, toWorker[w], out)
    BY <1>5 DEF HandleRequest, Answers
  <2> QED
    BY <1>5, <2>1, <2>2 DEF Step, HandleRequest
<1>6. CASE ReconnectOrPoll(w)
  <2>1. CASE Missed(proc[w]).liveness = 0
    BY <1>1, <1>6, <2>1 DEF ReconnectOrPoll
  <2>2. CASE Missed(proc[w]).liveness # 0
    <3> DEFINE p == Polling(Missed(proc[w]))
    <3>1. Moves(w, p, toWorker[w], toBroker[w])
      BY <1>0, <1>6, <2>2 DEF ReconnectOrPoll, Moves
    <3>2. Polls(proc[w], toWorker[w], toBroker[w], p, toWorker[w], toBroker[w])
      BY <1>0, <1>6, <2>2 DEF ReconnectOrPoll, PollTimedOut, Polls
    <3> QED
      BY <1>6, <3>1, <3>2 DEF Step, ReconnectOrPoll
  <2> QED
    BY <2>1, <2>2
<1>7. CASE SendHeartbeat(w)
  <2>1. CASE Missed(proc[w]).liveness = 0
    BY <1>1, <1>7, <2>1 DEF SendHeartbeat
  <2>2. CASE Missed(proc[w]).liveness # 0
    <3> DEFINE p == Polling(Signed(proc[w]))
               out == Append(toBroker[w], Command("HEARTBEAT"))
    <3>1. Moves(w, p, toWorker[w], out)
      BY <1>0, <1>7, <2>2 DEF SendHeartbeat, SendToBroker, Moves
    <3>2. Polls(proc[w], toWorker[w], toBroker[w], p, toWorker[w], out)
      BY <1>0, <1>7, <2>2 DEF SendHeartbeat, PollTimedOut, Polls
    <3> QED
      BY <1>7, <3>1, <3>2 DEF Step, SendHeartbeat
  <2> QED
    BY <2>1, <2>2
<1> QED
  BY <1>2, <1>3, <1>4, <1>5, <1>6, <1>7 DEF Worker

LEMMA EndOf ==
  ASSUME TypeInv, NEW w \in Workers, Stop(w) \/ Crash(w)
  PROVE  /\ \E p, in, out : /\ Moves(w, p, in, out)
                            /\ Ends(proc[w], toBroker[w], p, in, out)
         /\ stops' = stops + 1 /\ stops < MaxStops
         /\ brokerStops = 0 /\ UNCHANGED brokerStops
<1>1. CASE Stop(w)
  <2>1. PICK rest \in Unsent(Append(toBroker[w], Command("DISCONNECT"))) :
          toBroker' = [toBroker EXCEPT ![w] = rest]
    BY <1>1 DEF Stop
  <2>2. Moves(w, Down, <<>>, rest) /\ Ends(proc[w], toBroker[w], Down, <<>>, rest)
    BY <1>1, <2>1 DEF Stop, Moves, Ends
  <2> QED
    BY <1>1, <2>2 DEF Stop
<1>2. CASE Crash(w)
  <2>1. PICK rest \in Unsent(toBroker[w]) : toBroker' = [toBroker EXCEPT ![w] = rest]
    BY <1>2 DEF Crash
  <2>2. Moves(w, Down, <<>>, rest) /\ Ends(proc[w], toBroker[w], Down, <<>>, rest)
    BY <1>2, <2>1 DEF Crash, Moves, Ends
  <2> QED
    BY <1>2, <2>2 DEF Crash
<1> QED
  BY <1>1, <1>2

LEMMA StepTyped ==
  ASSUME NEW b, NEW p, NEW in, NEW out, Typed(b, p, in, out),
         NEW p2, NEW in2, NEW out2, Step(p, in, out, p2, in2, out2)
  PROVE  Typed(b, p2, in2, out2) /\ Pending(p2, in2, out2) \subseteq Pending(p, in, out)
<1>0. /\ p \in Process /\ in \in Seq(P!Messages) /\ out \in Seq(Entry)
      /\ Part(in, in) /\ Part(out, out)
  BY PartItself DEF Typed
<1>1. CASE Connects(p, in, out, p2, in2, out2)
  BY <1>1, ConnectTyped DEF Connects
<1>2. CASE Takes(p, in, out, p2, in2, out2)
  <2> DEFINE m == Head(in)
  <2>1. in2 \in Seq(P!Messages) /\ Part(in2, in) /\ m \in P!Messages /\ m.cmd = "REQUEST"
    BY <1>0, <1>2, TailPart DEF Takes
  <2>2. m = in[1] /\ 1 \in Carrying(in, "REQUEST")
    BY <1>0, <1>2 DEF Takes, Carrying
  <2>3. <<m.letter, m.client>> \in Pending(p, in, out)
    BY <2>2 DEF Pending
  <2>5. m.client \in Clients /\ m.body \in Bodies /\ m.letter \in Nat
    BY <2>1 DEF P!Messages
  <2> HIDE DEF m
  <2>6. /\ p2 \in Process /\ p2.phase = "busy" /\ p2.liveness > 0
        /\ p2.letter = m.letter /\ p2.client = m.client /\ p2.body = m.body
    <3> DEFINE q == Signed(p)
    <3>0. HeartbeatLiveness > 0
      BY MajordomoAssumption
    <3>1. q \in Process /\ q.liveness > 0
      BY <1>0, <3>0, PeriodPositive DEF Process, Signed
    <3>2. p2 = [q EXCEPT !.phase = "busy", !.pollIn = 0, !.letter = m.letter,
                         !.client = m.client, !.body = m.body]
      BY <1>2 DEF Takes, m
    <3> HIDE DEF q
    <3>3. 0 \in 0 .. Period
      BY PeriodPositive
    <3> QED
      BY <2>5, <3>1, <3>2, <3>3 DEF Process
  <2>7. Pending(p2, in2, out2) \subseteq Pending(p, in2, out) \cup {<<m.letter, m.client>>}
    BY <1>2, <2>6 DEF Pending, Takes
  <2>8. Pending(p, in2, out) \subseteq Pending(p, in, out)
    BY <1>0, <2>1, PendingPart
  <2>9. /\ Pending(p2, in2, out2) \subseteq Pending(p, in, out)
        /\ \A x \in Pending(p2, in2, out2) : x[1] \in 1 .. b.lastId
    BY <2>3, <2>7, <2>8 DEF Typed
  <2>10. \A i \in DOMAIN in2 : in2[i].cmd \in {"REQUEST", "DISCONNECT"}
    BY <2>1 DEF Typed, Part
  <2> QED
    BY <1>0, <1>2, <2>1, <2>5, <2>6, <2>9, <2>10 DEF Typed, Takes
<1>3. CASE Answers(p, in, out, p2, in2, out2)
  <2> DEFINE m == [cmd |-> "REPORT", letter |-> p.letter, client |-> p.client, body |-> p.body]
  <2>1. p.client \in Clients /\ p.body \in Bodies /\ p.phase = "busy"
    BY <1>3 DEF Typed, Answers
  <2>2. m \in Entry /\ m.cmd = "REPORT" /\ m.client = p.client /\ m.letter = p.letter
        /\ m.body = p.body
    BY <1>0 DEF Entry, Process
  <2>3. /\ p2 \in Process /\ p2.phase = "recv" /\ p2.letter = 0 /\ p2.liveness = p.liveness
    BY <1>0, <1>3, PeriodPositive DEF Process, Answers, Polling, Freed
  <2> HIDE DEF m
  <2>4. out2 = out \/ out2 = Append(out, m)
    BY <1>3 DEF Answers, m
  <2>5. Pending(p2, in, out) \cup {<<m.letter, m.client>>} = Pending(p, in, out)
    BY <2>1, <2>2, <2>3 DEF Pending
  <2>6. Pending(p2, in, Append(out, m)) = Pending(p2, in, out) \cup {<<m.letter, m.client>>}
    <3>1. Pending(p2, in, Append(out, m)) = Pending(p2, in, out) \cup
            (IF m.cmd = "REPORT" THEN {<<m.letter, m.client>>} ELSE {})
      <4>1. m \in Entry
        BY <2>2
      <4> QED
        BY <1>0, <4>1, PendingAppend
    <3> QED
      BY <2>2, <3>1
  <2>7. Pending(p2, in2, out2) \subseteq Pending(p, in, out)
    BY <1>3, <2>4, <2>5, <2>6 DEF Answers
  <2>8. out2 \in Seq(Entry)
    BY <1>0, <2>2, <2>4
  <2>9. \A i \in DOMAIN out2 : out2[i].cmd = "REPORT" =>
          out2[i].client \in Clients /\ out2[i].body \in Bodies
    <3>1. \A i \in DOMAIN out2 : (i \in DOMAIN out /\ out2[i] = out[i]) \/ out2[i] = m
      BY <1>0, <2>4
    <3> QED
      BY <2>1, <2>2, <3>1 DEF Typed
  <2>10. p.liveness \in Nat /\ in2 = in
    BY <1>0, <1>3, MajordomoAssumption DEF Process, Answers
  <2>11. p2.liveness > 0
    BY <2>1, <2>3 DEF Typed
  <2> QED
    BY <2>3, <2>7, <2>8, <2>9, <2>10, <2>11 DEF Typed
<1>4. CASE Polls(p, in, out, p2, in2, out2)
  <2> DEFINE m == Command("HEARTBEAT")
  <2>1. m \in Entry /\ m.cmd = "HEARTBEAT"
    BY CommandPlain
  <2> HIDE DEF m
  <2>2. /\ p2 \in Process /\ p2.phase = "recv" /\ p2.letter = p.letter /\ p2.liveness > 0
    <3>1. CASE p2 = Polling(Missed(p))
      <4> DEFINE q == Missed(p)
      <4>1. /\ q \in Process /\ q.letter = p.letter /\ q.liveness > 0
        <5>1. p.liveness - 1 \in 0 .. HeartbeatLiveness /\ p.liveness - 1 > 0
          BY <1>0, <1>4, MajordomoAssumption DEF Process, Polls, Typed
        <5> QED
          BY <1>0, <5>1 DEF Process, Missed
      <4> HIDE DEF q
      <4> QED
        BY <3>1, <4>1, PeriodPositive DEF Process, Polling, q
    <3>2. CASE p2 = Polling(Signed(p))
      <4> DEFINE q == Signed(p)
      <4>1. /\ q \in Process /\ q.letter = p.letter /\ q.liveness > 0
        <5>1. HeartbeatLiveness > 0
          BY MajordomoAssumption
        <5> QED
          BY <1>0, <5>1, PeriodPositive DEF Process, Signed
      <4> HIDE DEF q
      <4> QED
        BY <3>2, <4>1, PeriodPositive DEF Process, Polling, q
    <3> QED
      BY <1>4, <3>1, <3>2 DEF Polls
  <2>3. in2 = in /\ p.phase = "recv" /\ (out2 = out \/ out2 = Append(out, m))
    BY <1>4 DEF Polls, m
  <2>4. Pending(p2, in, out) = Pending(p, in, out)
    BY <2>2, <2>3 DEF Pending
  <2>5. Pending(p2, in, Append(out, m)) = Pending(p2, in, out)
    <3>1. Pending(p2, in, Append(out, m)) = Pending(p2, in, out) \cup
            (IF m.cmd = "REPORT" THEN {<<m.letter, m.client>>} ELSE {})
      BY <1>0, <2>1, PendingAppend
    <3> QED
      BY <2>1, <3>1
  <2>6. out2 \in Seq(Entry)
    BY <1>0, <2>1, <2>3
  <2>7. \A i \in DOMAIN out2 : (i \in DOMAIN out /\ out2[i] = out[i]) \/ out2[i] = m
    BY <1>0, <2>3
  <2>8. \A i \in DOMAIN out2 : out2[i].cmd = "REPORT" =>
          out2[i].client \in Clients /\ out2[i].body \in Bodies
    BY <2>1, <2>7 DEF Typed
  <2>9. Pending(p2, in2, out2) \subseteq Pending(p, in, out)
    BY <2>3, <2>4, <2>5
  <2> QED
    BY <2>2, <2>3, <2>6, <2>8, <2>9 DEF Typed
<1> QED
  BY <1>1, <1>2, <1>3, <1>4 DEF Step

LEMMA EndTyped ==
  ASSUME NEW b, NEW p, NEW in, NEW out, Typed(b, p, in, out),
         NEW p2, NEW in2, NEW out2, Ends(p, out, p2, in2, out2)
  PROVE  Typed(b, p2, in2, out2) /\ Pending(p2, in2, out2) \subseteq Pending(p, in, out)
<1>0. /\ p \in Process /\ in \in Seq(P!Messages) /\ out \in Seq(Entry)
      /\ Part(<<>>, in) /\ <<>> \in Seq(P!Messages)
  BY PartItself DEF Typed
<1> DEFINE m == Command("DISCONNECT")
<1>1. m \in Entry /\ m.cmd = "DISCONNECT"
  BY CommandPlain
<1> HIDE DEF m
<1>2. Down \in Process /\ Down.phase = "down" /\ Down.letter = 0
  <2>1. 0 \in 0 .. HeartbeatLiveness /\ 0 \in -1 .. Period /\ 0 \in 0 .. Period
    BY PeriodPositive, MajordomoAssumption
  <2> QED
    BY <2>1 DEF Down, Process
<1>3. Append(out, m) \in Seq(Entry) /\ Pending(p, in, Append(out, m)) = Pending(p, in, out)
  <2>1. Pending(p, in, Append(out, m)) = Pending(p, in, out) \cup
            (IF m.cmd = "REPORT" THEN {<<m.letter, m.client>>} ELSE {})
    BY <1>0, <1>1, PendingAppend
  <2> QED
    BY <1>0, <1>1, <2>1
<1>4. PICK q \in {out, Append(out, m)} : out2 \in Unsent(q)
  BY DEF Ends, m
<1>5. q \in Seq(Entry) /\ Pending(p, in, q) = Pending(p, in, out)
  BY <1>0, <1>3, <1>4
<1>6. out2 \in Seq(Entry) /\ Part(out2, q)
  BY <1>4, <1>5, UnsentPart
<1>7. p2 = Down /\ in2 = <<>>
  BY DEF Ends
<1>8. Pending(p2, <<>>, out2) \subseteq Pending(p, <<>>, out2)
  BY <1>2, <1>7 DEF Pending
<1>9. Pending(p, <<>>, out2) \subseteq Pending(p, in, q)
  BY <1>0, <1>5, <1>6, PendingPart
<1>10. \A i \in DOMAIN q : (i \in DOMAIN out /\ q[i] = out[i]) \/ q[i] = m
  BY <1>0, <1>4
<1>11. \A i \in DOMAIN out2 : out2[i].cmd = "REPORT" =>
          out2[i].client \in Clients /\ out2[i].body \in Bodies
  BY <1>1, <1>6, <1>10 DEF Typed, Part
<1> QED
  BY <1>0, <1>2, <1>5, <1>6, <1>7, <1>8, <1>9, <1>11 DEF Typed

(* Time passes for everybody.                                              *)
LEMMA TickTyped ==
  ASSUME TypeInv, Tick
  PROVE  /\ TypeInv'
         /\ broker'.letter = broker.letter /\ broker'.lastId = broker.lastId
         /\ \A w \in Workers : /\ broker'.worker[w].id = broker.worker[w].id
                               /\ broker'.worker[w].letter = broker.worker[w].letter
                               /\ proc'[w] = [proc[w] EXCEPT !.heartbeatIn = Nearer(@, -1),
                                                             !.pollIn = Nearer(@, 0)]
<1> DEFINE d == broker'
<1>1. /\ d.service = broker.service /\ d.letter = broker.letter
      /\ d.lastId = broker.lastId /\ d.fault = broker.fault /\ d.out = broker.out
      /\ d.worker = [w \in Workers |->
           [broker.worker[w] EXCEPT !.expiration = Nearer(@, BrokerNow - 1)]]
  BY DEF Tick, TypeInv, P!BInv, P!BrokerType
<1>2. d = [service |-> d.service, worker |-> d.worker, letter |-> d.letter,
          lastId |-> d.lastId, out |-> d.out, fault |-> d.fault]
  <2> DEFINE g == [w \in Workers |->
           [broker.worker[w] EXCEPT !.expiration = Nearer(@, BrokerNow - 1)]]
  <2>1. d = [broker EXCEPT !.worker = g]
    BY DEF Tick
  <2> HIDE DEF g
  <2> QED
    BY <2>1 DEF TypeInv, P!BInv, P!BrokerType
<1> HIDE DEF d
<1>3. \A n \in Nat : Nearer(n, BrokerNow - 1) \in Nat
  BY PeriodPositive DEF Nearer, BrokerNow
<1>4. \A w \in Workers :
        /\ d.worker[w] \in P!WorkerRow
        /\ d.worker[w].id = broker.worker[w].id
        /\ d.worker[w].letter = broker.worker[w].letter
        /\ d.worker[w].state = broker.worker[w].state
        /\ d.worker[w].service = broker.worker[w].service
        /\ broker.worker[w].expiration = 0 => d.worker[w] = broker.worker[w]
  <2> SUFFICES ASSUME NEW w \in Workers
               PROVE  /\ d.worker[w] \in P!WorkerRow
                      /\ d.worker[w].id = broker.worker[w].id
                      /\ d.worker[w].letter = broker.worker[w].letter
                      /\ d.worker[w].state = broker.worker[w].state
                      /\ d.worker[w].service = broker.worker[w].service
                      /\ broker.worker[w].expiration = 0 => d.worker[w] = broker.worker[w]
    OBVIOUS
  <2> DEFINE r == broker.worker[w]
  <2>1. r \in P!WorkerRow
    BY DEF TypeInv, P!BInv, P!BrokerType
  <2>2. d.worker[w] = [r EXCEPT !.expiration = Nearer(r.expiration, BrokerNow - 1)]
    BY <1>1
  <2> HIDE DEF r
  <2>3. Nearer(r.expiration, BrokerNow - 1) \in Nat
    BY <1>3, <2>1 DEF P!WorkerRow
  <2>4. Nearer(0, BrokerNow - 1) = 0
    BY PeriodPositive DEF Nearer, BrokerNow
  <2> QED
    BY <2>1, <2>2, <2>3, <2>4 DEF P!WorkerRow, r
<1>5. P!BrokerType(d)
  <2>1. d.worker \in [Workers -> P!WorkerRow]
    BY <1>1, <1>4
  <2> QED
    BY <1>1, <1>2, <1>4, <2>1 DEF TypeInv, P!BInv, P!BrokerType
<1>6. P!BInv(d)
  <2>1. P!WorkersRegistered(d)
    BY <1>1, <1>4 DEF TypeInv, P!BInv, P!WorkersRegistered, P!Known, P!Registered, P!UnknownWorker
  <2>2. /\ P!DistinctIds(broker) /\ P!WaitingRefersToItself(broker)
        /\ P!AssignedHasHolder(broker) /\ P!HolderHasLetter(broker)
        /\ P!OccupiedHasLetter(broker)
    BY DEF TypeInv, P!BInv
  <2>3. d.letter = broker.letter
    BY <1>1
  <2>4. \A w \in Workers : /\ d.worker[w].id = broker.worker[w].id
                           /\ d.worker[w].letter = broker.worker[w].letter
                           /\ d.worker[w].state = broker.worker[w].state
                           /\ d.worker[w].service = broker.worker[w].service
    BY <1>4
  <2>5. P!DistinctIds(d)
    BY <2>2, <2>3, <2>4 DEF P!DistinctIds, P!Known
  <2>6. P!WaitingRefersToItself(d)
    BY <2>2, <2>3 DEF P!WaitingRefersToItself
  <2>7. P!AssignedHasHolder(d)
    BY <2>2, <2>3, <2>4 DEF P!AssignedHasHolder, P!Known
  <2>8. P!HolderHasLetter(d)
    BY <2>2, <2>3, <2>4 DEF P!HolderHasLetter, P!Known
  <2>9. P!OccupiedHasLetter(d)
    BY <2>2, <2>4 DEF P!OccupiedHasLetter
  <2> QED
    BY <1>1, <1>5, <2>1, <2>5, <2>6, <2>7, <2>8, <2>9 DEF TypeInv, P!BInv
<1>7. \A w \in Workers :
        /\ proc'[w] = [proc[w] EXCEPT !.heartbeatIn = Nearer(@, -1), !.pollIn = Nearer(@, 0)]
        /\ proc'[w] \in Process
        /\ proc'[w].phase = proc[w].phase /\ proc'[w].letter = proc[w].letter
        /\ proc'[w].client = proc[w].client /\ proc'[w].body = proc[w].body
        /\ proc'[w].liveness = proc[w].liveness
  <2> SUFFICES ASSUME NEW w \in Workers, NEW p, p = proc[w]
               PROVE  LET q == [p EXCEPT !.heartbeatIn = Nearer(@, -1), !.pollIn = Nearer(@, 0)]
                      IN  /\ q \in Process
                          /\ q.phase = p.phase /\ q.letter = p.letter
                          /\ q.client = p.client /\ q.body = p.body /\ q.liveness = p.liveness
    BY DEF Tick
  <2>1. p \in Process
    BY DEF TypeInv
  <2>2. Nearer(p.heartbeatIn, -1) \in -1 .. Period /\ Nearer(p.pollIn, 0) \in 0 .. Period
    BY <2>1, PeriodPositive DEF Process, Nearer
  <2> QED
    BY <2>1, <2>2 DEF Process
<1>8. proc' \in [Workers -> Process]
  BY <1>7 DEF Tick
<1>9. \A w \in Workers : Pending(proc'[w], toWorker[w], toBroker[w])
                           = Pending(proc[w], toWorker[w], toBroker[w])
  BY <1>7 DEF Pending
<1>10. \A w \in Workers : Typed(broker', proc'[w], toWorker[w], toBroker[w])
  <2> SUFFICES ASSUME NEW w \in Workers
               PROVE  Typed(broker', proc'[w], toWorker[w], toBroker[w])
    OBVIOUS
  <2>1. Typed(broker, proc[w], toWorker[w], toBroker[w])
    BY DEF TypeInv
  <2> QED
    BY <1>1, <1>7, <1>9, <2>1 DEF Typed, d
<1> QED
  BY <1>1, <1>4, <1>6, <1>7, <1>8, <1>10 DEF TypeInv, Tick, d

-----------------------------------------------------------------------------
(* The turns of the broker, each with its outcome.                         *)

LEMMA ClearedTables ==
  ASSUME TypeInv
  PROVE  /\ P!BInv(P!Cleared) /\ P!Cleared.out = <<>>
         /\ P!Cleared.worker = broker.worker /\ P!Cleared.letter = broker.letter
         /\ P!Cleared.lastId = broker.lastId /\ P!Cleared.fault = broker.fault
         /\ \A w : P!Known(P!Cleared, w) = P!Known(broker, w)
         /\ \A w : P!LettersOf(P!Cleared, w) = P!LettersOf(broker, w)
<1>1. P!IInv
  BY PeriodPositive DEF TypeInv, P!IInv
<1>2. P!BInv(P!Cleared)
  BY <1>1, P!ClearedInv, Assumed
<1>3. /\ P!Cleared.out = <<>>
      /\ P!Cleared.worker = broker.worker /\ P!Cleared.letter = broker.letter
      /\ P!Cleared.lastId = broker.lastId /\ P!Cleared.fault = broker.fault
  BY DEF TypeInv, P!BInv, P!BrokerType, P!Cleared
<1> QED
  BY <1>2, <1>3 DEF P!Known, P!LettersOf

LEMMA TurnHas ==
  ASSUME TypeInv, NEW outcomes, NEW N, NEW R, NEW M,
         \A d \in outcomes : P!BInv(d) /\ P!Reached(P!Cleared, d, N, R, M),
         B!Leaves(outcomes)
  PROVE  P!BInv(broker') /\ P!Outcome(P!Cleared, broker', N, R, M)
<1>1. PICK d \in outcomes : broker' \in P!EndOfTurn(d)
  BY SameTables DEF B!Leaves
<1> QED
  BY <1>1, ClearedTables, P!TurnOutcome, Assumed

Disconnecting(w) == [to |-> w, cmd |-> "DISCONNECT"]

(* The kinds of turns: who may get a row, what is released, what is sent.  *)
ReadyTurn(w, d, N, R, M) ==
  N = {w} /\ R = {} /\ M = IF P!Known(broker, w) THEN {Disconnecting(w)} ELSE {}

ReportTurn(w, d, N, R, M) ==
  /\ N = {}
  /\ IF P!Known(broker, w)
       THEN /\ R = P!LettersOf(broker, w)
            /\ \A m \in M : m.to \in Clients
       ELSE R = {} /\ M = {Disconnecting(w)} /\ d.out = <<Disconnecting(w)>>

QuietTurn(N, R, M) == N = {} /\ R = {} /\ \A m \in M : m.to \in Clients

LEMMA WorkerTurn ==
  ASSUME TypeInv, NEW w \in Workers, WorkerMsg(w)
  PROVE  /\ P!BInv(broker')
         /\ \E N, R, M :
              /\ P!Outcome(P!Cleared, broker', N, R, M)
              /\ CASE Head(toBroker[w]).cmd = "READY" -> ReadyTurn(w, broker', N, R, M)
                   [] Head(toBroker[w]).cmd = "REPORT" -> ReportTurn(w, broker', N, R, M)
                   [] OTHER -> QuietTurn(N, R, M)
<1> DEFINE m == Head(toBroker[w])
           b == P!Cleared
<1>0. /\ P!BInv(b) /\ b.fault = broker.fault /\ b.out = <<>>
      /\ P!Known(b, w) = P!Known(broker, w)
      /\ P!LettersOf(b, w) = P!LettersOf(broker, w)
  BY ClearedTables
<1>1. /\ toBroker[w] # <<>> /\ toBroker[w] \in Seq(Entry)
      /\ B!Leaves(Handled(w, m)) /\ broker.fault = "none"
  BY DEF TypeInv, WorkerMsg, Turn, B!Leaves
<1>2. m \in Entry /\ 1 \in DOMAIN toBroker[w] /\ m = toBroker[w][1]
  BY <1>1
<1>3. m.cmd = "REPORT" => m.client \in Clients /\ m.body \in Bodies
  BY <1>2 DEF TypeInv, Typed
<1>4. BrokerNow \in Nat /\ B!Cleared = b
  BY PeriodPositive, SameTables
<1> HIDE DEF m, b
<1>5. CASE m.cmd = "READY"
  <2> DEFINE M == IF P!Known(broker, w) THEN {Disconnecting(w)} ELSE {}
             outcomes == Handled(w, m)
  <2>1. ASSUME NEW d \in outcomes
        PROVE  P!BInv(d) /\ P!Reached(b, d, {w}, {}, M)
    <3>1. PICK ep \in Endpoints : d \in P!ProcessReady(b, w, ServiceOf[w], ep, BrokerNow)
      BY <1>4, <1>5, SameHandlers DEF Handled, ReadyMsg
    <3>2. ServiceOf[w] \in Services
      BY MajordomoAssumption
    <3> QED
      BY <1>0, <1>4, <3>1, <3>2, P!ReadyInv, P!ReadyReached, Assumed DEF Disconnecting
  <2> HIDE DEF M, outcomes
  <2>2. P!BInv(broker') /\ P!Outcome(b, broker', {w}, {}, M)
    BY <1>1, <2>1, TurnHas DEF b, outcomes
  <2>3. ReadyTurn(w, broker', {w}, {}, M)
    BY DEF ReadyTurn, M
  <2> QED
    BY <1>5, <2>2, <2>3 DEF m, b
<1>6. CASE m.cmd = "REPORT" /\ P!Known(broker, w)
  <2> DEFINE M == {P!ReportSent(b, w, m.client, m.body)}
             R == P!LettersOf(broker, w)
             outcomes == Handled(w, m)
  <2>1. ASSUME NEW d \in outcomes
        PROVE  P!BInv(d) /\ P!Reached(b, d, {}, R, M)
    <3>1. d \in P!ProcessReport(b, w, m.client, m.body, BrokerNow)
      BY <1>4, <1>6, SameHandlers DEF Handled
    <3> QED
      BY <1>0, <1>1, <1>3, <1>4, <1>6, <3>1, P!ReportInv, P!ReportReached, Assumed
  <2>2. \A x \in M : x.to \in Clients
    BY <1>3, <1>6 DEF P!ReportSent
  <2> HIDE DEF M, R, outcomes
  <2>3. P!BInv(broker') /\ P!Outcome(b, broker', {}, R, M)
    BY <1>1, <2>1, TurnHas DEF b, outcomes
  <2>4. ReportTurn(w, broker', {}, R, M)
    BY <1>6, <2>2 DEF ReportTurn, R
  <2> QED
    BY <1>6, <2>3, <2>4 DEF m, b
<1>7. CASE m.cmd = "REPORT" /\ ~ P!Known(broker, w)
  <2> DEFINE M == {Disconnecting(w)}
             outcomes == Handled(w, m)
  <2>1. outcomes = P!ProcessReport(b, w, m.client, m.body, BrokerNow)
    BY <1>4, <1>7, SameHandlers DEF Handled
  <2>2. ASSUME NEW d \in outcomes
        PROVE  P!BInv(d) /\ P!Reached(b, d, {}, {}, M)
    BY <1>0, <1>1, <1>3, <1>4, <1>7, <2>1, <2>2, P!ReportInv, P!ReportReached, Assumed
       DEF Disconnecting
  <2>3. outcomes = {P!Send(b, Disconnecting(w))}
    BY <1>0, <1>7, <2>1 DEF P!ProcessReport, Disconnecting
  <2> HIDE DEF M, outcomes
  <2>4. P!BInv(broker') /\ P!Outcome(b, broker', {}, {}, M)
    BY <1>1, <2>2, TurnHas DEF b, outcomes
  <2>5. broker' \in P!EndOfTurn(P!Send(b, Disconnecting(w)))
    BY <1>1, <2>3, SameTables DEF B!Leaves, outcomes
  <2>6. broker'.out = P!Send(b, Disconnecting(w)).out
    <3>1. P!BInv(P!Send(b, Disconnecting(w)))
      BY <2>2, <2>3
    <3> QED
      BY <2>5, <3>1 DEF P!EndOfTurn, P!PurgeWorkers, P!BInv, P!BrokerType
  <2>7. P!Send(b, Disconnecting(w)).out = <<Disconnecting(w)>>
    BY <1>0 DEF P!Send, P!BInv, P!BrokerType
  <2>8. ReportTurn(w, broker', {}, {}, M)
    BY <1>7, <2>6, <2>7 DEF ReportTurn, M
  <2> QED
    BY <1>7, <2>4, <2>8 DEF m, b
<1>8. CASE m.cmd \in {"HEARTBEAT", "DISCONNECT"}
  <2> DEFINE outcomes == Handled(w, m)
  <2>1. ASSUME NEW d \in outcomes
        PROVE  P!BInv(d) /\ P!Reached(b, d, {}, {}, {})
    <3>1. d \in P!ProcessHeartbeat(b, w, BrokerNow) \/ d \in P!ProcessDisconnect(b, w)
      BY <1>4, <1>8, SameHandlers DEF Handled, HeartbeatMsg
    <3> QED
      BY <1>0, <1>4, <3>1, P!HeartbeatInv, P!HeartbeatReached, P!DisconnectInv,
         P!DisconnectReached, Assumed
  <2> HIDE DEF outcomes
  <2>2. P!BInv(broker') /\ P!Outcome(b, broker', {}, {}, {})
    BY <1>1, <2>1, TurnHas DEF b, outcomes
  <2>3. QuietTurn({}, {}, {})
    BY DEF QuietTurn
  <2> QED
    BY <1>8, <2>2, <2>3 DEF m, b
<1>9. m.cmd \in {"READY", "REPORT", "HEARTBEAT", "DISCONNECT"}
  BY <1>2 DEF Entry
<1> QED
  BY <1>5, <1>6, <1>7, <1>8, <1>9 DEF m

LEMMA OtherTurn ==
  ASSUME TypeInv,
         \/ \E c \in Clients, s \in Services, body \in Bodies : ClientMsg(c, s, body)
         \/ PollTimeout
  PROVE  /\ P!BInv(broker')
         /\ \E N, R, M : P!Outcome(P!Cleared, broker', N, R, M) /\ QuietTurn(N, R, M)
<1> DEFINE b == P!Cleared
<1>0. /\ P!BInv(b) /\ BrokerNow \in Nat /\ B!Cleared = b
  BY ClearedTables, PeriodPositive, SameTables
<1> HIDE DEF b
<1>1. ASSUME NEW c \in Clients, NEW s \in Services, NEW body \in Bodies, ClientMsg(c, s, body)
      PROVE  /\ P!BInv(broker')
             /\ \E N, R, M : P!Outcome(b, broker', N, R, M) /\ QuietTurn(N, R, M)
  <2> DEFINE M == IF P!Registered(b, s) THEN {} ELSE {[to |-> c, cmd |-> "NAK"]}
             outcomes == P!ProcessClient(b, c, s, body, BrokerNow)
  <2>1. \A d \in outcomes : P!BInv(d) /\ P!Reached(b, d, {}, {}, M)
    BY <1>0, P!ClientInv, P!ClientReached, Assumed
  <2>2. QuietTurn({}, {}, M)
    BY DEF QuietTurn
  <2>3. B!Leaves(outcomes)
    BY <1>0, <1>1, SameHandlers DEF ClientMsg, Turn
  <2> HIDE DEF M, outcomes
  <2>4. P!BInv(broker') /\ P!Outcome(b, broker', {}, {}, M)
    BY <2>1, <2>3, TurnHas DEF b
  <2> QED
    BY <2>2, <2>4
<1>2. CASE PollTimeout
  <2>1. P!Reached(b, b, {}, {}, {})
    BY <1>0, P!PreparedSame, P!ReachedAtOnce, Assumed
  <2>2. B!Leaves({b})
    BY <1>0, <1>2 DEF PollTimeout, Turn
  <2>3. P!BInv(broker') /\ P!Outcome(b, broker', {}, {}, {})
    BY <1>0, <2>1, <2>2, TurnHas DEF b
  <2>4. QuietTurn({}, {}, {})
    BY DEF QuietTurn
  <2> QED
    BY <2>3, <2>4 DEF b
<1> QED
  BY <1>1, <1>2 DEF b

-----------------------------------------------------------------------------
(* Types: the turns of the broker.                                         *)

Arrives(d, v, p, in) == IF p.phase = "down" THEN in ELSE in \o Addressed(d.out, v)

(* The requests a turn sends to a worker.                                  *)
SentTo(d, v) == {i \in DOMAIN d.out : d.out[i].cmd = "REQUEST" /\ d.out[i].to = v}

(* Each message of the queue after a turn was in it, or is one the turn    *)
(* sent; and none comes twice.                                             *)
LEMMA ArrivesFrom ==
  ASSUME NEW d, P!BInv(d), NEW v \in Workers, NEW p, NEW in \in Seq(P!Messages)
  PROVE  LET q == Arrives(d, v, p, in)
         IN  /\ q \in Seq(P!Messages)
             /\ DOMAIN in \subseteq DOMAIN q /\ \A i \in DOMAIN in : q[i] = in[i]
             /\ p.phase = "down" => q = in
             /\ \E at : \A i \in DOMAIN q \ DOMAIN in :
                  /\ at[i] \in DOMAIN d.out /\ d.out[at[i]].to = v
                  /\ q[i] = d.out[at[i]]
                  /\ \A j \in DOMAIN q \ DOMAIN in : at[j] = at[i] => j = i
<1> DEFINE q == Arrives(d, v, p, in)
<1>1. CASE p.phase = "down"
  BY <1>1 DEF Arrives
<1>2. CASE p.phase # "down"
  <2> DEFINE new == Addressed(d.out, v)
             n == Len(in)
  <2>1. d.out \in Seq(P!Messages)
    BY DEF P!BInv, P!BrokerType
  <2>2. new \in Seq(P!Messages) /\ \E at : Selects(new, d.out, v, at)
    BY <2>1, AddressedFrom
  <2>3. PICK f : Selects(new, d.out, v, f)
    BY <2>2
  <2>4. q = in \o new
    BY <1>2 DEF Arrives
  <2> HIDE DEF new, q
  <2>5. /\ q \in Seq(P!Messages)
        /\ DOMAIN in = 1 .. n /\ DOMAIN in \subseteq DOMAIN q
        /\ \A i \in DOMAIN in : q[i] = in[i]
    BY <2>2, <2>4
  <2>6. \A i \in DOMAIN q \ DOMAIN in : i \in Nat /\ i - n \in DOMAIN new /\ q[i] = new[i - n]
    BY <2>2, <2>4
  <2> DEFINE at == [i \in DOMAIN q |-> f[i - n]]
  <2>7. \A i \in DOMAIN q \ DOMAIN in : at[i] = f[i - n]
    OBVIOUS
  <2>8. n \in Nat
    OBVIOUS
  <2> HIDE DEF at, n
  <2>9. \A i \in DOMAIN q \ DOMAIN in :
             /\ at[i] \in DOMAIN d.out /\ d.out[at[i]].to = v
             /\ q[i] = d.out[at[i]]
    BY <2>3, <2>6, <2>7 DEF Selects
  <2>10. \A i, j \in DOMAIN q \ DOMAIN in : at[j] = at[i] => j = i
    <3>1. \A i, j \in DOMAIN q \ DOMAIN in : at[j] = at[i] => j - n = i - n
      BY <2>3, <2>6, <2>7 DEF Selects
    <3> QED
      BY <2>6, <2>8, <3>1
  <2> QED
    BY <1>2, <2>5, <2>9, <2>10 DEF q
<1> QED
  BY <1>1, <1>2

LEMMA TurnTyped ==
  ASSUME NEW b, P!BInv(b), NEW d, P!BInv(d), NEW N, NEW R, NEW M,
         P!Outcome(b, d, N, R, M), \A m \in M : m.to \in Clients \/ m.cmd = "DISCONNECT",
         NEW v \in Workers, NEW p, NEW in, NEW out, Typed(b, p, in, out),
         NEW out2 \in Seq(Entry), Part(out2, out)
  PROVE  LET in2 == Arrives(d, v, p, in)
         IN  /\ Typed(d, p, in2, out2)
             /\ \A x \in Pending(p, in2, out2) :
                  \/ x \in Pending(p, in, out2)
                  \/ \E i \in SentTo(d, v) : x = <<d.out[i].letter, d.out[i].client>>
<1> DEFINE in2 == Arrives(d, v, p, in)
<1>0. /\ p \in Process /\ in \in Seq(P!Messages) /\ out \in Seq(Entry)
      /\ Part(in, in) /\ b.lastId \in Nat /\ d.lastId \in Nat /\ b.lastId <= d.lastId
  BY PartItself DEF Typed, P!BInv, P!BrokerType, P!Outcome
<1>1. /\ in2 \in Seq(P!Messages)
      /\ DOMAIN in \subseteq DOMAIN in2 /\ \A i \in DOMAIN in : in2[i] = in[i]
      /\ p.phase = "down" => in2 = in
  BY <1>0, ArrivesFrom
<1>2. \A i \in DOMAIN in2 \ DOMAIN in :
        \E k \in DOMAIN d.out : d.out[k].to = v /\ in2[i] = d.out[k]
  <2>1. PICK at : \A i \in DOMAIN in2 \ DOMAIN in :
                  /\ at[i] \in DOMAIN d.out /\ d.out[at[i]].to = v
                  /\ in2[i] = d.out[at[i]]
    BY <1>0, ArrivesFrom
  <2> QED
    BY <2>1
<1> HIDE DEF in2
<1>3. \A k \in DOMAIN d.out : d.out[k].to = v => d.out[k].cmd \in {"REQUEST", "DISCONNECT"}
  BY MajordomoAssumption DEF P!Outcome
<1>4. \A i \in DOMAIN in2 : in2[i].cmd \in {"REQUEST", "DISCONNECT"}
  BY <1>1, <1>2, <1>3 DEF Typed
<1>5. ASSUME NEW x \in Pending(p, in2, out2)
      PROVE  \/ x \in Pending(p, in, out2)
             \/ \E i \in SentTo(d, v) : x = <<d.out[i].letter, d.out[i].client>>
  <2>1. CASE x \in {<<in2[i].letter, in2[i].client>> : i \in Carrying(in2, "REQUEST")}
    <3>1. PICK i \in Carrying(in2, "REQUEST") : x = <<in2[i].letter, in2[i].client>>
      BY <2>1
    <3>2. CASE i \in DOMAIN in
      <4>1. i \in Carrying(in, "REQUEST") /\ x = <<in[i].letter, in[i].client>>
        BY <1>1, <3>1, <3>2 DEF Carrying
      <4> QED
        BY <4>1 DEF Pending
    <3>3. CASE i \notin DOMAIN in
      <4>1. PICK k \in DOMAIN d.out : d.out[k].to = v /\ in2[i] = d.out[k]
        BY <1>2, <3>1, <3>3 DEF Carrying
      <4>2. k \in SentTo(d, v)
        BY <3>1, <4>1 DEF SentTo, Carrying
      <4> QED
        BY <3>1, <4>1, <4>2
    <3> QED
      BY <3>2, <3>3
  <2>2. CASE x \notin {<<in2[i].letter, in2[i].client>> : i \in Carrying(in2, "REQUEST")}
    BY <2>2 DEF Pending
  <2> QED
    BY <2>1, <2>2
<1>6. Pending(p, in, out2) \subseteq Pending(p, in, out)
  BY <1>0, PendingPart
<1>7. \A i \in SentTo(d, v) : d.out[i].letter \in 1 .. d.lastId
  BY DEF SentTo, P!Outcome, P!Given, P!BInv, P!BrokerType
<1>8. \A x \in Pending(p, in2, out2) : x[1] \in 1 .. d.lastId
  BY <1>0, <1>5, <1>6, <1>7 DEF Typed
<1>9. \A i \in DOMAIN out2 : out2[i].cmd = "REPORT" =>
        out2[i].client \in Clients /\ out2[i].body \in Bodies
  BY DEF Typed, Part
<1>10. Typed(d, p, in2, out2)
  BY <1>0, <1>1, <1>4, <1>8, <1>9 DEF Typed
<1> QED
  BY <1>5, <1>10 DEF in2

(* What a turn of the broker does to worker v and its queues.              *)
TurnSeen(v, N, R, M) ==
  /\ P!BInv(broker')
  /\ P!Outcome(P!Cleared, broker', N, R, M)
  /\ \A m \in M : m.to \in Clients \/ m.cmd = "DISCONNECT"
  /\ proc'[v] = proc[v]
  /\ toWorker'[v] = Arrives(broker', v, proc[v], toWorker[v])
  /\ toBroker'[v] \in Seq(Entry) /\ Part(toBroker'[v], toBroker[v])

LEMMA TurnQueues ==
  ASSUME TypeInv, NEW outcomes, Turn(outcomes), NEW v \in Workers
  PROVE  /\ proc'[v] = proc[v]
         /\ toWorker'[v] = Arrives(broker', v, proc[v], toWorker[v])
         /\ UNCHANGED <<stops, brokerStops>>
BY DEF Turn, Delivered, Arrives

LEMMA TurnTypedAll ==
  ASSUME TypeInv, UNCHANGED <<proc, stops, brokerStops>>, toWorker' = Delivered(broker'.out),
         toBroker' \in [Workers -> Seq(Entry)],
         \A v \in Workers : \E N, R, M : TurnSeen(v, N, R, M),
         P!BInv(broker')
  PROVE  TypeInv'
<1>1. ASSUME NEW v \in Workers
      PROVE  Typed(broker', proc'[v], toWorker'[v], toBroker'[v])
  <2>1. PICK N, R, M : TurnSeen(v, N, R, M)
    OBVIOUS
  <2>2. Typed(P!Cleared, proc[v], toWorker[v], toBroker[v]) /\ P!BInv(P!Cleared)
    BY ClearedTables DEF TypeInv, Typed
  <2>3. Typed(broker', proc[v], Arrives(broker', v, proc[v], toWorker[v]), toBroker'[v])
    BY <2>1, <2>2, TurnTyped DEF TurnSeen
  <2> QED
    BY <2>1, <2>3 DEF TurnSeen
<1>2. toWorker' \in [Workers -> Seq(P!Messages)]
  BY <1>1 DEF Delivered, Typed
<1> QED
  BY <1>1, <1>2 DEF TypeInv

LEMMA WorkerMsgTyped ==
  ASSUME TypeInv, NEW w \in Workers, WorkerMsg(w)
  PROVE  TypeInv'
<1>1. PICK N, R, M :
        /\ P!BInv(broker')
        /\ P!Outcome(P!Cleared, broker', N, R, M)
        /\ \A m \in M : m.to \in Clients \/ m.cmd = "DISCONNECT"
  <2>1. PICK N, R, M : /\ P!BInv(broker')
                       /\ P!Outcome(P!Cleared, broker', N, R, M)
                       /\ \/ ReadyTurn(w, broker', N, R, M)
                          \/ ReportTurn(w, broker', N, R, M)
                          \/ QuietTurn(N, R, M)
    BY WorkerTurn
  <2>2. Disconnecting(w).cmd = "DISCONNECT"
    BY DEF Disconnecting
  <2>3. \A m \in M : m.to \in Clients \/ m.cmd = "DISCONNECT"
    BY <2>1, <2>2 DEF ReadyTurn, ReportTurn, QuietTurn
  <2> QED
    BY <2>1, <2>3
<1>2. /\ toBroker[w] \in Seq(Entry) /\ toBroker[w] # <<>>
      /\ toBroker' = [toBroker EXCEPT ![w] = Tail(toBroker[w])]
  BY DEF TypeInv, WorkerMsg
<1>3. Tail(toBroker[w]) \in Seq(Entry) /\ Part(Tail(toBroker[w]), toBroker[w])
  BY <1>2, TailPart
<1>4. ASSUME NEW v \in Workers
      PROVE  toBroker'[v] \in Seq(Entry) /\ Part(toBroker'[v], toBroker[v])
  <2>1. toBroker[v] \in Seq(Entry) /\ Part(toBroker[v], toBroker[v])
    BY PartItself DEF TypeInv
  <2> QED
    BY <1>2, <1>3, <2>1 DEF TypeInv
<1>5. toBroker' \in [Workers -> Seq(Entry)]
  BY <1>2, <1>3 DEF TypeInv
<1>6. \A v \in Workers : TurnSeen(v, N, R, M)
  BY <1>1, <1>4, TurnQueues DEF TurnSeen, WorkerMsg
<1> QED
  BY <1>1, <1>5, <1>6, TurnTypedAll DEF WorkerMsg, Turn

LEMMA OtherTurnTyped ==
  ASSUME TypeInv,
         \/ \E c \in Clients, s \in Services, body \in Bodies : ClientMsg(c, s, body)
         \/ PollTimeout
  PROVE  TypeInv'
<1>1. PICK N, R, M :
        /\ P!BInv(broker')
        /\ P!Outcome(P!Cleared, broker', N, R, M)
        /\ \A m \in M : m.to \in Clients \/ m.cmd = "DISCONNECT"
  BY OtherTurn DEF QuietTurn
<1>2. \E outcomes : Turn(outcomes)
  BY DEF ClientMsg, PollTimeout
<1>3. toBroker' = toBroker
  BY DEF ClientMsg, PollTimeout
<1>4. \A v \in Workers : toBroker'[v] \in Seq(Entry) /\ Part(toBroker'[v], toBroker[v])
  BY <1>3, PartItself DEF TypeInv
<1>5. \A v \in Workers : TurnSeen(v, N, R, M)
  BY <1>1, <1>2, <1>4, TurnQueues DEF TurnSeen
<1> QED
  BY <1>1, <1>2, <1>3, <1>5, TurnTypedAll DEF Turn, TypeInv

-----------------------------------------------------------------------------
(* Types: the first state, a restart, and all steps.                       *)

(* Empty tables have the broker's invariant, whichever id was given last.  *)
LEMMA EmptyInv ==
  ASSUME NEW n \in Nat
  PROVE  LET d == [P!EmptyDatabase EXCEPT !.lastId = n]
         IN  /\ P!BInv(d) /\ d.letter = [l \in {} |-> 0] /\ d.lastId = n
             /\ \A w \in Workers : ~ P!Known(d, w)
<1> DEFINE d == [P!EmptyDatabase EXCEPT !.lastId = n]
<1>1. /\ d.service = [s \in Services |-> NoEndpoint]
      /\ d.worker = [w \in Workers |-> P!UnknownWorker]
      /\ d.letter = [l \in {} |-> 0] /\ DOMAIN d.letter = {}
      /\ d.lastId = n /\ d.out = <<>> /\ d.fault = "none"
  BY DEF P!EmptyDatabase
<1>2. d = [service |-> d.service, worker |-> d.worker, letter |-> d.letter,
          lastId |-> d.lastId, out |-> d.out, fault |-> d.fault]
  BY DEF P!EmptyDatabase
<1> HIDE DEF d
<1>3. P!UnknownWorker \in P!WorkerRow
  BY DEF P!UnknownWorker, P!WorkerRow, P!WorkerStates
<1>4. /\ P!UnknownWorker.id = 0 /\ P!UnknownWorker.letter = 0
      /\ P!UnknownWorker.state = "INIT"
  BY DEF P!UnknownWorker
<1>5. d.letter \in [DOMAIN d.letter -> P!LetterRow]
  BY <1>1
<1>6. P!BrokerType(d)
  BY <1>1, <1>2, <1>3, <1>4, <1>5 DEF P!BrokerType, P!Faults
<1>7. P!WorkersRegistered(d) /\ P!DistinctIds(d)
  BY <1>1, <1>4 DEF P!WorkersRegistered, P!DistinctIds, P!Known
<1>8. /\ P!WaitingRefersToItself(d) /\ P!AssignedHasHolder(d)
      /\ P!HolderHasLetter(d) /\ P!OccupiedHasLetter(d)
  BY <1>1, <1>4 DEF P!WaitingRefersToItself, P!AssignedHasHolder, P!HolderHasLetter,
     P!OccupiedHasLetter
<1> QED
  BY <1>1, <1>4, <1>6, <1>7, <1>8 DEF P!BInv, P!Known, d

LEMMA DownTyped ==
  ASSUME NEW b
  PROVE  Typed(b, Down, <<>>, <<>>) /\ Pending(Down, <<>>, <<>>) = {}
<1>1. Down \in Process /\ Down.phase = "down" /\ Down.letter = 0
  <2>1. 0 \in 0 .. HeartbeatLiveness /\ 0 \in -1 .. Period /\ 0 \in 0 .. Period
    BY PeriodPositive, MajordomoAssumption
  <2> QED
    BY <2>1 DEF Down, Process
<1>2. Pending(Down, <<>>, <<>>) = {}
  BY <1>1 DEF Pending, Carrying
<1> QED
  BY <1>1, <1>2 DEF Typed

LEMMA InitTyped ==
  ASSUME Init
  PROVE  TypeInv
<1>1. broker = [P!EmptyDatabase EXCEPT !.lastId = 0]
  BY SameTables DEF Init, P!EmptyDatabase
<1>2. P!BInv(broker)
  BY <1>1, EmptyInv, 0 \in Nat
<1>3. 0 \in 0 .. MaxStops /\ 0 \in 0 .. MaxBrokerStops
  BY MajordomoAssumption
<1>4. /\ Down \in Process /\ <<>> \in Seq(P!Messages) /\ <<>> \in Seq(Entry)
      /\ Typed(broker, Down, <<>>, <<>>)
  BY DownTyped DEF Typed
<1> QED
  BY <1>2, <1>3, <1>4 DEF Init, TypeInv

LEMMA RestartTyped ==
  ASSUME TypeInv, BrokerRestart
  PROVE  /\ TypeInv'
         /\ broker'.letter = [l \in {} |-> 0] /\ broker'.lastId = broker.lastId
         /\ \A w \in Workers :
              /\ ~ P!Known(broker', w)
              /\ toBroker'[w] \in Seq(Entry) /\ Part(toBroker'[w], toBroker[w])
<1>1. broker' = [P!EmptyDatabase EXCEPT !.lastId = broker.lastId]
  BY SameTables DEF BrokerRestart
<1>2. broker.lastId \in Nat
  BY DEF TypeInv, P!BInv, P!BrokerType
<1>3. /\ P!BInv(broker') /\ broker'.letter = [l \in {} |-> 0]
      /\ broker'.lastId = broker.lastId /\ \A w \in Workers : ~ P!Known(broker', w)
  BY <1>1, <1>2, EmptyInv
<1>4. ASSUME NEW w \in Workers
      PROVE  toBroker'[w] \in Seq(Entry) /\ Part(toBroker'[w], toBroker[w])
  <2>1. toBroker'[w] \in Suffixes(toBroker[w]) /\ toBroker[w] \in Seq(Entry)
    BY DEF BrokerRestart, TypeInv
  <2> QED
    BY <2>1, SuffixPart
<1>5. toBroker' \in [Workers -> Seq(Entry)]
  <2>1. DOMAIN toBroker' = Workers /\ toBroker' = [w \in Workers |-> toBroker'[w]]
    BY DEF BrokerRestart
  <2> QED
    BY <1>4, <2>1
<1>6. ASSUME NEW w \in Workers
      PROVE  Typed(broker', proc'[w], toWorker'[w], toBroker'[w])
  <2>1. Typed(broker, proc[w], toWorker[w], toBroker[w])
    BY DEF TypeInv
  <2>2. Part(toWorker[w], toWorker[w])
    BY <2>1, PartItself DEF Typed
  <2>3. Pending(proc[w], toWorker[w], toBroker'[w]) \subseteq
          Pending(proc[w], toWorker[w], toBroker[w])
    BY <1>4, <2>1, <2>2, PendingPart DEF Typed
  <2>4. \A i \in DOMAIN toBroker'[w] : toBroker'[w][i].cmd = "REPORT" =>
          toBroker'[w][i].client \in Clients /\ toBroker'[w][i].body \in Bodies
    BY <1>4, <2>1 DEF Typed, Part
  <2>5. UNCHANGED <<proc, toWorker>>
    BY DEF BrokerRestart
  <2> QED
    BY <1>3, <1>4, <2>1, <2>3, <2>4, <2>5 DEF Typed
<1>7. brokerStops' \in 0 .. MaxBrokerStops /\ stops' = stops
  BY MajordomoAssumption DEF BrokerRestart, TypeInv
<1> QED
  BY <1>3, <1>4, <1>5, <1>6, <1>7 DEF TypeInv, BrokerRestart

LEMMA NextTyped == TypeInv /\ [Next]_vars => TypeInv'
<1> SUFFICES ASSUME TypeInv, [Next]_vars
             PROVE  TypeInv'
  OBVIOUS
<1>1. ASSUME NEW w \in Workers, Start(w) \/ Worker(w)
      PROVE  TypeInv'
  <2>1. PICK p, in, out : /\ Moves(w, p, in, out)
                          /\ Step(proc[w], toWorker[w], toBroker[w], p, in, out)
    BY <1>1, StepOf
  <2>2. Typed(broker, p, in, out)
    BY <2>1, StepTyped DEF TypeInv
  <2>3. stops' \in 0 .. MaxStops /\ UNCHANGED brokerStops
    BY <1>1, StepOf DEF TypeInv
  <2> QED
    BY <2>1, <2>2, <2>3, MovesTyped
<1>2. ASSUME NEW w \in Workers, Stop(w) \/ Crash(w)
      PROVE  TypeInv'
  <2>1. PICK p, in, out : /\ Moves(w, p, in, out)
                          /\ Ends(proc[w], toBroker[w], p, in, out)
    BY <1>2, EndOf
  <2>2. Typed(broker, p, in, out)
    BY <2>1, EndTyped DEF TypeInv
  <2>3. stops' \in 0 .. MaxStops /\ UNCHANGED brokerStops
    BY <1>2, EndOf, MajordomoAssumption DEF TypeInv
  <2> QED
    BY <2>1, <2>2, <2>3, MovesTyped
<1>3. CASE UNCHANGED vars
  BY <1>3 DEF vars, TypeInv
<1> QED
  BY <1>1, <1>2, <1>3, WorkerMsgTyped, OtherTurnTyped, RestartTyped, TickTyped DEF Next

LEMMA TypeInvariance == Spec => []TypeInv
BY InitTyped, NextTyped, PTL DEF Spec

(* The queues carry the commands of their direction only, and a process    *)
(* has a request in hand exactly when it is busy, whatever is stopped or   *)
(* killed.                                                                 *)
THEOREM TypeCorrect == Spec => []TypeOK
<1>1. ASSUME TypeInv
      PROVE  TypeOK
  <2>1. \A w \in Workers : Typed(broker, proc[w], toWorker[w], toBroker[w])
    BY <1>1 DEF TypeInv
  <2>2. ASSUME NEW w \in Workers
        PROVE  (proc[w].phase = "busy") <=> (proc[w].letter # 0)
    <3>1. CASE proc[w].phase = "busy"
      <4>1. <<proc[w].letter, proc[w].client>> \in Pending(proc[w], toWorker[w], toBroker[w])
        BY <3>1 DEF Pending
      <4> QED
        BY <2>1, <3>1, <4>1 DEF Typed
    <3>2. CASE proc[w].phase # "busy"
      BY <2>1, <3>2 DEF Typed
    <3> QED
      BY <3>1, <3>2
  <2>3. \A w \in Workers : \A i \in DOMAIN toWorker[w] :
          toWorker[w][i] \in P!Messages /\ toWorker[w][i].cmd \in {"REQUEST", "DISCONNECT"}
    BY <2>1 DEF Typed
  <2>4. B!BrokerType(broker) /\ B!Messages = P!Messages
    BY <1>1, SameTables DEF TypeInv, P!BInv
  <2> QED
    BY <1>1, <2>2, <2>3, <2>4 DEF TypeInv, TypeOK
<1> QED
  BY <1>1, TypeInvariance, PTL

-----------------------------------------------------------------------------
(* The broker is a queue to its peers, under its workers and over restarts.*)

(* The queue of this module's broker is the one BrokerProofs is about.     *)
LEMMA SameView ==
  /\ \A b : B!LettersIn(b) = P!LettersIn(b) /\ B!ServesIn(b) = P!ServesIn(b)
  /\ B!LettersIn(broker)' = P!LettersIn(broker)' /\ B!ServesIn(broker)' = P!ServesIn(broker)'
<1>1. \A b : B!LettersIn(b) = P!LettersIn(b) /\ B!ServesIn(b) = P!ServesIn(b)
  BY DEF B!LettersIn, P!LettersIn, B!ServesIn, P!ServesIn
<1>2. B!LettersIn(broker)' = P!LettersIn(broker)' /\ B!ServesIn(broker)' = P!ServesIn(broker)'
  BY <1>1
<1> QED
  BY <1>1, <1>2

LEMMA SameQueue ==
  /\ P!Queue!Next => B!Queue!Next
  /\ UNCHANGED P!Queue!vars => UNCHANGED B!Queue!vars
<1>1. B!Queue!Orders = P!Queue!Orders /\ B!Queue!Answers = P!Queue!Answers
  BY DEF B!Queue!Orders, P!Queue!Orders, B!Queue!Answers, P!Queue!Answers
<1>2. ASSUME NEW q, NEW l, NEW w
      PROVE  B!Queue!GivenTo(q, l, w) = P!Queue!GivenTo(q, l, w)
  BY <1>1, SameView DEF B!Queue!GivenTo, P!Queue!GivenTo, B!Queue!Idle, P!Queue!Idle
<1>3. \A q : B!Queue!Give(q) = P!Queue!Give(q)
  BY <1>1, <1>2, SameView DEF B!Queue!Give, P!Queue!Give
<1>4. /\ B!Queue!Silent = P!Queue!Silent
      /\ \A m : B!Queue!Says(m) = P!Queue!Says(m)
      /\ \A c, s, body : B!Queue!Letter(c, s, body) = P!Queue!Letter(c, s, body)
  BY <1>1 DEF B!Queue!Silent, P!Queue!Silent, B!Queue!Says, P!Queue!Says,
     B!Queue!Letter, P!Queue!Letter
<1>5. ASSUME NEW w, NEW s
      PROVE  P!Queue!Register(w, s) => B!Queue!Register(w, s)
  BY <1>3, <1>4, SameView DEF B!Queue!Register, P!Queue!Register
<1>6. ASSUME NEW c, NEW s, NEW body
      PROVE  P!Queue!Accept(c, s, body) => B!Queue!Accept(c, s, body)
  BY <1>3, <1>4, SameView DEF B!Queue!Accept, P!Queue!Accept
<1>7. ASSUME NEW c
      PROVE  P!Queue!Refuse(c) => B!Queue!Refuse(c)
  BY <1>3, <1>4, SameView DEF B!Queue!Refuse, P!Queue!Refuse
<1>8. ASSUME NEW w, NEW c, NEW body
      PROVE  P!Queue!Finish(w, c, body) => B!Queue!Finish(w, c, body)
  BY <1>3, <1>4, SameView DEF B!Queue!Finish, P!Queue!Finish
<1>9. P!Queue!Deal => B!Queue!Deal
  BY <1>3, <1>4, SameView DEF B!Queue!Deal, P!Queue!Deal
<1>10. P!Queue!Next => B!Queue!Next
  BY <1>5, <1>6, <1>7, <1>8, <1>9 DEF B!Queue!Next, P!Queue!Next
<1>11. UNCHANGED P!Queue!vars => UNCHANGED B!Queue!vars
  BY SameView DEF B!Queue!vars, P!Queue!vars
<1> QED
  BY <1>10, <1>11

(* A turn under the workers is a turn BrokerProofs knows, of a peer that   *)
(* sends what the worker sent.                                             *)
LEMMA TurnOfBroker ==
  ASSUME TypeInv,
         \/ \E w \in Workers : WorkerMsg(w)
         \/ \E c \in Clients, s \in Services, body \in Bodies : ClientMsg(c, s, body)
         \/ PollTimeout
  PROVE  P!Next
<1>1. ASSUME NEW outcomes, B!Leaves(outcomes)
      PROVE  P!Turn(outcomes)
  BY <1>1, SameTables DEF B!Leaves, P!Leaves, P!Turn
<1>2. B!Cleared = P!Cleared
  BY SameTables
<1>3. ASSUME NEW w \in Workers, WorkerMsg(w)
      PROVE  P!Next
  <2> DEFINE m == Head(toBroker[w])
  <2>1. toBroker[w] # <<>> /\ toBroker[w] \in Seq(Entry) /\ B!Leaves(Handled(w, m))
    BY <1>3 DEF TypeInv, WorkerMsg, Turn
  <2>2. m \in Entry /\ 1 \in DOMAIN toBroker[w] /\ m = toBroker[w][1]
    BY <2>1
  <2>3. m.cmd = "REPORT" => m.client \in Clients /\ m.body \in Bodies
    BY <2>2 DEF TypeInv, Typed
  <2>4. m.cmd \in {"READY", "REPORT", "HEARTBEAT", "DISCONNECT"}
    BY <2>2 DEF Entry
  <2> HIDE DEF m
  <2>5. CASE m.cmd = "READY"
    <3>1. Handled(w, m) =
            UNION {P!ProcessReady(P!Cleared, w, ServiceOf[w], ep, BrokerNow) : ep \in Endpoints}
      BY <1>2, <2>5, SameHandlers DEF Handled, ReadyMsg
    <3>2. PICK ep \in Endpoints :
            B!Leaves(P!ProcessReady(P!Cleared, w, ServiceOf[w], ep, BrokerNow))
      BY <2>1, <3>1 DEF B!Leaves
    <3>3. P!Ready(w, ServiceOf[w], ep) /\ ServiceOf[w] \in Services
      BY <1>1, <3>2, MajordomoAssumption DEF P!Ready
    <3> QED
      BY <3>3 DEF P!Next
  <2>6. CASE m.cmd = "REPORT"
    <3>1. Handled(w, m) = P!ProcessReport(P!Cleared, w, m.client, m.body, BrokerNow)
      BY <1>2, <2>6, SameHandlers DEF Handled
    <3>2. P!Report(w, m.client, m.body)
      BY <1>1, <2>1, <3>1 DEF P!Report
    <3> QED
      BY <2>3, <2>6, <3>2 DEF P!Next
  <2>7. CASE m.cmd = "HEARTBEAT"
    <3>1. Handled(w, m) = P!ProcessHeartbeat(P!Cleared, w, BrokerNow)
      BY <1>2, <2>7, SameHandlers DEF Handled, HeartbeatMsg
    <3>2. P!Heartbeat(w)
      BY <1>1, <2>1, <3>1 DEF P!Heartbeat
    <3> QED
      BY <3>2 DEF P!Next
  <2>8. CASE m.cmd = "DISCONNECT"
    <3>1. Handled(w, m) = P!ProcessDisconnect(P!Cleared, w)
      BY <1>2, <2>8, SameHandlers DEF Handled
    <3>2. P!Disconnect(w)
      BY <1>1, <2>1, <3>1 DEF P!Disconnect
    <3> QED
      BY <3>2 DEF P!Next
  <2> QED
    BY <2>4, <2>5, <2>6, <2>7, <2>8
<1>4. ASSUME NEW c \in Clients, NEW s \in Services, NEW body \in Bodies, ClientMsg(c, s, body)
      PROVE  P!Next
  <2>1. B!Leaves(P!ProcessClient(P!Cleared, c, s, body, BrokerNow)) /\ broker.lastId < MaxAutoid
    BY <1>2, <1>4, SameHandlers DEF ClientMsg, Turn
  <2>2. P!Request(c, s, body)
    BY <1>1, <2>1 DEF P!Request
  <2> QED
    BY <2>2 DEF P!Next
<1>5. CASE PollTimeout
  <2>1. P!Timeout
    BY <1>1, <1>2, <1>5 DEF PollTimeout, Turn, P!Timeout
  <2> QED
    BY <2>1 DEF P!Next
<1> QED
  BY <1>3, <1>4, <1>5

(* What a worker does by itself, and time, leave the queue as it is.       *)
LEMMA QueueRests ==
  ASSUME TypeInv,
         \/ \E w \in Workers : Start(w) \/ Stop(w) \/ Crash(w) \/ Worker(w)
         \/ Tick
         \/ UNCHANGED vars
  PROVE  UNCHANGED P!Queue!vars
<1>1. CASE broker' = broker
  BY <1>1 DEF P!Queue!vars
<1>2. ASSUME NEW w \in Workers, Start(w) \/ Stop(w) \/ Crash(w) \/ Worker(w)
      PROVE  broker' = broker
  BY <1>2 DEF Start, Stop, Crash, Worker, ReceiveRequest, ReceiveDisconnect, HandleRequest,
     ReconnectOrPoll, SendHeartbeat
<1>3. CASE Tick
  <2> DEFINE rows == [w \in Workers |->
               [broker.worker[w] EXCEPT !.expiration = Nearer(@, BrokerNow - 1)]]
  <2>1. broker' = [broker EXCEPT !.worker = rows]
    BY <1>3 DEF Tick
  <2>2. ASSUME NEW w \in Workers
        PROVE  rows[w].letter = broker.worker[w].letter
                 /\ rows[w].service = broker.worker[w].service
    <3>1. broker.worker[w] \in P!WorkerRow
      BY DEF TypeInv, P!BInv, P!BrokerType
    <3> QED
      BY <3>1 DEF P!WorkerRow
  <2> HIDE DEF rows
  <2>3. /\ broker'.letter = broker.letter /\ broker'.worker = rows
        /\ broker'.lastId = broker.lastId /\ broker'.out = broker.out
    BY <2>1 DEF TypeInv, P!BInv, P!BrokerType
  <2>4. /\ P!LettersIn(broker') = P!LettersIn(broker)
        /\ P!ServesIn(broker') = P!ServesIn(broker)
    BY <2>2, <2>3, P!SameQueue, Assumed
  <2> QED
    BY <2>3, <2>4 DEF P!Queue!vars
<1> QED
  BY <1>1, <1>2, <1>3 DEF vars

(* A restart forgets what there was.                                       *)
LEMMA RestartForgets ==
  ASSUME TypeInv, BrokerRestart
  PROVE  B!Queue!Forget /\ brokerStops' = brokerStops + 1
<1>1. broker' = [P!EmptyDatabase EXCEPT !.lastId = broker.lastId]
  BY SameTables DEF BrokerRestart
<1>2. /\ DOMAIN broker'.letter = {} /\ broker'.lastId = broker.lastId /\ broker'.out = <<>>
      /\ \A w \in Workers : broker'.worker[w].service = NoService
  BY <1>1 DEF P!EmptyDatabase, P!UnknownWorker
<1>3. P!LettersIn(broker') = [l \in {} |-> 0]
  BY <1>2 DEF P!LettersIn
<1>4. P!ServesIn(broker') = [w \in Workers |-> NoService]
  BY <1>2 DEF P!ServesIn
<1> QED
  BY <1>2, <1>3, <1>4, SameView DEF B!Queue!Forget, BrokerRestart

LEMMA QueueStep ==
  ASSUME TypeInv, [Next]_vars
  PROVE  \/ B!Queue!Next
         \/ B!Queue!Forget /\ brokerStops' = brokerStops + 1
         \/ UNCHANGED B!Queue!vars
<1>1. P!IInv
  BY PeriodPositive DEF TypeInv, P!IInv
<1>2. P!Next => B!Queue!Next \/ UNCHANGED B!Queue!vars
  BY <1>1, P!QueueStep, SameQueue, Assumed
<1> QED
  BY <1>2, TurnOfBroker, QueueRests, RestartForgets, SameQueue DEF Next

(* The broker with its workers implements LetterQueue, however they stop,  *)
(* reconnect and repeat themselves: each letter is given once, to an idle  *)
(* worker of its service, and leaves by a report or by a restart.          *)
THEOREM ImplementsOverRestarts == Spec => PromisesOverRestarts
<1>1. TypeInv /\ [Next]_vars =>
        [\/ B!Queue!Next
         \/ B!Queue!Forget /\ brokerStops' = brokerStops + 1]_(B!Queue!vars)
  BY QueueStep
<1>2. Init => B!Queue!Init
  <2> SUFFICES ASSUME Init
               PROVE  B!Queue!Init
    OBVIOUS
  <2>1. /\ DOMAIN broker.letter = {} /\ broker.lastId = 0 /\ broker.out = <<>>
        /\ \A w \in Workers : broker.worker[w].service = NoService
    BY SameTables DEF Init, P!EmptyDatabase, P!UnknownWorker
  <2> QED
    BY <2>1 DEF B!Queue!Init, B!LettersIn, B!ServesIn
<1> QED
  BY <1>1, <1>2, TypeInvariance, PTL DEF Spec, PromisesOverRestarts

-----------------------------------------------------------------------------
(* The invariant of the work: one request at a time.                       *)

Lacks(queue, cmds) == \A i \in DOMAIN queue : queue[i].cmd \notin cmds

AtMostOne(queue, cmds) ==
  \A i, j \in DOMAIN queue : queue[i].cmd \in cmds /\ queue[j].cmd \in cmds => i = j

(* One command of cmds at most is under way, and none while the process    *)
(* has a request in hand.                                                  *)
Alone(p, in, out, cmds) ==
  /\ AtMostOne(in, cmds) /\ AtMostOne(out, cmds)
  /\ Lacks(in, cmds) \/ Lacks(out, cmds)
  /\ p.phase = "busy" => Lacks(in, cmds) /\ Lacks(out, cmds)

Work == {"REQUEST", "REPORT"}
Contact == {"READY", "DISCONNECT"}

(* Liveness of a process never falls by more than one: the heartbeat that  *)
(* is due by the time poll() has run out twice makes it full again.        *)
Lively(p) ==
  /\ p.phase = "recv" =>
       \/ p.liveness = HeartbeatLiveness /\ p.heartbeatIn <= p.pollIn
       \/ /\ p.liveness = HeartbeatLiveness - 1
          /\ p.heartbeatIn = -1 \/ (p.heartbeatIn = 0 /\ p.pollIn = Period)
  /\ p.phase = "busy" => p.liveness = HeartbeatLiveness

(* What the broker knows of the letters pending with worker w, after st    *)
(* stops of workers and bst of the broker.  With workers that are not      *)
(* stopped, a contact that is being made is the only command under way.    *)
WorkInv(b, w, p, in, out, st, bst) ==
  /\ Alone(p, in, out, Work)
  /\ IF P!Known(b, w)
       THEN \A x \in Pending(p, in, out) : /\ x[1] \in DOMAIN b.letter
                                           /\ b.worker[w].letter = x[1]
                                           /\ b.letter[x[1]].client = x[2]
       ELSE \A x \in Pending(p, in, out) : x[1] \notin DOMAIN b.letter /\ bst # 0
  /\ st = 0 =>
       IF P!Known(b, w) THEN Lacks(in, Contact) /\ Lacks(out, Contact)
       ELSE Alone(p, in, out, Work \cup Contact)
  /\ p.phase = "down" /\ st = 0 => out = <<>> /\ ~ P!Known(b, w)

IInv ==
  /\ stops = 0 \/ brokerStops = 0
  /\ \A w \in Workers :
       /\ Lively(proc[w])
       /\ WorkInv(broker, w, proc[w], toWorker[w], toBroker[w], stops, brokerStops)

LEMMA AlonePart ==
  ASSUME NEW S, NEW T, NEW p, NEW in \in Seq(S), NEW out \in Seq(T), NEW cmds,
         NEW p2, NEW in2 \in Seq(S), NEW out2 \in Seq(T), Part(in2, in), Part(out2, out),
         p2.phase = "busy" => p.phase = "busy", Alone(p, in, out, cmds)
  PROVE  Alone(p2, in2, out2, cmds)
<1>1. ASSUME NEW U, NEW q \in Seq(U), NEW s \in Seq(U), Part(q, s)
      PROVE  /\ Lacks(s, cmds) => Lacks(q, cmds)
             /\ AtMostOne(s, cmds) => AtMostOne(q, cmds)
  <2>1. PICK o \in Nat : \A i \in DOMAIN q : i + o \in DOMAIN s /\ q[i] = s[i + o]
    BY <1>1 DEF Part
  <2>2. \A i, j \in DOMAIN q : i + o = j + o => i = j
    OBVIOUS
  <2> QED
    BY <2>1, <2>2 DEF Lacks, AtMostOne
<1> QED
  BY <1>1 DEF Alone

(* A queue with one command more.                                          *)
LEMMA AppendLacks ==
  ASSUME NEW S, NEW q \in Seq(S), NEW m \in S, NEW cmds
  PROVE  /\ Lacks(q, cmds) /\ m.cmd \notin cmds => Lacks(Append(q, m), cmds)
         /\ AtMostOne(q, cmds) /\ m.cmd \notin cmds => AtMostOne(Append(q, m), cmds)
         /\ Lacks(q, cmds) => AtMostOne(Append(q, m), cmds)
<1> DEFINE t == Append(q, m)
<1>1. \A i \in DOMAIN t : (i \in DOMAIN q /\ t[i] = q[i]) \/ (i = Len(q) + 1 /\ t[i] = m)
  OBVIOUS
<1> HIDE DEF t
<1> QED
  BY <1>1 DEF Lacks, AtMostOne, t

LEMMA TailLacks ==
  ASSUME NEW S, NEW q \in Seq(S), q # <<>>, NEW cmds
  PROVE  /\ AtMostOne(q, cmds) /\ Head(q).cmd \in cmds => Lacks(Tail(q), cmds)
         /\ Lacks(q, cmds) => Lacks(Tail(q), cmds) /\ Head(q).cmd \notin cmds
<1>1. \A i \in DOMAIN Tail(q) : i + 1 \in DOMAIN q /\ Tail(q)[i] = q[i + 1] /\ i + 1 # 1
  OBVIOUS
<1>2. 1 \in DOMAIN q /\ Head(q) = q[1]
  OBVIOUS
<1> QED
  BY <1>1, <1>2 DEF Lacks, AtMostOne

(* Nothing pending: nothing of the work is under way.                      *)
LEMMA PendingNothing ==
  ASSUME NEW b, NEW p, NEW in, NEW out, NEW out2 \in Seq(Entry), Typed(b, p, in, out)
  PROVE  /\ Pending(p, in, out2) = {} =>
              Lacks(in, Work) /\ Lacks(out2, Work) /\ p.phase # "busy"
         /\ Lacks(in, Work) /\ Lacks(out2, Work) /\ p.phase # "busy" =>
              Pending(p, in, out2) = {}
<1>0. \A i \in DOMAIN out2 : out2[i] \in Entry
  OBVIOUS
<1>1. \A i \in DOMAIN out2 : out2[i].cmd # "REQUEST"
  BY <1>0 DEF Entry
<1>2. \A i \in DOMAIN in : in[i].cmd # "REPORT"
  BY DEF Typed
<1>3. Lacks(in, Work) <=> Carrying(in, "REQUEST") = {}
  BY <1>2 DEF Lacks, Work, Carrying
<1>4. Lacks(out2, Work) <=> Carrying(out2, "REPORT") = {}
  BY <1>1 DEF Lacks, Work, Carrying
<1> QED
  BY <1>3, <1>4 DEF Pending

-----------------------------------------------------------------------------
(* Work: the steps of a worker.                                            *)

LEMMA PartLacks ==
  ASSUME NEW q, NEW s, Part(q, s), NEW cmds, Lacks(s, cmds)
  PROVE  Lacks(q, cmds)
BY DEF Part, Lacks

LEMMA StepLively ==
  ASSUME HeartbeatLiveness > 2, NEW b, NEW p, NEW in, NEW out, Typed(b, p, in, out), Lively(p),
         NEW p2, NEW in2, NEW out2, Step(p, in, out, p2, in2, out2)
  PROVE  Lively(p2) /\ p2.phase # "down"
<1>0. p \in Process /\ Period \in Nat \ {0}
  BY PeriodPositive DEF Typed
<1>1. CASE Connects(p, in, out, p2, in2, out2)
  <2>1. Fresh(p2)
    BY <1>0, <1>1, Connecting DEF Connects
  <2> QED
    BY <1>0, <2>1 DEF Fresh, Lively
<1>2. CASE Takes(p, in, out, p2, in2, out2)
  <2>1. p2.phase = "busy" /\ p2.liveness = HeartbeatLiveness
    BY <1>0, <1>2 DEF Takes, Signed, Process
  <2> QED
    BY <2>1 DEF Lively
<1>3. CASE Answers(p, in, out, p2, in2, out2)
  <2>1. /\ p2.phase = "recv" /\ p2.liveness = p.liveness
        /\ p2.heartbeatIn = p.heartbeatIn /\ p2.pollIn = Period
    BY <1>0, <1>3 DEF Answers, Polling, Freed, Process
  <2>2. p.heartbeatIn <= Period /\ p.liveness = HeartbeatLiveness
    BY <1>0, <1>3 DEF Process, Lively, Answers
  <2> QED
    BY <2>1, <2>2 DEF Lively
<1>4. CASE Polls(p, in, out, p2, in2, out2)
  <2>1. p.phase = "recv" /\ p.pollIn = 0
    BY <1>4 DEF Polls
  <2>2. CASE p.heartbeatIn >= 0 /\ p2 = Polling(Missed(p))
    <3>1. /\ p2.phase = "recv" /\ p2.liveness = p.liveness - 1
          /\ p2.heartbeatIn = p.heartbeatIn /\ p2.pollIn = Period
      BY <1>0, <2>2 DEF Polling, Missed, Process
    <3>2. p.liveness = HeartbeatLiveness /\ p.heartbeatIn = 0
      BY <1>0, <2>1, <2>2 DEF Lively, Process
    <3> QED
      BY <3>1, <3>2 DEF Lively
  <2>3. CASE p2 = Polling(Signed(p))
    <3>1. /\ p2.phase = "recv" /\ p2.liveness = HeartbeatLiveness
          /\ p2.heartbeatIn = Period /\ p2.pollIn = Period
      BY <1>0, <2>3 DEF Polling, Signed, Process
    <3> QED
      BY <1>0, <3>1 DEF Lively
  <2> QED
    BY <1>4, <2>2, <2>3 DEF Polls
<1> QED
  BY <1>1, <1>2, <1>3, <1>4 DEF Step

(* A worker that does not reconnect makes nothing of the work more.        *)
LEMMA StepAlone ==
  ASSUME NEW b, NEW p, NEW in, NEW out, Typed(b, p, in, out),
         NEW p2, NEW in2, NEW out2, Step(p, in, out, p2, in2, out2),
         ~ Connects(p, in, out, p2, in2, out2),
         NEW cmds, "REQUEST" \in cmds, "REPORT" \in cmds, "HEARTBEAT" \notin cmds,
         Alone(p, in, out, cmds)
  PROVE  Alone(p2, in2, out2, cmds)
<1>0. /\ p \in Process /\ in \in Seq(P!Messages) /\ out \in Seq(Entry)
  BY DEF Typed
<1>1. CASE Takes(p, in, out, p2, in2, out2)
  <2>1. in2 = Tail(in) /\ out2 = out /\ in # <<>> /\ Head(in).cmd \in cmds
    BY <1>1 DEF Takes
  <2>2. Lacks(Tail(in), cmds) /\ ~ Lacks(in, cmds)
    BY <1>0, <2>1, TailLacks DEF Alone
  <2> QED
    BY <2>1, <2>2 DEF Alone, Lacks, AtMostOne
<1>2. CASE Answers(p, in, out, p2, in2, out2)
  <2> DEFINE m == [cmd |-> "REPORT", letter |-> p.letter, client |-> p.client, body |-> p.body]
  <2>1. Lacks(in, cmds) /\ Lacks(out, cmds)
    BY <1>2 DEF Alone, Answers
  <2>2. in2 = in /\ (out2 = out \/ out2 = Append(out, m)) /\ p2.phase = "recv"
    BY <1>0, <1>2 DEF Answers, Polling, Freed, Process
  <2>3. m \in Entry
    BY <1>0 DEF Entry, Process
  <2> HIDE DEF m
  <2>4. AtMostOne(Append(out, m), cmds)
    BY <1>0, <2>1, <2>3, AppendLacks
  <2>5. AtMostOne(in, cmds) /\ AtMostOne(out, cmds)
    BY <2>1 DEF Lacks, AtMostOne
  <2> QED
    BY <2>1, <2>2, <2>4, <2>5 DEF Alone
<1>3. CASE Polls(p, in, out, p2, in2, out2)
  <2> DEFINE m == Command("HEARTBEAT")
  <2>1. m \in Entry /\ m.cmd \notin cmds
    BY CommandPlain
  <2>2. in2 = in /\ in = <<>> /\ (out2 = out \/ out2 = Append(out, m))
    BY <1>3 DEF Polls
  <2>3. p2.phase = "recv"
    BY <1>0, <1>3 DEF Polls, Polling, Missed, Signed, Process
  <2> HIDE DEF m
  <2>4. AtMostOne(out2, cmds)
    BY <1>0, <2>1, <2>2, AppendLacks DEF Alone
  <2>5. Lacks(in, cmds) /\ AtMostOne(in, cmds)
    BY <2>2 DEF Lacks, AtMostOne
  <2> QED
    BY <2>2, <2>3, <2>4, <2>5 DEF Alone
<1> QED
  BY <1>1, <1>2, <1>3 DEF Step

LEMMA StepLacks ==
  ASSUME NEW b, NEW p, NEW in, NEW out, Typed(b, p, in, out),
         NEW p2, NEW in2, NEW out2, Step(p, in, out, p2, in2, out2),
         ~ Connects(p, in, out, p2, in2, out2),
         NEW cmds, "REPORT" \notin cmds, "HEARTBEAT" \notin cmds,
         Lacks(in, cmds), Lacks(out, cmds)
  PROVE  Lacks(in2, cmds) /\ Lacks(out2, cmds)
<1>0. /\ p \in Process /\ in \in Seq(P!Messages) /\ out \in Seq(Entry)
  BY DEF Typed
<1>1. CASE Takes(p, in, out, p2, in2, out2)
  BY <1>0, <1>1, TailLacks DEF Takes
<1>2. CASE Answers(p, in, out, p2, in2, out2)
  <2> DEFINE m == [cmd |-> "REPORT", letter |-> p.letter, client |-> p.client, body |-> p.body]
  <2>1. in2 = in /\ (out2 = out \/ out2 = Append(out, m))
    BY <1>2 DEF Answers
  <2>2. m \in Entry /\ m.cmd \notin cmds
    BY <1>0 DEF Entry, Process
  <2> HIDE DEF m
  <2> QED
    BY <1>0, <2>1, <2>2, AppendLacks
<1>3. CASE Polls(p, in, out, p2, in2, out2)
  <2> DEFINE m == Command("HEARTBEAT")
  <2>1. m \in Entry /\ m.cmd \notin cmds
    BY CommandPlain
  <2>2. in2 = in /\ (out2 = out \/ out2 = Append(out, m))
    BY <1>3 DEF Polls
  <2> HIDE DEF m
  <2> QED
    BY <1>0, <2>1, <2>2, AppendLacks
<1> QED
  BY <1>1, <1>2, <1>3 DEF Step

LEMMA ConnectWork ==
  ASSUME HeartbeatLiveness > 2, NEW b, NEW w, NEW p, NEW in, NEW out, NEW st, NEW bst,
         Typed(b, p, in, out), Lively(p), WorkInv(b, w, p, in, out, st, bst),
         NEW p2, NEW in2, NEW out2, Connects(p, in, out, p2, in2, out2)
  PROVE  WorkInv(b, w, p2, in2, out2, st, bst)
<1> DEFINE m == Command("READY")
           all == Work \cup Contact
<1>0. /\ p \in Process /\ in \in Seq(P!Messages) /\ out \in Seq(Entry)
      /\ Part(<<>>, in) /\ <<>> \in Seq(P!Messages)
  BY PartItself DEF Typed
<1>1. PICK rest \in Unsent(out) : out2 = Append(rest, m)
  BY DEF Connects
<1>2. rest \in Seq(Entry) /\ Part(rest, out)
  BY <1>0, UnsentPart
<1>3. m \in Entry /\ m.cmd \notin Work
  BY CommandPlain DEF Work
<1>4. p2.phase = "recv" /\ in2 = <<>>
  BY <1>0, Connecting DEF Connects, Fresh
<1> HIDE DEF m
<1>5. Alone(p2, in2, out2, Work)
  <2>1. Alone(p2, <<>>, rest, Work)
    BY <1>0, <1>2, <1>4, AlonePart DEF WorkInv
  <2>2. AtMostOne(out2, Work)
    BY <1>1, <1>2, <1>3, <2>1, AppendLacks DEF Alone
  <2>3. Lacks(<<>>, Work) /\ AtMostOne(<<>>, Work)
    BY DEF Lacks, AtMostOne
  <2> QED
    BY <1>4, <2>2, <2>3 DEF Alone
<1>6. Pending(p2, in2, out2) \subseteq Pending(p, in, out)
  BY StepTyped DEF Step
<1>7. ASSUME st = 0
      PROVE  ~ P!Known(b, w) /\ Alone(p2, in2, out2, all)
  <2>1. ~ P!Known(b, w) /\ Lacks(out, all)
    <3>1. CASE p.phase = "down"
      BY <1>7, <3>1 DEF WorkInv, Lacks
    <3>2. CASE in # <<>> /\ Head(in).cmd = "DISCONNECT"
      <4>1. ~ Lacks(in, Contact) /\ ~ Lacks(in, all)
        BY <1>0, <3>2, TailLacks DEF Contact
      <4> QED
        BY <1>7, <4>1 DEF WorkInv, Alone
    <3>3. CASE p.phase = "recv" /\ p.liveness - 1 = 0
      <4>1. HeartbeatLiveness \in Nat /\ p.liveness \in 0 .. HeartbeatLiveness
        BY <1>0, MajordomoAssumption DEF Process
      <4>2. p.liveness = HeartbeatLiveness \/ p.liveness = HeartbeatLiveness - 1
        BY <3>3 DEF Lively
      <4> QED
        BY <3>3, <4>1, <4>2
    <3> QED
      BY <3>1, <3>2, <3>3 DEF Connects
  <2>2. AtMostOne(out2, all)
    BY <1>1, <1>2, <1>3, <2>1, PartLacks, AppendLacks
  <2>3. Lacks(<<>>, all) /\ AtMostOne(<<>>, all)
    BY DEF Lacks, AtMostOne
  <2> QED
    BY <1>4, <2>1, <2>2, <2>3 DEF Alone
<1> QED
  BY <1>4, <1>5, <1>6, <1>7 DEF WorkInv

LEMMA StepWork ==
  ASSUME HeartbeatLiveness > 2, NEW b, NEW w, NEW p, NEW in, NEW out, NEW st, NEW bst,
         Typed(b, p, in, out), Lively(p), WorkInv(b, w, p, in, out, st, bst),
         NEW p2, NEW in2, NEW out2, Step(p, in, out, p2, in2, out2)
  PROVE  Lively(p2) /\ WorkInv(b, w, p2, in2, out2, st, bst)
<1>1. Lively(p2) /\ p2.phase # "down"
  BY StepLively
<1>2. CASE Connects(p, in, out, p2, in2, out2)
  BY <1>1, <1>2, ConnectWork
<1>3. CASE ~ Connects(p, in, out, p2, in2, out2)
  <2>1. Pending(p2, in2, out2) \subseteq Pending(p, in, out)
    BY StepTyped
  <2>2. Alone(p2, in2, out2, Work)
    BY <1>3, StepAlone DEF WorkInv, Work
  <2>3. Alone(p, in, out, Work \cup Contact) => Alone(p2, in2, out2, Work \cup Contact)
    BY <1>3, StepAlone DEF Work, Contact
  <2>4. Lacks(in, Contact) /\ Lacks(out, Contact) => Lacks(in2, Contact) /\ Lacks(out2, Contact)
    BY <1>3, StepLacks DEF Contact
  <2>5. p2.phase # "down"
    BY <1>1
  <2>6. WorkInv(b, w, p2, in2, out2, st, bst)
    BY <2>1, <2>2, <2>3, <2>4, <2>5 DEF WorkInv
  <2> QED
    BY <1>1, <2>6
<1> QED
  BY <1>2, <1>3

LEMMA EndWork ==
  ASSUME NEW b, NEW w, NEW p, NEW in, NEW out, NEW st, NEW st2, NEW bst,
         Typed(b, p, in, out), WorkInv(b, w, p, in, out, st, bst), st2 # 0,
         NEW p2, NEW in2, NEW out2, Ends(p, out, p2, in2, out2)
  PROVE  Lively(p2) /\ WorkInv(b, w, p2, in2, out2, st2, bst)
<1> DEFINE m == Command("DISCONNECT")
<1>0. /\ in \in Seq(P!Messages) /\ out \in Seq(Entry)
      /\ Part(<<>>, in) /\ <<>> \in Seq(P!Messages)
  BY PartItself DEF Typed
<1>1. m \in Entry /\ m.cmd \notin Work
  BY CommandPlain DEF Work
<1>2. PICK q \in {out, Append(out, m)} : out2 \in Unsent(q)
  BY DEF Ends
<1> HIDE DEF m
<1>3. q \in Seq(Entry) /\ AtMostOne(q, Work) /\ (Lacks(out, Work) => Lacks(q, Work))
  <2>1. AtMostOne(out, Work)
    BY DEF WorkInv, Alone
  <2>2. Append(out, m) \in Seq(Entry)
    BY <1>0, <1>1
  <2>3. /\ AtMostOne(Append(out, m), Work)
        /\ Lacks(out, Work) => Lacks(Append(out, m), Work)
    BY <1>0, <1>1, <2>1, AppendLacks
  <2> QED
    BY <1>0, <1>2, <2>1, <2>2, <2>3
<1>4. out2 \in Seq(Entry) /\ Part(out2, q)
  BY <1>2, <1>3, UnsentPart
<1>5. p2 = Down /\ in2 = <<>> /\ Down.phase = "down"
  BY DEF Ends, Down
<1>6. Alone(p, in, q, Work)
  BY <1>3 DEF WorkInv, Alone
<1>7. Alone(p2, in2, out2, Work)
  BY <1>0, <1>3, <1>4, <1>5, <1>6, AlonePart
<1>8. Pending(p2, in2, out2) \subseteq Pending(p, in, out)
  BY EndTyped
<1>9. Lively(p2)
  BY <1>5 DEF Lively
<1> QED
  BY <1>7, <1>8, <1>9 DEF WorkInv

(* What WorkInv looks at: rows, letters, phase and letter of the process.  *)
LEMMA WorkSame ==
  ASSUME NEW b, NEW d, NEW w, NEW p, NEW p2, NEW in, NEW out, NEW st, NEW bst,
         WorkInv(b, w, p, in, out, st, bst),
         d.worker[w].id = b.worker[w].id, d.worker[w].letter = b.worker[w].letter,
         d.letter = b.letter,
         p2.phase = p.phase, p2.letter = p.letter, p2.client = p.client
  PROVE  WorkInv(d, w, p2, in, out, st, bst)
<1>1. Pending(p2, in, out) = Pending(p, in, out)
  BY DEF Pending
<1>2. \A cmds : Alone(p2, in, out, cmds) = Alone(p, in, out, cmds)
  BY DEF Alone
<1>3. P!Known(d, w) = P!Known(b, w)
  BY DEF P!Known
<1> QED
  BY <1>1, <1>2, <1>3 DEF WorkInv

LEMMA TickWork ==
  ASSUME TypeInv, IInv, Tick
  PROVE  IInv'
<1>1. ASSUME NEW w \in Workers
      PROVE  /\ Lively(proc'[w])
             /\ WorkInv(broker', w, proc'[w], toWorker[w], toBroker[w], stops, brokerStops)
  <2> DEFINE p == proc[w]
             p2 == proc'[w]
  <2>1. p \in Process
    BY DEF TypeInv
  <2>2. p2 = [p EXCEPT !.heartbeatIn = Nearer(@, -1), !.pollIn = Nearer(@, 0)]
    BY TickTyped
  <2> HIDE DEF p, p2
  <2>3. /\ p2.phase = p.phase /\ p2.letter = p.letter /\ p2.client = p.client
        /\ p2.liveness = p.liveness
        /\ p2.heartbeatIn = Nearer(p.heartbeatIn, -1) /\ p2.pollIn = Nearer(p.pollIn, 0)
    BY <2>1, <2>2 DEF Process
  <2>4. Lively(p) /\ WorkInv(broker, w, p, toWorker[w], toBroker[w], stops, brokerStops)
    BY DEF IInv, p
  <2>5. Lively(p2)
    <3>1. /\ p.heartbeatIn \in -1 .. Period /\ p.pollIn \in 0 .. Period
          /\ Period \in Nat \ {0}
      BY <2>1, PeriodPositive DEF Process
    <3>2. p.heartbeatIn <= p.pollIn => p2.heartbeatIn <= p2.pollIn
      BY <2>3, <3>1 DEF Nearer
    <3>3. p.heartbeatIn = -1 \/ p.heartbeatIn = 0 => p2.heartbeatIn = -1
      BY <2>3, <3>1 DEF Nearer
    <3> QED
      BY <2>3, <2>4, <3>2, <3>3 DEF Lively
  <2>6. WorkInv(broker', w, p2, toWorker[w], toBroker[w], stops, brokerStops)
    BY <2>3, <2>4, TickTyped, WorkSame
  <2> QED
    BY <2>5, <2>6 DEF p2
<1> QED
  BY <1>1 DEF IInv, Tick

LEMMA RestartWork ==
  ASSUME TypeInv, IInv, BrokerRestart
  PROVE  IInv'
<1>1. /\ stops = 0 /\ stops' = 0 /\ brokerStops' # 0 /\ UNCHANGED <<proc, toWorker>>
      /\ DOMAIN broker'.letter = {}
  <2>1. brokerStops \in Nat
    BY MajordomoAssumption DEF TypeInv
  <2> QED
    BY <2>1, RestartTyped DEF BrokerRestart
<1>2. ASSUME NEW w \in Workers
      PROVE  WorkInv(broker', w, proc[w], toWorker[w], toBroker'[w], 0, brokerStops')
  <2> DEFINE p == proc[w]
             in == toWorker[w]
             out == toBroker[w]
             out2 == toBroker'[w]
             all == Work \cup Contact
  <2>1. /\ in \in Seq(P!Messages) /\ out \in Seq(Entry) /\ Part(in, in)
        /\ Typed(broker, p, in, out)
    BY PartItself DEF TypeInv, Typed
  <2>2. /\ out2 \in Seq(Entry) /\ Part(out2, out) /\ ~ P!Known(broker', w)
    BY RestartTyped
  <2>3. WorkInv(broker, w, p, in, out, 0, brokerStops)
    BY <1>1 DEF IInv
  <2> HIDE DEF p, in, out, out2
  <2>4. Alone(p, in, out2, Work)
    BY <2>1, <2>2, <2>3, AlonePart DEF WorkInv
  <2>5. Alone(p, in, out, all)
    <3>1. CASE P!Known(broker, w)
      <4>1. Alone(p, in, out, Work) /\ Lacks(in, Contact) /\ Lacks(out, Contact)
        BY <2>3, <3>1 DEF WorkInv
      <4> QED
        BY <4>1 DEF Alone, Lacks, AtMostOne
    <3>2. CASE ~ P!Known(broker, w)
      BY <2>3, <3>2 DEF WorkInv
    <3> QED
      BY <3>1, <3>2
  <2>6. Alone(p, in, out2, all)
    BY <2>1, <2>2, <2>5, AlonePart
  <2>7. p.phase = "down" => out2 = <<>>
    <3>1. p.phase = "down" => out = <<>>
      BY <2>3 DEF WorkInv
    <3>2. out = <<>> => DOMAIN out2 = {}
      BY <2>2 DEF Part
    <3> QED
      BY <2>2, <3>1, <3>2
  <2>8. WorkInv(broker', w, p, in, out2, 0, brokerStops')
    BY <1>1, <2>2, <2>4, <2>6, <2>7 DEF WorkInv
  <2> QED
    BY <2>8 DEF p, in, out2
<1>3. \A w \in Workers : Lively(proc[w])
  BY DEF IInv
<1> QED
  BY <1>1, <1>2, <1>3 DEF IInv

-----------------------------------------------------------------------------
(* Work: the turns of the broker.                                          *)

Took(out, out2, cmd) == out # <<>> /\ Head(out).cmd = cmd /\ out2 = Tail(out)

(* What a turn from b to d may be to worker v, whose queue out is out2     *)
(* after it: it gives v a row for its READY only, it releases the letter   *)
(* of v for its REPORT only, and sends v a DISCONNECT for one of them.     *)
TurnFor(v, b, d, N, R, M, out, out2) ==
  /\ v \in N => Took(out, out2, "READY")
  /\ P!Known(b, v) /\ b.worker[v].letter \in R => Took(out, out2, "REPORT")
  /\ Disconnecting(v) \in M =>
       \/ P!Known(b, v) /\ Took(out, out2, "READY")
       \/ /\ ~ P!Known(b, v) /\ Took(out, out2, "REPORT")
          /\ d.out = <<Disconnecting(v)>>
  /\ \A m \in M : m.to = v => m = Disconnecting(v)
  /\ out2 = out \/ (out # <<>> /\ out2 = Tail(out))

(* A command that is alone leaves nothing behind when it is taken.         *)
LEMMA TookAlone ==
  ASSUME NEW b, NEW p, NEW in, NEW out, Typed(b, p, in, out), NEW out2, NEW cmd,
         Took(out, out2, cmd), NEW cmds, cmd \in cmds, Alone(p, in, out, cmds)
  PROVE  /\ Lacks(in, cmds) /\ Lacks(out2, cmds) /\ p.phase # "busy"
         /\ Work \subseteq cmds => Pending(p, in, out2) = {}
<1>1. out \in Seq(Entry) /\ out # <<>> /\ out2 \in Seq(Entry)
  BY TailPart DEF Typed, Took
<1>2. Lacks(out2, cmds) /\ ~ Lacks(out, cmds)
  BY <1>1, TailLacks DEF Took, Alone
<1>3. Lacks(in, cmds) /\ p.phase # "busy"
  BY <1>2 DEF Alone
<1>4. Work \subseteq cmds => Lacks(in, Work) /\ Lacks(out2, Work)
  BY <1>2, <1>3 DEF Lacks
<1> QED
  BY <1>1, <1>2, <1>3, <1>4, PendingNothing

(* A letter that is not released stays with its worker.                    *)
LEMMA AssignedStays ==
  ASSUME NEW b, P!BInv(b), NEW d, P!BInv(d), NEW N, NEW R, NEW M, P!Outcome(b, d, N, R, M),
         NEW v \in Workers, P!Known(b, v), NEW k, k = b.worker[v].letter, k # 0, k \notin R
  PROVE  /\ k \in DOMAIN b.letter /\ b.letter[k].state = "ASSIGNED"
         /\ k \in DOMAIN d.letter /\ d.letter[k] = b.letter[k]
         /\ P!Known(d, v) /\ d.worker[v].letter = k
<1>1. /\ k \in DOMAIN b.letter /\ b.letter[k].state = "ASSIGNED"
      /\ b.letter[k].worker = b.worker[v].id
  BY DEF P!BInv, P!HolderHasLetter
<1>2. k \in DOMAIN d.letter /\ d.letter[k] = b.letter[k]
  BY <1>1 DEF P!Outcome
<1>3. d.worker[v].id = b.worker[v].id /\ P!Known(d, v)
  BY DEF P!Outcome, P!Known
<1>4. PICK u \in Workers : /\ P!Known(d, u)
                           /\ d.worker[u].id = d.letter[k].worker
                           /\ d.worker[u].letter = k
  BY <1>1, <1>2 DEF P!BInv, P!AssignedHasHolder
<1>5. u = v
  BY <1>1, <1>2, <1>3, <1>4 DEF P!BInv, P!DistinctIds
<1> QED
  BY <1>1, <1>2, <1>3, <1>4, <1>5

LEMMA TookPart ==
  ASSUME NEW b, NEW p, NEW in, NEW out, Typed(b, p, in, out),
         NEW out2, out2 = out \/ (out # <<>> /\ out2 = Tail(out))
  PROVE  /\ out2 \in Seq(Entry) /\ Part(out2, out)
         /\ in \in Seq(P!Messages) /\ out \in Seq(Entry) /\ Part(in, in)
         /\ Pending(p, in, out2) \subseteq Pending(p, in, out)
<1>1. in \in Seq(P!Messages) /\ out \in Seq(Entry) /\ Part(in, in) /\ Part(out, out)
  BY PartItself DEF Typed
<1>2. out2 \in Seq(Entry) /\ Part(out2, out)
  BY <1>1, TailPart
<1> QED
  BY <1>1, <1>2, PendingPart

(* A request is sent to a worker that has nothing pending.                 *)
LEMMA RequestFree ==
  ASSUME NEW b, P!BInv(b), NEW d, P!BInv(d), NEW N, NEW R, NEW M, P!Outcome(b, d, N, R, M),
         NEW v \in Workers, NEW p, NEW in, NEW out, NEW out2, NEW st, NEW bst,
         Typed(b, p, in, out), WorkInv(b, v, p, in, out, st, bst), st = 0 \/ bst = 0,
         TurnFor(v, b, d, N, R, M, out, out2), NEW i \in SentTo(d, v)
  PROVE  P!Known(d, v) /\ Pending(p, in, out2) = {}
<1> DEFINE l == d.out[i].letter
           k == b.worker[v].letter
<1>1. P!Given(b, d, d.out[i]) /\ d.out[i].to = v
  BY DEF SentTo, P!Outcome
<1>2. /\ l \in DOMAIN d.letter /\ d.worker[v].letter = l
      /\ l \in DOMAIN b.letter => b.letter[l].state = "UNASSIGNED"
  BY <1>1 DEF P!Given
<1> HIDE DEF l
<1>3. l # 0
  BY <1>2 DEF P!BInv, P!BrokerType
<1>4. P!Known(d, v)
  BY <1>2, <1>3 DEF P!BInv, P!HolderHasLetter
<1>5. CASE P!Known(b, v) /\ k = 0
  <2>1. \A x \in Pending(p, in, out) : x[1] = 0
    BY <1>5 DEF WorkInv
  <2>2. \A x \in Pending(p, in, out) : x[1] \in 1 .. b.lastId
    BY DEF Typed
  <2>3. Pending(p, in, out) = {}
    BY <2>1, <2>2
  <2>4. Pending(p, in, out2) \subseteq Pending(p, in, out)
    BY TookPart DEF TurnFor
  <2> QED
    BY <1>4, <2>3, <2>4
<1>6. CASE P!Known(b, v) /\ k \in R
  <2>1. Took(out, out2, "REPORT")
    BY <1>6 DEF TurnFor
  <2> QED
    BY <1>4, <2>1, TookAlone DEF WorkInv, Work
<1>7. CASE P!Known(b, v) /\ k # 0 /\ k \notin R
  BY <1>2, <1>7, AssignedStays
<1>8. CASE ~ P!Known(b, v)
  <2>1. Took(out, out2, "READY")
    BY <1>4, <1>8 DEF P!Outcome, P!Known, TurnFor
  <2>2. CASE bst = 0
    <3>1. Pending(p, in, out) = {}
      BY <1>8, <2>2 DEF WorkInv
    <3> QED
      BY <1>4, <3>1, TookPart DEF TurnFor
  <2>3. CASE st = 0
    <3>1. Alone(p, in, out, Work \cup Contact)
      BY <1>8, <2>3 DEF WorkInv
    <3>2. "READY" \in Work \cup Contact /\ Work \subseteq Work \cup Contact
      BY DEF Contact
    <3> QED
      BY <1>4, <2>1, <3>1, <3>2, TookAlone
  <2> QED
    BY <2>2, <2>3
<1> QED
  BY <1>5, <1>6, <1>7, <1>8

(* New in the queue q are requests the turn sent to v, or its DISCONNECT.  *)
Arrived(q, in, d, v, M, at) ==
  /\ DOMAIN in \subseteq DOMAIN q /\ \A i \in DOMAIN in : q[i] = in[i]
  /\ \A i \in DOMAIN q \ DOMAIN in :
       /\ at[i] \in DOMAIN d.out /\ q[i] = d.out[at[i]]
       /\ \/ q[i].cmd = "REQUEST" /\ at[i] \in SentTo(d, v)
          \/ q[i].cmd = "DISCONNECT" /\ q[i] = Disconnecting(v) /\ q[i] \in M
       /\ \A j \in DOMAIN q \ DOMAIN in : at[j] = at[i] => j = i

LEMMA ArrivedAs ==
  ASSUME NEW b, NEW d, P!BInv(d), NEW N, NEW R, NEW M, P!Outcome(b, d, N, R, M),
         NEW v \in Workers, NEW p, NEW in \in Seq(P!Messages), NEW out, NEW out2,
         TurnFor(v, b, d, N, R, M, out, out2)
  PROVE  LET q == Arrives(d, v, p, in)
         IN  q \in Seq(P!Messages) /\ \E at : Arrived(q, in, d, v, M, at)
<1> DEFINE q == Arrives(d, v, p, in)
<1>1. q \in Seq(P!Messages)
  BY ArrivesFrom
<1>2. DOMAIN in \subseteq DOMAIN q /\ \A i \in DOMAIN in : q[i] = in[i]
  BY ArrivesFrom
<1>3. PICK at : \A i \in DOMAIN q \ DOMAIN in :
                  /\ at[i] \in DOMAIN d.out /\ d.out[at[i]].to = v
                  /\ q[i] = d.out[at[i]]
                  /\ \A j \in DOMAIN q \ DOMAIN in : at[j] = at[i] => j = i
  BY ArrivesFrom
<1> HIDE DEF q
<1>4. ASSUME NEW i \in DOMAIN q \ DOMAIN in
      PROVE  \/ q[i].cmd = "REQUEST" /\ at[i] \in SentTo(d, v)
             \/ q[i].cmd = "DISCONNECT" /\ q[i] = Disconnecting(v) /\ q[i] \in M
  <2>1. CASE q[i].cmd = "REQUEST"
    BY <1>3, <2>1 DEF SentTo
  <2>2. CASE q[i].cmd # "REQUEST"
    <3>1. q[i] \in M /\ q[i].to = v
      BY <1>3, <2>2 DEF P!Outcome
    <3>2. q[i] = Disconnecting(v)
      BY <3>1 DEF TurnFor
    <3> QED
      BY <3>1, <3>2 DEF Disconnecting
  <2> QED
    BY <2>1, <2>2
<1>5. Arrived(q, in, d, v, M, at)
  BY <1>2, <1>3, <1>4 DEF Arrived
<1> QED
  BY <1>1, <1>5 DEF q

(* One request at a time to a worker.                                      *)
LEMMA TurnAlone ==
  ASSUME NEW b, P!BInv(b), NEW d, P!BInv(d), NEW N, NEW R, NEW M, P!Outcome(b, d, N, R, M),
         NEW v \in Workers, NEW p, NEW in, NEW out, NEW out2, NEW st, NEW bst,
         Typed(b, p, in, out), WorkInv(b, v, p, in, out, st, bst), st = 0 \/ bst = 0,
         TurnFor(v, b, d, N, R, M, out, out2),
         NEW q, NEW at, Arrived(q, in, d, v, M, at)
  PROVE  Alone(p, q, out2, Work)
<1>1. Alone(p, in, out2, Work)
  BY TookPart, AlonePart DEF TurnFor, WorkInv
<1>2. \A i \in DOMAIN q \ DOMAIN in : q[i].cmd \in Work => at[i] \in SentTo(d, v)
  BY DEF Arrived, Work
<1>3. DOMAIN in \subseteq DOMAIN q /\ \A i \in DOMAIN in : q[i] = in[i]
  BY DEF Arrived
<1>4. CASE SentTo(d, v) = {}
  <2>1. \A i \in DOMAIN q : q[i].cmd \in Work => i \in DOMAIN in
    BY <1>2, <1>4
  <2> QED
    BY <1>1, <1>3, <2>1 DEF Alone, Lacks, AtMostOne
<1>5. CASE SentTo(d, v) # {}
  <2>1. Pending(p, in, out2) = {}
    BY <1>5, RequestFree
  <2>2. out2 \in Seq(Entry)
    BY TookPart DEF TurnFor
  <2>3. Lacks(in, Work) /\ Lacks(out2, Work) /\ p.phase # "busy"
    BY <2>1, <2>2, PendingNothing
  <2>4. \A i \in DOMAIN q : q[i].cmd \in Work => i \notin DOMAIN in
    BY <1>3, <2>3 DEF Lacks
  <2>5. \A i, j \in SentTo(d, v) : i = j
    <3>1. ASSUME NEW i \in SentTo(d, v)
          PROVE  d.out[i].letter = d.worker[v].letter
      BY DEF SentTo, P!Outcome, P!Given
    <3> QED
      BY <3>1 DEF SentTo, P!Outcome
  <2>6. ASSUME NEW i \in DOMAIN q, NEW j \in DOMAIN q, q[i].cmd \in Work, q[j].cmd \in Work
        PROVE  i = j
    <3>1. /\ i \in DOMAIN q \ DOMAIN in /\ j \in DOMAIN q \ DOMAIN in
          /\ at[i] \in SentTo(d, v) /\ at[j] \in SentTo(d, v)
      BY <1>2, <2>4, <2>6
    <3>2. at[i] = at[j]
      BY <2>5, <3>1
    <3> QED
      BY <3>1, <3>2 DEF Arrived
  <2> QED
    BY <2>3, <2>6 DEF Alone, AtMostOne, Lacks
<1> QED
  BY <1>4, <1>5

(* The broker knows of what is pending after the turn.                     *)
LEMMA TurnKnows ==
  ASSUME NEW b, P!BInv(b), NEW d, P!BInv(d), NEW N, NEW R, NEW M, P!Outcome(b, d, N, R, M),
         \A m \in M : m.to \in Clients \/ m.cmd = "DISCONNECT",
         NEW v \in Workers, NEW p, NEW in, NEW out, NEW out2, NEW st, NEW bst,
         Typed(b, p, in, out), WorkInv(b, v, p, in, out, st, bst), st = 0 \/ bst = 0,
         TurnFor(v, b, d, N, R, M, out, out2), NEW q, q = Arrives(d, v, p, in)
  PROVE  IF P!Known(d, v)
           THEN \A x \in Pending(p, q, out2) : /\ x[1] \in DOMAIN d.letter
                                               /\ d.worker[v].letter = x[1]
                                               /\ d.letter[x[1]].client = x[2]
           ELSE \A x \in Pending(p, q, out2) : x[1] \notin DOMAIN d.letter /\ bst # 0
<1>0. out2 \in Seq(Entry) /\ Part(out2, out) /\ Pending(p, in, out2) \subseteq Pending(p, in, out)
  BY TookPart DEF TurnFor
<1>1. \A x \in Pending(p, q, out2) :
        \/ x \in Pending(p, in, out2)
        \/ \E i \in SentTo(d, v) : x = <<d.out[i].letter, d.out[i].client>>
  BY <1>0, TurnTyped
<1>2. ASSUME NEW i \in SentTo(d, v)
      PROVE  /\ P!Known(d, v) /\ Pending(p, in, out2) = {}
             /\ d.out[i].letter \in DOMAIN d.letter
             /\ d.worker[v].letter = d.out[i].letter
             /\ d.letter[d.out[i].letter].client = d.out[i].client
  <2>1. P!Given(b, d, d.out[i]) /\ d.out[i].to = v
    BY DEF SentTo, P!Outcome
  <2> QED
    BY <2>1, RequestFree DEF P!Given
<1>3. \A x \in Pending(p, in, out) : x[1] \in 1 .. b.lastId
  BY DEF Typed
<1>4. CASE P!Known(d, v) /\ P!Known(b, v)
  <2> SUFFICES ASSUME NEW x \in Pending(p, in, out2)
               PROVE  /\ x[1] \in DOMAIN d.letter
                      /\ d.worker[v].letter = x[1]
                      /\ d.letter[x[1]].client = x[2]
    BY <1>1, <1>2, <1>4
  <2>1. /\ x[1] = b.worker[v].letter /\ x[1] \in DOMAIN b.letter
        /\ b.letter[x[1]].client = x[2]
    BY <1>0, <1>4 DEF WorkInv
  <2>2. x[1] # 0
    BY <1>0, <1>3
  <2>3. x[1] \notin R
    <3>1. x[1] \in R => Took(out, out2, "REPORT")
      BY <1>4, <2>1 DEF TurnFor
    <3>2. Took(out, out2, "REPORT") => Pending(p, in, out2) = {}
      BY TookAlone DEF WorkInv, Work
    <3> QED
      BY <3>1, <3>2
  <2> QED
    BY <1>4, <2>1, <2>2, <2>3, AssignedStays
<1>5. CASE P!Known(d, v) /\ ~ P!Known(b, v)
  <2>1. Took(out, out2, "READY")
    BY <1>5 DEF P!Outcome, P!Known, TurnFor
  <2>2. Pending(p, in, out2) = {}
    <3>1. CASE bst = 0
      BY <1>0, <1>5, <3>1 DEF WorkInv
    <3>2. CASE st = 0
      <4>1. Alone(p, in, out, Work \cup Contact)
        BY <1>5, <3>2 DEF WorkInv
      <4>2. "READY" \in Work \cup Contact /\ Work \subseteq Work \cup Contact
        BY DEF Contact
      <4> QED
        BY <2>1, <4>1, <4>2, TookAlone
    <3> QED
      BY <3>1, <3>2
  <2> QED
    BY <1>1, <1>2, <1>5, <2>2
<1>6. CASE ~ P!Known(d, v)
  <2>1. ~ P!Known(b, v)
    BY <1>6 DEF P!Outcome, P!Known
  <2>2. ASSUME NEW x \in Pending(p, q, out2)
        PROVE  x[1] \notin DOMAIN d.letter /\ bst # 0
    <3>1. x \in Pending(p, in, out)
      BY <1>0, <1>1, <1>2, <1>6
    <3>2. x[1] \notin DOMAIN b.letter /\ bst # 0 /\ x[1] \in 1 .. b.lastId
      BY <1>3, <2>1, <3>1 DEF WorkInv
    <3>3. b.lastId \in Nat /\ DOMAIN d.letter \subseteq 1 .. d.lastId /\ d.lastId \in Nat
      BY DEF P!BInv, P!BrokerType
    <3>4. x[1] \in DOMAIN d.letter => x[1] > b.lastId
      BY <3>2 DEF P!Outcome
    <3> QED
      BY <3>2, <3>3, <3>4
  <2> QED
    BY <1>6, <2>2
<1> QED
  BY <1>4, <1>5, <1>6

(* With workers that are not stopped, a contact that is being made is the  *)
(* only command under way, and an end of one too.                          *)
LEMMA TurnContact ==
  ASSUME NEW b, P!BInv(b), NEW d, P!BInv(d), NEW N, NEW R, NEW M, P!Outcome(b, d, N, R, M),
         NEW v \in Workers, NEW p, NEW in, NEW out, NEW out2, NEW bst,
         Typed(b, p, in, out), WorkInv(b, v, p, in, out, 0, bst),
         TurnFor(v, b, d, N, R, M, out, out2),
         NEW q, NEW at, Arrived(q, in, d, v, M, at)
  PROVE  IF P!Known(d, v) THEN Lacks(q, Contact) /\ Lacks(out2, Contact)
                          ELSE Alone(p, q, out2, Work \cup Contact)
<1> DEFINE all == Work \cup Contact
<1>0. /\ out2 \in Seq(Entry) /\ Part(out2, out) /\ in \in Seq(P!Messages)
      /\ out \in Seq(Entry) /\ Part(in, in)
  BY TookPart DEF TurnFor
<1>1. /\ DOMAIN in \subseteq DOMAIN q /\ \A i \in DOMAIN in : q[i] = in[i]
      /\ \A i \in DOMAIN q \ DOMAIN in :
           q[i].cmd = "REQUEST" \/ (q[i].cmd = "DISCONNECT" /\ Disconnecting(v) \in M)
  BY DEF Arrived
<1>2. \A cmd, c2 : Took(out, out2, cmd) /\ Took(out, out2, c2) => cmd = c2
  BY DEF Took
<1>3. "READY" \in all /\ "REPORT" \in all /\ "REQUEST" \notin Contact
  BY DEF Work, Contact
<1> HIDE DEF all
<1>4. CASE P!Known(b, v)
  <2>1. P!Known(d, v)
    BY <1>4 DEF P!Outcome, P!Known
  <2>2. Lacks(in, Contact) /\ Lacks(out, Contact)
    BY <1>4 DEF WorkInv
  <2>3. Lacks(out2, Contact)
    BY <1>0, <2>2, PartLacks
  <2>4. ~ Took(out, out2, "READY")
    <3>1. out # <<>> => Head(out).cmd \notin Contact
      BY <1>0, <2>2, TailLacks
    <3> QED
      BY <3>1 DEF Took, Contact
  <2>5. Disconnecting(v) \notin M
    BY <1>4, <2>4 DEF TurnFor
  <2>6. Lacks(q, Contact)
    BY <1>1, <1>3, <2>2, <2>5 DEF Lacks
  <2> QED
    BY <2>1, <2>3, <2>6
<1>5. CASE ~ P!Known(b, v) /\ P!Known(d, v)
  <2>1. Took(out, out2, "READY")
    BY <1>5 DEF P!Outcome, P!Known, TurnFor
  <2>2. Alone(p, in, out, all)
    BY <1>5 DEF WorkInv, all
  <2>3. Lacks(in, all) /\ Lacks(out2, all)
    BY <1>3, <2>1, <2>2, TookAlone
  <2>4. Disconnecting(v) \notin M
    BY <1>2, <1>5, <2>1 DEF TurnFor
  <2>5. Lacks(in, Contact) /\ Lacks(out2, Contact)
    BY <2>3 DEF Lacks, all
  <2>6. Lacks(q, Contact)
    BY <1>1, <1>3, <2>4, <2>5 DEF Lacks
  <2> QED
    BY <1>5, <2>5, <2>6
<1>6. CASE ~ P!Known(b, v) /\ ~ P!Known(d, v)
  <2>1. Alone(p, in, out, all)
    BY <1>6 DEF WorkInv, all
  <2>2. SentTo(d, v) = {}
    BY <1>6, RequestFree
  <2>3. \A i \in DOMAIN q \ DOMAIN in :
          q[i].cmd = "DISCONNECT" /\ Disconnecting(v) \in M
    BY <2>2 DEF Arrived
  <2>4. CASE Disconnecting(v) \in M
    <3>1. Took(out, out2, "REPORT") /\ d.out = <<Disconnecting(v)>>
      BY <1>6, <2>4 DEF TurnFor
    <3>2. Lacks(in, all) /\ Lacks(out2, all) /\ p.phase # "busy"
      BY <1>3, <2>1, <3>1, TookAlone
    <3>3. \A i \in DOMAIN q : q[i].cmd \in all => i \notin DOMAIN in
      BY <1>1, <3>2 DEF Lacks
    <3>4. \A i, j \in DOMAIN d.out : i = j
      BY <3>1
    <3>5. AtMostOne(q, all)
      BY <3>3, <3>4 DEF AtMostOne, Arrived
    <3> QED
      BY <1>6, <3>2, <3>5 DEF Alone, Lacks, AtMostOne, all
  <2>5. CASE Disconnecting(v) \notin M
    <3>1. DOMAIN q = DOMAIN in
      BY <1>1, <2>3, <2>5
    <3>2. Alone(p, in, out2, all)
      BY <1>0, <2>1, AlonePart
    <3> QED
      BY <1>1, <1>6, <3>1, <3>2 DEF Alone, Lacks, AtMostOne, all
  <2> QED
    BY <2>4, <2>5
<1> QED
  BY <1>4, <1>5, <1>6

LEMMA TurnWork ==
  ASSUME NEW b, P!BInv(b), NEW d, P!BInv(d), NEW N, NEW R, NEW M, P!Outcome(b, d, N, R, M),
         \A m \in M : m.to \in Clients \/ m.cmd = "DISCONNECT",
         NEW v \in Workers, NEW p, NEW in, NEW out, NEW out2, NEW st, NEW bst,
         Typed(b, p, in, out), WorkInv(b, v, p, in, out, st, bst), st = 0 \/ bst = 0,
         TurnFor(v, b, d, N, R, M, out, out2), NEW q, q = Arrives(d, v, p, in)
  PROVE  WorkInv(d, v, p, q, out2, st, bst)
<1>1. PICK at : Arrived(q, in, d, v, M, at)
  BY ArrivedAs DEF Typed
<1>2. Alone(p, q, out2, Work)
  BY <1>1, TurnAlone
<1>3. st = 0 => IF P!Known(d, v) THEN Lacks(q, Contact) /\ Lacks(out2, Contact)
                ELSE Alone(p, q, out2, Work \cup Contact)
  BY <1>1, TurnContact
<1>4. p.phase = "down" /\ st = 0 => out2 = <<>> /\ ~ P!Known(d, v)
  <2>1. p.phase = "down" /\ st = 0 => out = <<>> /\ ~ P!Known(b, v)
    BY DEF WorkInv
  <2>2. out = <<>> => v \notin N /\ out2 = <<>>
    BY DEF TurnFor, Took
  <2>3. v \notin N /\ P!Known(d, v) => P!Known(b, v)
    BY DEF P!Outcome, P!Known
  <2> QED
    BY <2>1, <2>2, <2>3
<1>5. IF P!Known(d, v)
        THEN \A x \in Pending(p, q, out2) : /\ x[1] \in DOMAIN d.letter
                                            /\ d.worker[v].letter = x[1]
                                            /\ d.letter[x[1]].client = x[2]
        ELSE \A x \in Pending(p, q, out2) : x[1] \notin DOMAIN d.letter /\ bst # 0
  BY TurnKnows
<1> QED
  BY <1>2, <1>3, <1>4, <1>5 DEF WorkInv

(* A turn that is to every worker as TurnFor says keeps the invariant.     *)
LEMMA TurnWorkAll ==
  ASSUME TypeInv, IInv, NEW outcomes, Turn(outcomes), P!BInv(broker'),
         NEW N, NEW R, NEW M, P!Outcome(P!Cleared, broker', N, R, M),
         \A m \in M : m.to \in Clients \/ m.cmd = "DISCONNECT",
         \A v \in Workers :
           TurnFor(v, P!Cleared, broker', N, R, M, toBroker[v], toBroker'[v])
  PROVE  IInv'
<1>1. ASSUME NEW v \in Workers
      PROVE  Lively(proc'[v])
             /\ WorkInv(broker', v, proc'[v], toWorker'[v], toBroker'[v], stops, brokerStops)
  <2>1. /\ P!Cleared.worker = broker.worker /\ P!Cleared.letter = broker.letter
        /\ P!Cleared.lastId = broker.lastId /\ P!BInv(P!Cleared)
    BY ClearedTables
  <2>2. /\ Typed(P!Cleared, proc[v], toWorker[v], toBroker[v])
        /\ Lively(proc[v])
    BY <2>1 DEF TypeInv, Typed, IInv
  <2>3. WorkInv(P!Cleared, v, proc[v], toWorker[v], toBroker[v], stops, brokerStops)
    <3>1. WorkInv(broker, v, proc[v], toWorker[v], toBroker[v], stops, brokerStops)
      BY DEF IInv
    <3> QED
      BY <2>1, <3>1, WorkSame
  <2>4. proc'[v] = proc[v] /\ toWorker'[v] = Arrives(broker', v, proc[v], toWorker[v])
    BY TurnQueues
  <2>5. stops = 0 \/ brokerStops = 0
    BY DEF IInv
  <2>6. TurnFor(v, P!Cleared, broker', N, R, M, toBroker[v], toBroker'[v])
    OBVIOUS
  <2>7. WorkInv(broker', v, proc[v], toWorker'[v], toBroker'[v], stops, brokerStops)
    BY <2>1, <2>2, <2>3, <2>4, <2>5, <2>6, TurnWork
  <2> QED
    BY <2>2, <2>4, <2>7
<1>2. UNCHANGED <<stops, brokerStops>>
  BY DEF Turn
<1> QED
  BY <1>1, <1>2 DEF IInv

(* Only the worker that has a letter of the index holds it.                *)
LEMMA HolderIsOne ==
  ASSUME NEW b, P!BInv(b), NEW v \in Workers, NEW w \in Workers, P!Known(b, w),
         b.worker[v].letter \in P!LettersOf(b, w)
  PROVE  v = w
<1> DEFINE l == b.worker[v].letter
<1>1. l \in DOMAIN b.letter /\ b.letter[l].worker = b.worker[w].id
  BY DEF P!LettersOf
<1>2. l # 0
  BY <1>1 DEF P!BInv, P!BrokerType
<1>3. b.letter[l].worker = b.worker[v].id
  BY <1>2 DEF P!BInv, P!HolderHasLetter
<1> QED
  BY <1>1, <1>3 DEF P!BInv, P!DistinctIds

LEMMA WorkerMsgWork ==
  ASSUME TypeInv, IInv, NEW w \in Workers, WorkerMsg(w)
  PROVE  IInv'
<1> DEFINE m == Head(toBroker[w])
           b == P!Cleared
<1>1. PICK N, R, M :
        /\ P!BInv(broker')
        /\ P!Outcome(b, broker', N, R, M)
        /\ \/ m.cmd = "READY" /\ ReadyTurn(w, broker', N, R, M)
           \/ m.cmd = "REPORT" /\ ReportTurn(w, broker', N, R, M)
           \/ QuietTurn(N, R, M)
  BY WorkerTurn
<1>2. /\ P!BInv(b) /\ P!Known(b, w) = P!Known(broker, w)
      /\ P!LettersOf(b, w) = P!LettersOf(broker, w)
  BY ClearedTables
<1>3. /\ toBroker[w] # <<>> /\ toBroker' = [toBroker EXCEPT ![w] = Tail(toBroker[w])]
      /\ Turn(Handled(w, m)) /\ DOMAIN toBroker = Workers
  BY DEF WorkerMsg, TypeInv
<1>4. \A v : Disconnecting(v).to = v /\ Disconnecting(v).cmd = "DISCONNECT"
  BY DEF Disconnecting
<1>5. \A x \in M : x.to \in Clients \/ x = Disconnecting(w)
  BY <1>1, <1>2 DEF ReadyTurn, ReportTurn, QuietTurn
<1>6. Workers \cap Clients = {}
  BY MajordomoAssumption
<1> HIDE DEF b
<1>7. ASSUME NEW v \in Workers
      PROVE  TurnFor(v, b, broker', N, R, M, toBroker[v], toBroker'[v])
  <2>1. CASE v = w
    <3>1. Took(toBroker[v], toBroker'[v], m.cmd) /\ toBroker'[v] = Tail(toBroker[v])
      BY <1>3, <2>1 DEF Took
    <3>2. \A x \in M : x.to = v => x = Disconnecting(v)
      BY <1>5, <1>6, <2>1
    <3>3. CASE m.cmd = "READY" /\ ReadyTurn(w, broker', N, R, M)
      <4>1. Disconnecting(v) \in M => P!Known(b, v)
        BY <1>2, <2>1, <3>3 DEF ReadyTurn
      <4> QED
        BY <1>3, <2>1, <3>1, <3>2, <3>3, <4>1 DEF TurnFor, ReadyTurn
    <3>4. CASE m.cmd = "REPORT" /\ ReportTurn(w, broker', N, R, M)
      <4>1. Disconnecting(v) \in M =>
              ~ P!Known(b, v) /\ broker'.out = <<Disconnecting(v)>>
        BY <1>2, <1>4, <1>6, <2>1, <3>4 DEF ReportTurn
      <4> QED
        BY <1>3, <2>1, <3>1, <3>2, <3>4, <4>1 DEF TurnFor, ReportTurn
    <3>5. CASE QuietTurn(N, R, M)
      <4>1. Disconnecting(v) \notin M
        BY <1>4, <1>6, <3>5 DEF QuietTurn
      <4> QED
        BY <1>3, <2>1, <3>1, <3>2, <3>5, <4>1 DEF TurnFor, QuietTurn
    <3> QED
      BY <1>1, <3>3, <3>4, <3>5
  <2>2. CASE v # w
    <3>1. toBroker'[v] = toBroker[v]
      BY <1>3, <2>2
    <3>2. Disconnecting(v) \notin M /\ \A x \in M : x.to # v
      BY <1>4, <1>5, <1>6, <2>2
    <3>3. v \notin N
      BY <1>1, <2>2 DEF ReadyTurn, ReportTurn, QuietTurn
    <3>4. P!Known(b, v) => b.worker[v].letter \notin R
      <4>1. R = {} \/ (P!Known(b, w) /\ R = P!LettersOf(b, w))
        BY <1>1, <1>2 DEF ReadyTurn, ReportTurn, QuietTurn
      <4> QED
        BY <1>2, <2>2, <4>1, HolderIsOne
    <3> QED
      BY <3>1, <3>2, <3>3, <3>4 DEF TurnFor
  <2> QED
    BY <2>1, <2>2
<1>8. \A x \in M : x.to \in Clients \/ x.cmd = "DISCONNECT"
  BY <1>4, <1>5
<1> QED
  BY <1>1, <1>3, <1>7, <1>8, TurnWorkAll DEF b

LEMMA OtherTurnWork ==
  ASSUME TypeInv, IInv,
         \/ \E c \in Clients, s \in Services, body \in Bodies : ClientMsg(c, s, body)
         \/ PollTimeout
  PROVE  IInv'
<1>1. PICK N, R, M : /\ P!BInv(broker')
                     /\ P!Outcome(P!Cleared, broker', N, R, M)
                     /\ QuietTurn(N, R, M)
  BY OtherTurn
<1>2. PICK outcomes : Turn(outcomes)
  BY DEF ClientMsg, PollTimeout
<1>3. toBroker' = toBroker
  BY DEF ClientMsg, PollTimeout
<1>4. Workers \cap Clients = {}
  BY MajordomoAssumption
<1>5. ASSUME NEW v \in Workers
      PROVE  TurnFor(v, P!Cleared, broker', N, R, M, toBroker[v], toBroker'[v])
  <2>1. Disconnecting(v) \notin M /\ \A m \in M : m.to # v
    BY <1>1, <1>4 DEF QuietTurn, Disconnecting
  <2> QED
    BY <1>1, <1>3, <2>1 DEF TurnFor, QuietTurn
<1> QED
  BY <1>1, <1>2, <1>5, TurnWorkAll DEF QuietTurn

-----------------------------------------------------------------------------
(* Work: all steps, and what follows from the invariant.                   *)

LEMMA InitWork ==
  ASSUME Init
  PROVE  IInv
<1>1. Down.phase = "down"
  BY DEF Down
<1>2. \A w \in Workers : ~ P!Known(broker, w)
  BY SameTables DEF Init, P!EmptyDatabase, P!Known, P!UnknownWorker
<1>3. \A cmds : Alone(Down, <<>>, <<>>, cmds)
  BY <1>1 DEF Alone, Lacks, AtMostOne
<1>4. \A b : Pending(Down, <<>>, <<>>) = {}
  BY DownTyped
<1>5. Lively(Down)
  BY <1>1 DEF Lively
<1>6. \A w \in Workers : WorkInv(broker, w, Down, <<>>, <<>>, 0, 0)
  BY <1>2, <1>3, <1>4 DEF WorkInv
<1> QED
  BY <1>5, <1>6 DEF Init, IInv

(* A step of one worker: the other ones may only see that more workers     *)
(* have been stopped.                                                      *)
LEMMA MovesWork ==
  ASSUME TypeInv, IInv, NEW w \in Workers, NEW p, NEW in, NEW out, Moves(w, p, in, out),
         Lively(p), WorkInv(broker, w, p, in, out, stops', brokerStops),
         UNCHANGED brokerStops, stops' = stops \/ (stops' # 0 /\ brokerStops = 0)
  PROVE  IInv'
<1>1. \A v \in Workers : /\ proc'[v] = IF v = w THEN p ELSE proc[v]
                         /\ toWorker'[v] = IF v = w THEN in ELSE toWorker[v]
                         /\ toBroker'[v] = IF v = w THEN out ELSE toBroker[v]
  BY DEF TypeInv, Moves
<1>2. ASSUME NEW v \in Workers
      PROVE  WorkInv(broker, v, proc[v], toWorker[v], toBroker[v], stops', brokerStops)
  <2>1. WorkInv(broker, v, proc[v], toWorker[v], toBroker[v], stops, brokerStops)
    BY DEF IInv
  <2> QED
    BY <2>1 DEF WorkInv
<1>3. stops' = 0 \/ brokerStops' = 0
  BY DEF IInv
<1>4. \A v \in Workers : /\ Lively(proc'[v])
                         /\ WorkInv(broker', v, proc'[v], toWorker'[v], toBroker'[v],
                                    stops', brokerStops')
  BY <1>1, <1>2 DEF IInv, Moves
<1> QED
  BY <1>3, <1>4 DEF IInv

LEMMA NextWork == HeartbeatLiveness > 2 /\ TypeInv /\ IInv /\ [Next]_vars => IInv'
<1> SUFFICES ASSUME HeartbeatLiveness > 2, TypeInv, IInv, [Next]_vars
             PROVE  IInv'
  OBVIOUS
<1>1. ASSUME NEW w \in Workers, Start(w) \/ Worker(w)
      PROVE  IInv'
  <2>1. PICK p, in, out : /\ Moves(w, p, in, out)
                          /\ Step(proc[w], toWorker[w], toBroker[w], p, in, out)
    BY <1>1, StepOf
  <2>2. UNCHANGED <<stops, brokerStops>>
    BY <1>1, StepOf
  <2>3. /\ Typed(broker, proc[w], toWorker[w], toBroker[w])
        /\ Lively(proc[w])
        /\ WorkInv(broker, w, proc[w], toWorker[w], toBroker[w], stops, brokerStops)
    BY DEF TypeInv, IInv
  <2>4. Lively(p) /\ WorkInv(broker, w, p, in, out, stops, brokerStops)
    BY <2>1, <2>3, StepWork
  <2> QED
    BY <2>1, <2>2, <2>4, MovesWork
<1>2. ASSUME NEW w \in Workers, Stop(w) \/ Crash(w)
      PROVE  IInv'
  <2>1. PICK p, in, out : /\ Moves(w, p, in, out)
                          /\ Ends(proc[w], toBroker[w], p, in, out)
    BY <1>2, EndOf
  <2>2. stops' # 0 /\ brokerStops = 0 /\ UNCHANGED brokerStops
    <3>1. stops \in Nat
      BY MajordomoAssumption DEF TypeInv
    <3> QED
      BY <1>2, <3>1, EndOf
  <2>3. /\ Typed(broker, proc[w], toWorker[w], toBroker[w])
        /\ WorkInv(broker, w, proc[w], toWorker[w], toBroker[w], stops, brokerStops)
    BY DEF TypeInv, IInv
  <2>4. Lively(p) /\ WorkInv(broker, w, p, in, out, stops', brokerStops)
    BY <2>1, <2>2, <2>3, EndWork
  <2> QED
    BY <2>1, <2>2, <2>4, MovesWork
<1>3. CASE UNCHANGED vars
  BY <1>3 DEF vars, IInv
<1> QED
  BY <1>1, <1>2, <1>3, WorkerMsgWork, OtherTurnWork, RestartWork, TickWork DEF Next

LEMMA WorkInvariance == HeartbeatLiveness > 2 => (Spec => [](TypeInv /\ IInv))
<1> SUFFICES ASSUME HeartbeatLiveness > 2
             PROVE  Spec => [](TypeInv /\ IInv)
  OBVIOUS
<1>1. Init => TypeInv /\ IInv
  BY InitTyped, InitWork
<1>2. TypeInv /\ IInv /\ [Next]_vars => (TypeInv /\ IInv)'
  BY NextTyped, NextWork
<1> QED
  BY <1>1, <1>2, PTL DEF Spec

(* What is outstanding is what is pending, without the clients.            *)
LEMMA OutstandingPending ==
  ASSUME NEW w, NEW l \in Outstanding(w)
  PROVE  \E x \in Pending(proc[w], toWorker[w], toBroker[w]) : x[1] = l
<1>1. CASE l \in RequestsOf(w)
  <2>1. PICK i \in Carrying(toWorker[w], "REQUEST") : l = toWorker[w][i].letter
    BY <1>1 DEF RequestsOf
  <2>2. <<toWorker[w][i].letter, toWorker[w][i].client>>
          \in Pending(proc[w], toWorker[w], toBroker[w])
    BY <2>1 DEF Pending
  <2> QED
    BY <2>1, <2>2
<1>2. CASE l \in InHand(w)
  <2>1. proc[w].phase = "busy" /\ l = proc[w].letter
    BY <1>2 DEF InHand
  <2>2. <<proc[w].letter, proc[w].client>> \in Pending(proc[w], toWorker[w], toBroker[w])
    BY <2>1 DEF Pending
  <2> QED
    BY <2>1, <2>2
<1>3. CASE l \in ReportsOf(w)
  <2>1. PICK i \in Carrying(toBroker[w], "REPORT") : l = toBroker[w][i].letter
    BY <1>3 DEF ReportsOf
  <2>2. <<toBroker[w][i].letter, toBroker[w][i].client>>
          \in Pending(proc[w], toWorker[w], toBroker[w])
    BY <2>1 DEF Pending
  <2> QED
    BY <2>1, <2>2
<1> QED
  BY <1>1, <1>2, <1>3 DEF Outstanding

(* A worker is never sent a request while it has not answered the one      *)
(* before, provided that mdwrk puts up with two silent periods at least:   *)
(* HEARTBEAT_LIVENESS is 3.                                                *)
THEOREM OneRequest == HeartbeatLiveness > 2 => (Spec => []OneRequestOutstanding)
<1>1. ASSUME TypeInv, IInv
      PROVE  OneRequestOutstanding
  <2> SUFFICES ASSUME NEW w \in Workers
               PROVE  Cardinality(Outstanding(w)) <= 1
    BY DEF OneRequestOutstanding
  <2>1. Alone(proc[w], toWorker[w], toBroker[w], Work)
    BY <1>1 DEF IInv, WorkInv
  <2>2. /\ \A i \in Carrying(toWorker[w], "REQUEST") :
             i \in DOMAIN toWorker[w] /\ toWorker[w][i].cmd \in Work
        /\ \A i \in Carrying(toBroker[w], "REPORT") :
             i \in DOMAIN toBroker[w] /\ toBroker[w][i].cmd \in Work
    BY DEF Carrying, Work
  <2>3. /\ Lacks(toWorker[w], Work) => RequestsOf(w) = {}
        /\ Lacks(toBroker[w], Work) => ReportsOf(w) = {}
    BY <2>2 DEF Lacks, RequestsOf, ReportsOf
  <2>4. \A k, l \in RequestsOf(w) : k = l
    BY <2>1, <2>2 DEF RequestsOf, Alone, AtMostOne
  <2>5. \A k, l \in ReportsOf(w) : k = l
    BY <2>1, <2>2 DEF ReportsOf, Alone, AtMostOne
  <2>6. \A k, l \in Outstanding(w) : k = l
    BY <2>1, <2>3, <2>4, <2>5 DEF Outstanding, InHand, Alone
  <2>7. CASE Outstanding(w) = {}
    BY <2>7, FS_EmptySet
  <2>8. CASE Outstanding(w) # {}
    <3>1. PICK l \in Outstanding(w) : TRUE
      BY <2>8
    <3>2. Outstanding(w) = {l}
      BY <2>6, <3>1
    <3> QED
      BY <3>2, FS_Singleton
  <2> QED
    BY <2>7, <2>8
<1> SUFFICES ASSUME HeartbeatLiveness > 2
             PROVE  Spec => []OneRequestOutstanding
  OBVIOUS
<1>2. Spec => [](TypeInv /\ IInv)
  BY WorkInvariance
<1> QED
  BY <1>1, <1>2, PTL

(* A letter that a worker is asked for, works on or has reported is, as    *)
(* long as it exists, assigned to this worker.                             *)
THEOREM WorkAssigned == HeartbeatLiveness > 2 => (Spec => []WorkIsAssigned)
<1>1. ASSUME TypeInv, IInv
      PROVE  WorkIsAssigned
  <2> SUFFICES ASSUME NEW w \in Workers, NEW l \in Outstanding(w) \cap DOMAIN broker.letter
               PROVE  /\ broker.letter[l].state = "ASSIGNED"
                      /\ broker.letter[l].worker = broker.worker[w].id
                      /\ broker.worker[w].letter = l
    BY DEF WorkIsAssigned
  <2>1. PICK x \in Pending(proc[w], toWorker[w], toBroker[w]) : x[1] = l
    BY OutstandingPending
  <2>2. WorkInv(broker, w, proc[w], toWorker[w], toBroker[w], stops, brokerStops)
        /\ P!BInv(broker)
    BY <1>1 DEF TypeInv, IInv
  <2>3. P!Known(broker, w) /\ broker.worker[w].letter = l
    BY <2>1, <2>2 DEF WorkInv
  <2>4. l # 0
    BY <2>2 DEF P!BInv, P!BrokerType
  <2> QED
    BY <2>2, <2>3, <2>4 DEF P!BInv, P!HolderHasLetter
<1> SUFFICES ASSUME HeartbeatLiveness > 2
             PROVE  Spec => []WorkIsAssigned
  OBVIOUS
<1>2. Spec => [](TypeInv /\ IInv)
  BY WorkInvariance
<1> QED
  BY <1>1, <1>2, PTL

(* The letter the broker releases for a report is the one that was         *)
(* reported, and the reply goes to the client that asked for it, although  *)
(* a report carries no id.                                                 *)
THEOREM ReportReleases == HeartbeatLiveness > 2 => (Spec => ReportReleasesItsLetter)
<1> DEFINE Reports(l) ==
             \E w \in Workers :
               /\ toBroker[w] # <<>>
               /\ toBroker'[w] = Tail(toBroker[w])
               /\ Head(toBroker[w]).cmd = "REPORT"
               /\ Head(toBroker[w]).letter = l
               /\ Head(toBroker[w]).client = broker.letter[l].client
<1>1. ASSUME TypeInv, IInv, [Next]_vars, NEW l \in DOMAIN broker.letter \ DOMAIN broker'.letter,
             brokerStops' = brokerStops
      PROVE  Reports(l)
  <2>1. ASSUME NEW w \in Workers, WorkerMsg(w)
        PROVE  Reports(l)
    <3> DEFINE m == Head(toBroker[w])
    <3>1. PICK N, R, M :
            /\ P!Outcome(P!Cleared, broker', N, R, M)
            /\ \/ ReadyTurn(w, broker', N, R, M)
               \/ m.cmd = "REPORT" /\ ReportTurn(w, broker', N, R, M)
               \/ QuietTurn(N, R, M)
      BY <1>1, <2>1, WorkerTurn
    <3>2. l \in R
      BY <1>1, <3>1, ClearedTables DEF P!Outcome
    <3>3. m.cmd = "REPORT" /\ P!Known(broker, w) /\ l \in P!LettersOf(broker, w)
      BY <3>1, <3>2 DEF ReadyTurn, ReportTurn, QuietTurn
    <3>4. /\ P!BInv(broker) /\ toBroker[w] \in Seq(Entry) /\ DOMAIN toBroker = Workers
          /\ WorkInv(broker, w, proc[w], toWorker[w], toBroker[w], stops, brokerStops)
      BY <1>1 DEF TypeInv, IInv
    <3>5. broker.worker[w].letter = l
      BY <3>3, <3>4, P!LettersOfWorker, Assumed
    <3>6. toBroker[w] # <<>> /\ toBroker'[w] = Tail(toBroker[w])
      BY <2>1, <3>4 DEF WorkerMsg
    <3>7. 1 \in Carrying(toBroker[w], "REPORT") /\ m = toBroker[w][1]
      BY <3>3, <3>4, <3>6 DEF Carrying
    <3>8. <<m.letter, m.client>> \in Pending(proc[w], toWorker[w], toBroker[w])
      BY <3>7 DEF Pending
    <3> HIDE DEF m
    <3>9. broker.worker[w].letter = m.letter /\ broker.letter[m.letter].client = m.client
      BY <3>3, <3>4, <3>8 DEF WorkInv
    <3> QED
      BY <3>3, <3>5, <3>6, <3>9 DEF m
  <2>2. CASE \/ \E c \in Clients, s \in Services, body \in Bodies : ClientMsg(c, s, body)
             \/ PollTimeout
    <3>1. PICK N, R, M : P!Outcome(P!Cleared, broker', N, R, M) /\ R = {}
      BY <1>1, <2>2, OtherTurn DEF QuietTurn
    <3> QED
      BY <1>1, <3>1, ClearedTables DEF P!Outcome
  <2>3. ASSUME NEW w \in Workers, Start(w) \/ Stop(w) \/ Crash(w) \/ Worker(w)
        PROVE  broker' = broker
    BY <2>3 DEF Start, Stop, Crash, Worker, ReceiveRequest, ReceiveDisconnect, HandleRequest,
       ReconnectOrPoll, SendHeartbeat
  <2>4. ~ BrokerRestart
    BY <1>1 DEF BrokerRestart, TypeInv
  <2>5. Tick => broker'.letter = broker.letter
    BY <1>1, TickTyped
  <2>6. UNCHANGED vars => broker' = broker
    BY DEF vars
  <2> QED
    BY <1>1, <2>1, <2>2, <2>3, <2>4, <2>5, <2>6 DEF Next
<1>2. TypeInv /\ IInv /\ [Next]_vars =>
        [\A l \in DOMAIN broker.letter \ DOMAIN broker'.letter :
           brokerStops' = brokerStops => Reports(l)]_vars
  BY <1>1
<1> SUFFICES ASSUME HeartbeatLiveness > 2
             PROVE  Spec => ReportReleasesItsLetter
  OBVIOUS
<1>3. Spec => [](TypeInv /\ IInv)
  BY WorkInvariance
<1> QED
  BY <1>2, <1>3, PTL DEF Spec, ReportReleasesItsLetter

=============================================================================
