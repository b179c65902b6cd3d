------------------------- MODULE SubscriptionProofs -------------------------
(***************************************************************************)
(* Type correctness of the subscription groups, SentOrMarked and           *)
(* NothingElseMissed, for any number of points, groups and clients.        *)
(*                                                                         *)
(* SentOrMarked is about marks that are clear; what makes it inductive is  *)
(* about the marks a round is going to clear.  A point that is marked and  *)
(* was not written since the groups were listed was marked when they were, *)
(* so each of its groups is still to be read, or being published, or its   *)
(* publication failed, or it was sent the value of now.                    *)
(*                                                                         *)
(* NothingElseMissed adds the two ways to a client, its PUB socket and the *)
(* reply with the initial values: what was sent last is under way to it or *)
(* is the newest it has got (SentIsGot), which takes that no value it has  *)
(* or will get is newer than the point (NoneAhead).                        *)
(***************************************************************************)
EXTENDS Subscription, TLAPS

(* The locals of the poller.                                               *)
RoundShape ==
  /\ poller.phase = "publish" <=> poller.current # NoGroup
  /\ poller.current \notin poller.todo
  /\ poller.phase \in {"off", "idle"} => poller.ready = {}

(* What is in the hands of the poller is the marked points of a group.     *)
BundleIsArmed ==
  poller.phase = "publish" =>
    /\ DOMAIN poller.bundle \subseteq group[poller.current].items
    /\ \A p \in DOMAIN poller.bundle :
         modified[p] /\ (poller.bundle[p] = version[p] \/ p \in ghost.during)
    /\ \A p \in group[poller.current].items :
         modified[p] => p \in DOMAIN poller.bundle \/ p \in ghost.during

(* A mark older than the round is on the way to each group of its point.   *)
RoundCovers ==
  poller.phase \in {"read", "publish"} =>
    \A g \in Groups : \A p \in group[g].items :
      modified[p] /\ p \notin ghost.during =>
        \/ g \in poller.todo
        \/ g = poller.current
        \/ g \in ghost.failed
        \/ ghost.sent[g][p] = version[p]

(* A mark to be cleared is one, and some group was sent the value.         *)
ReadyWasSent ==
  \A p \in poller.ready :
    /\ modified[p]
    /\ \/ p \in ghost.during
       \/ \E h \in Groups : p \in group[h].items /\ ghost.sent[h][p] = version[p]

(* No mark is cleared before the poller starts.                            *)
MarkedBeforeStart ==
  poller.phase = "off" => \A p \in Points : version[p] = 0 \/ modified[p]

GroupsCreated == \A g \in Groups : ~group[g].exists => group[g].items = {}

IInv ==
  /\ TypeOK
  /\ RoundShape
  /\ BundleIsArmed
  /\ RoundCovers
  /\ ReadyWasSent
  /\ MarkedBeforeStart
  /\ GroupsCreated
  /\ SentOrMarked

-----------------------------------------------------------------------------
(* Types.                                                                  *)

LEMMA BundleOf ==
  ASSUME NEW P, P \subseteq Points, NEW f \in [P -> Version]
  PROVE  f \in Bundle
BY DEF Bundle

LEMMA BundleParts ==
  ASSUME NEW b \in Bundle
  PROVE  DOMAIN b \subseteq Points /\ \A p \in DOMAIN b : b[p] \in Version
BY DEF Bundle

LEMMA NothingIsBundle == Nothing \in Bundle
<1>1. Nothing \in [{} -> Version]
  BY DEF Nothing
<1> QED
  BY <1>1 DEF Bundle

LEMMA ReadingsAreBundles ==
  ASSUME TypeOK, NEW g \in Groups
  PROVE  Armed(g) \in Bundle /\ \A s \in Snapshots(g) : s \in Bundle
<1>1. group[g].items \subseteq Points
  BY DEF TypeOK, Group
<1>2. ASSUME NEW P \in SUBSET group[g].items
      PROVE  [p \in P |-> version[p]] \in Bundle
  <2>1. P \subseteq Points
    BY <1>1
  <2>2. [p \in P |-> version[p]] \in [P -> Version]
    BY <2>1 DEF TypeOK
  <2> QED
    BY <2>1, <2>2, BundleOf
<1>3. ArmedPoints(g) \in SUBSET group[g].items
  BY DEF ArmedPoints
<1>4. Armed(g) \in Bundle
  BY <1>2, <1>3 DEF Armed
<1>5. \A s \in Snapshots(g) : s \in Bundle
  BY <1>2 DEF Snapshots
<1> QED
  BY <1>4, <1>5

LEMMA DisplayType ==
  ASSUME TypeOK, NEW c \in Clients, NEW b \in Bundle
  PROVE  /\ Display(c, b) => /\ client' \in [Clients -> Client]
                             /\ \A d \in Clients : /\ client'[d].phase = client[d].phase
                                                   /\ client'[d].want = client[d].want
         /\ Noted(c, b) \in [Clients -> [Points -> Version \cup {Unknown}]]
<1>1. \A p \in DOMAIN b : b[p] \in Version
  BY BundleParts
<1>2. [p \in Points |-> IF p \in DOMAIN b THEN b[p] ELSE client[c].shown[p]]
        \in [Points -> Version \cup {Unknown}]
  BY <1>1 DEF TypeOK, Client
<1>3. Display(c, b) => /\ client' \in [Clients -> Client]
                       /\ \A d \in Clients : /\ client'[d].phase = client[d].phase
                                             /\ client'[d].want = client[d].want
  <2> DEFINE F == [p \in Points |-> IF p \in DOMAIN b THEN b[p] ELSE client[c].shown[p]]
  <2>1. ASSUME Display(c, b)
        PROVE  client' = [client EXCEPT ![c] = [client[c] EXCEPT !.shown = F]]
    BY <2>1 DEF Display
  <2>2. F \in [Points -> Version \cup {Unknown}]
    BY <1>2
  <2> HIDE DEF F
  <2>3. LET x == [client[c] EXCEPT !.shown = F]
        IN  x \in Client /\ x.phase = client[c].phase /\ x.want = client[c].want
    BY <2>2 DEF TypeOK, Client
  <2> QED
    BY <2>1, <2>3 DEF TypeOK
<1>4. [p \in Points |-> IF p \in DOMAIN b THEN Later(b[p], ghost.newest[c][p])
                                          ELSE ghost.newest[c][p]]
        \in [Points -> Version \cup {Unknown}]
  BY <1>1 DEF TypeOK, Ghost, Later
<1>5. Noted(c, b) \in [Clients -> [Points -> Version \cup {Unknown}]]
  BY <1>4 DEF TypeOK, Ghost, Noted
<1> QED
  BY <1>3, <1>5

LEMMA InitType == Init => TypeOK
<1> SUFFICES ASSUME Init PROVE TypeOK
  OBVIOUS
<1>1. Unseen \in [Points -> Version \cup {Unknown}]
  BY DEF Unseen
<1>2. version \in [Points -> Version] /\ failures \in 0 .. MaxFailures
  BY SubscriptionAssumption DEF Init, Version
<1>3. poller \in Poller
  BY NothingIsBundle DEF Init, Poller
<1>4. client \in [Clients -> Client]
  BY <1>1, NothingIsBundle DEF Init, Client
<1>5. ghost \in Ghost
  BY <1>1 DEF Init, Ghost
<1>6. group \in [Groups -> Group]
  BY DEF Init, Group, NotCreated
<1>7. news \in [Clients -> Seq(Bundle)] /\ reply \in [Clients -> Seq(Bundle)]
  BY DEF Init
<1>8. modified \in [Points -> BOOLEAN]
  BY DEF Init
<1>9. /\ poller.phase = "publish" => poller.current \in Groups
      /\ \A c \in Clients : client[c].phase # "new" => client[c].want \in Groups
  BY DEF Init
<1> QED
  BY <1>2, <1>3, <1>4, <1>5, <1>6, <1>7, <1>8, <1>9 DEF TypeOK

LEMMA LoadingType == TypeOK /\ Loading => TypeOK'
<1> SUFFICES ASSUME TypeOK, NEW g \in Groups
             PROVE  /\ \A tags \in SUBSET (Points \cup UnknownTags) :
                         CreateGroup(g, tags) => TypeOK'
                    /\ DeleteGroup(g) => TypeOK'
  BY DEF Loading
<1>1. ASSUME NEW tags \in SUBSET (Points \cup UnknownTags), CreateGroup(g, tags)
      PROVE  TypeOK'
  <2>1. PICK found \in SUBSET (tags \cap Points) :
          group' = [group EXCEPT ![g] =
            [exists |-> TRUE, items |-> found, orphan |-> ~(tags \subseteq Points)]]
    BY <1>1 DEF CreateGroup
  <2>2. group' \in [Groups -> Group]
    BY <2>1 DEF TypeOK, Group
  <2>3. ghost' \in Ghost
    BY <1>1 DEF TypeOK, Ghost, CreateGroup
  <2> QED
    BY <1>1, <2>2, <2>3 DEF TypeOK, CreateGroup
<1>2. ASSUME DeleteGroup(g) PROVE TypeOK'
  <2>1. group' \in [Groups -> Group]
    BY <1>2 DEF TypeOK, Group, NotCreated, DeleteGroup
  <2>2. ghost' \in Ghost
    BY <1>2 DEF TypeOK, Ghost, DeleteGroup
  <2> QED
    BY <1>2, <2>1, <2>2 DEF TypeOK, DeleteGroup
<1> QED
  BY <1>1, <1>2

LEMMA WriteType ==
  ASSUME TypeOK, NEW p \in Points, Write(p)
  PROVE  TypeOK'
<1>1. version' \in [Points -> Version]
  <2>1. version[p] \in 0 .. MaxVersion /\ WriteLimit[p] \in 0 .. MaxVersion
    BY SubscriptionAssumption DEF TypeOK, Version
  <2>2. version[p] + 1 \in 0 .. MaxVersion
    BY <2>1, SubscriptionAssumption DEF Write
  <2> QED
    BY <2>2 DEF TypeOK, Write, Version
<1>2. modified' \in [Points -> BOOLEAN]
  BY DEF TypeOK, Write, Marked
<1>3. ghost' \in Ghost
  BY DEF TypeOK, Write, Ghost
<1> QED
  BY <1>1, <1>2, <1>3 DEF TypeOK, Write

LEMMA PublishType ==
  ASSUME TypeOK, NEW ok \in BOOLEAN, Publish(ok)
  PROVE  TypeOK'
<1> DEFINE g == poller.current
           b == poller.bundle
<1>1. b \in Bundle /\ DOMAIN b \subseteq Points /\ \A p \in DOMAIN b : b[p] \in Version
  BY BundleParts DEF TypeOK, Poller
<1>2. poller' \in Poller
  BY <1>1, NothingIsBundle DEF TypeOK, Poller, Publish, Published
<1>3. g \in Groups /\ poller'.phase = "read"
  BY DEF TypeOK, Poller, Publish
<1> HIDE DEF g, b
<1>4. CASE ok
  <2>1. /\ news' = [c \in Clients |-> IF c \in Listeners(g) THEN Append(news[c], b) ELSE news[c]]
        /\ ghost' = [ghost EXCEPT
              !.sent[g] = [p \in Points |-> IF p \in DOMAIN b THEN b[p] ELSE @[p]],
              !.excused = @ \ ({g} \X DOMAIN b)]
        /\ UNCHANGED <<version, modified, group, client, reply, failures>>
    BY <1>4 DEF Publish, g, b
  <2>2. news' \in [Clients -> Seq(Bundle)]
    <3>1. \A c \in Clients : Append(news[c], b) \in Seq(Bundle) /\ news[c] \in Seq(Bundle)
      BY <1>1 DEF TypeOK
    <3> QED
      BY <2>1, <3>1
  <2>3. ghost' \in Ghost
    <3> DEFINE S == [p \in Points |-> IF p \in DOMAIN b THEN b[p] ELSE ghost.sent[g][p]]
    <3>1. S \in [Points -> Version \cup {Unknown}]
      BY <1>1, <1>3 DEF TypeOK, Ghost
    <3>2. ghost' = [ghost EXCEPT !.sent = [ghost.sent EXCEPT ![g] = S],
                                 !.excused = ghost.excused \ ({g} \X DOMAIN b)]
      BY <2>1 DEF TypeOK, Ghost
    <3> HIDE DEF S
    <3> QED
      BY <3>1, <3>2 DEF TypeOK, Ghost
  <2> QED
    BY <1>2, <1>3, <2>1, <2>2, <2>3 DEF TypeOK
<1>5. CASE ~ok
  <2>1. /\ failures < MaxFailures /\ failures' = failures + 1
        /\ ghost' = [ghost EXCEPT !.failed = @ \cup {g}]
        /\ UNCHANGED <<version, modified, group, client, news, reply>>
    BY <1>5 DEF Publish, g
  <2>2. failures' \in 0 .. MaxFailures
    BY <2>1, SubscriptionAssumption DEF TypeOK
  <2>3. ghost' \in Ghost
    BY <1>3, <2>1 DEF TypeOK, Ghost
  <2> QED
    BY <1>2, <1>3, <2>1, <2>2, <2>3 DEF TypeOK
<1> QED
  BY <1>4, <1>5

LEMMA PollerType ==
  ASSUME TypeOK, PollerStep
  PROVE  TypeOK'
<1>1. ASSUME ListArmed PROVE TypeOK'
  <2>1. poller' \in Poller
    BY <1>1 DEF TypeOK, Poller, ListArmed, ArmedGroups
  <2>2. ghost' \in Ghost
    BY <1>1 DEF TypeOK, Ghost, ListArmed
  <2> QED
    BY <1>1, <2>1, <2>2 DEF TypeOK, ListArmed
<1>2. ASSUME NEW g \in Groups, ReadArmed(g) PROVE TypeOK'
  <2>1. poller' \in Poller
    BY <1>2, ReadingsAreBundles DEF TypeOK, Poller, ReadArmed
  <2> QED
    BY <1>2, <2>1 DEF TypeOK, ReadArmed
<1>3. ASSUME NEW ok \in BOOLEAN, Publish(ok) PROVE TypeOK'
  BY <1>3, PublishType
<1>4. ASSUME Disarm PROVE TypeOK'
  <2>1. poller' \in Poller
    BY <1>4 DEF TypeOK, Poller, Disarm
  <2>2. modified' \in [Points -> BOOLEAN]
    BY <1>4 DEF TypeOK, Disarm, Disarmed
  <2>3. Excuses \subseteq Groups \X Points
    BY DEF TypeOK, Poller, Excuses
  <2>4. ghost' \in Ghost
    BY <1>4, <2>3 DEF TypeOK, Ghost, Disarm
  <2> QED
    BY <1>4, <2>1, <2>2, <2>4 DEF TypeOK, Disarm
<1> QED
  BY <1>1, <1>2, <1>3, <1>4 DEF PollerStep

LEMMA ClientType ==
  ASSUME TypeOK, NEW c \in Clients,
         \/ \E g \in Groups : Subscript(c, g)
         \/ Attach(c) \/ Ask(c) \/ GiveUp(c) \/ Abort(c)
         \/ ServerStep(c) \/ ClientStep(c)
  PROVE  TypeOK'
<1>1. ASSUME NEW g \in Groups, Subscript(c, g) PROVE TypeOK'
  <2> DEFINE x == [client[c] EXCEPT !.phase = "connecting", !.want = g]
  <2>1. x \in Client /\ x.want = g
    BY DEF TypeOK, Client
  <2>2. client' = [client EXCEPT ![c] = x]
    BY <1>1 DEF Subscript
  <2> HIDE DEF x
  <2>3. /\ client' \in [Clients -> Client]
        /\ \A d \in Clients : client'[d].phase # "new" => client'[d].want \in Groups
    BY <2>1, <2>2 DEF TypeOK
  <2> QED
    BY <1>1, <2>3 DEF TypeOK, Subscript
<1>2. ASSUME Attach(c) PROVE TypeOK'
  BY <1>2 DEF TypeOK, Client, Attach
<1>3. ASSUME Ask(c) PROVE TypeOK'
  BY <1>3 DEF TypeOK, Client, Ask
<1>4. ASSUME GiveUp(c) \/ Abort(c) PROVE TypeOK'
  <2>1. PICK phase \in {"exited", "aborted"} : Leave(c, phase) /\ client[c].phase = "connecting"
    BY <1>4 DEF GiveUp, Abort
  <2> DEFINE x == [client[c] EXCEPT !.phase = phase, !.attached = FALSE]
  <2>2. /\ client' \in [Clients -> Client]
        /\ \A d \in Clients : client'[d].phase # "new" => client'[d].want \in Groups
    <3>1. x \in Client /\ x.want = client[c].want /\ client[c].want \in Groups
      BY <2>1 DEF TypeOK, Client
    <3>2. client' = [client EXCEPT ![c] = x]
      BY <2>1 DEF TypeOK, Leave
    <3> HIDE DEF x
    <3> QED
      BY <3>1, <3>2 DEF TypeOK
  <2>3. news' \in [Clients -> Seq(Bundle)]
    BY <2>1 DEF TypeOK, Leave
  <2> QED
    BY <2>1, <2>2, <2>3 DEF TypeOK, Leave
<1>5. ASSUME ServeRead(c) PROVE TypeOK'
  <2> DEFINE g == client[c].want
  <2>1. g \in Groups
    BY <1>5 DEF TypeOK, ServeRead
  <2>2. PICK x \in Client :
          /\ client' = [client EXCEPT ![c] = x]
          /\ x.phase # "new" /\ x.want = g
    <3>1. CASE group[g].exists
      <4>1. PICK s \in Snapshots(g) :
              client' = [client EXCEPT ![c].phase = "served", ![c].snapshot = s]
        BY <1>5, <3>1 DEF ServeRead
      <4>2. s \in Bundle
        BY <2>1, ReadingsAreBundles
      <4>3. [client[c] EXCEPT !.phase = "served", !.snapshot = s] \in Client
        BY <4>2 DEF TypeOK, Client
      <4> QED
        BY <4>1, <4>3 DEF TypeOK, Client
    <3>2. CASE ~group[g].exists
      <4>1. client' = [client EXCEPT ![c].phase = "answered"]
        BY <1>5, <3>2 DEF ServeRead
      <4>2. [client[c] EXCEPT !.phase = "answered"] \in Client
        BY DEF TypeOK, Client
      <4> QED
        BY <4>1, <4>2 DEF TypeOK, Client
    <3> QED
      BY <3>1, <3>2
  <2>3. ghost' \in Ghost
    BY <1>5 DEF TypeOK, Ghost, ServeRead
  <2> QED
    BY <1>5, <2>1, <2>2, <2>3 DEF TypeOK, ServeRead
<1>6. ASSUME NEW ok \in BOOLEAN, ServeReply(c, ok) PROVE TypeOK'
  <2>1. client' \in [Clients -> Client]
    <3> DEFINE x == [client[c] EXCEPT !.phase = "answered", !.snapshot = Nothing]
    <3>1. x \in Client
      BY NothingIsBundle DEF TypeOK, Client
    <3>2. client' = [client EXCEPT ![c] = x]
      BY <1>6 DEF ServeReply
    <3> HIDE DEF x
    <3> QED
      BY <3>1, <3>2 DEF TypeOK
  <2>2. client[c].snapshot \in Bundle
    BY DEF TypeOK, Client
  <2>3. reply' \in [Clients -> Seq(Bundle)]
    <3>1. Append(reply[c], client[c].snapshot) \in Seq(Bundle)
      BY <2>2 DEF TypeOK
    <3> QED
      BY <1>6, <3>1 DEF TypeOK, ServeReply
  <2>4. failures' \in 0 .. MaxFailures
    BY <1>6, SubscriptionAssumption DEF TypeOK, ServeReply
  <2> QED
    BY <1>6, <2>1, <2>3, <2>4 DEF TypeOK, ServeReply
<1>7. ASSUME ReceiveUpdate(c) PROVE TypeOK'
  <2>1. Head(news[c]) \in Bundle /\ Tail(news[c]) \in Seq(Bundle)
    BY <1>7 DEF TypeOK, ReceiveUpdate
  <2>2. /\ client' \in [Clients -> Client]
        /\ \A d \in Clients : client'[d].phase # "new" => client'[d].want \in Groups
    BY <1>7, <2>1, DisplayType DEF TypeOK, ReceiveUpdate
  <2>3. ghost' \in Ghost
    BY <1>7, <2>1, DisplayType DEF TypeOK, Ghost, ReceiveUpdate
  <2> QED
    BY <1>7, <2>1, <2>2, <2>3 DEF TypeOK, ReceiveUpdate
<1>8. ASSUME ReceiveReply(c) PROVE TypeOK'
  <2>1. Head(reply[c]) \in Bundle /\ Tail(reply[c]) \in Seq(Bundle)
    BY <1>8 DEF TypeOK, ReceiveReply
  <2>2. /\ client' \in [Clients -> Client]
        /\ \A d \in Clients : client'[d].phase # "new" => client'[d].want \in Groups
    BY <1>8, <2>1, DisplayType DEF TypeOK, ReceiveReply
  <2>3. ghost' \in Ghost
    BY <1>8, <2>1, DisplayType DEF TypeOK, Ghost, ReceiveReply
  <2> QED
    BY <1>8, <2>1, <2>2, <2>3 DEF TypeOK, ReceiveReply
<1> QED
  BY <1>1, <1>2, <1>3, <1>4, <1>5, <1>6, <1>7, <1>8 DEF ServerStep, ClientStep

LEMMA NextType == TypeOK /\ [Next]_vars => TypeOK'
<1> SUFFICES ASSUME TypeOK, [Next]_vars PROVE TypeOK'
  OBVIOUS
<1>1. CASE Loading
  BY <1>1, LoadingType
<1>2. CASE \E p \in Points : Write(p)
  BY <1>2, WriteType
<1>3. CASE StartPoller
  BY <1>3 DEF TypeOK, Poller, StartPoller
<1>4. CASE PollerStep
  BY <1>4, PollerType
<1>5. ASSUME NEW c \in Clients,
             \/ \E g \in Groups : Subscript(c, g)
             \/ Attach(c) \/ Ask(c) \/ GiveUp(c) \/ Abort(c)
             \/ ServerStep(c) \/ ClientStep(c)
      PROVE  TypeOK'
  BY <1>5, ClientType
<1>6. CASE UNCHANGED vars
  BY <1>6 DEF TypeOK, vars
<1> QED
  BY <1>1, <1>2, <1>3, <1>4, <1>5, <1>6 DEF Next

(* The state of the groups, the poller and the clients has the type that   *)
(* the module declares, whatever the constants.                            *)
THEOREM TypeCorrect == Spec => []TypeOK
  BY InitType, NextType, PTL DEF Spec

-----------------------------------------------------------------------------
(* Marks and publications.  Two kinds of steps leave them alone: those of  *)
(* clients, and those that change nothing.                                 *)

LEMMA ElsewhereKeeps ==
  ASSUME IInv, TypeOK',
         UNCHANGED <<version, modified, group, poller>>,
         ghost'.sent = ghost.sent, ghost'.during = ghost.during,
         ghost'.failed = ghost.failed, ghost'.excused = ghost.excused
  PROVE  IInv'
BY DEF IInv, RoundShape, BundleIsArmed, RoundCovers, ReadyWasSent, MarkedBeforeStart,
   GroupsCreated, SentOrMarked

LEMMA ClientKeeps ==
  ASSUME IInv, TypeOK', NEW c \in Clients,
         \/ \E g \in Groups : Subscript(c, g)
         \/ Attach(c) \/ Ask(c) \/ GiveUp(c) \/ Abort(c)
         \/ ServerStep(c) \/ ClientStep(c)
  PROVE  IInv'
<1>1. /\ UNCHANGED <<version, modified, group, poller>>
      /\ ghost'.sent = ghost.sent /\ ghost'.during = ghost.during
      /\ ghost'.failed = ghost.failed /\ ghost'.excused = ghost.excused
  <2>1. ghost \in Ghost
    BY DEF IInv, TypeOK
  <2>2. CASE ServerStep(c)
    BY <2>1, <2>2 DEF Ghost, ServerStep, ServeRead, ServeReply
  <2>3. CASE ClientStep(c)
    BY <2>1, <2>3 DEF Ghost, ClientStep, ReceiveUpdate, ReceiveReply
  <2>4. CASE \/ \E g \in Groups : Subscript(c, g)
             \/ Attach(c) \/ Ask(c) \/ GiveUp(c) \/ Abort(c)
    BY <2>4 DEF Subscript, Attach, Ask, GiveUp, Abort, Leave
  <2> QED
    BY <2>2, <2>3, <2>4
<1> QED
  BY <1>1, ElsewhereKeeps

(* Groups are made and deleted while the poller is off: every point        *)
(* written so far is marked, whichever group it comes to be in.            *)
LEMMA LoadingKeeps ==
  ASSUME IInv, TypeOK', Loading
  PROVE  IInv'
<1>1. /\ poller.phase = "off"
      /\ UNCHANGED <<version, modified, poller>>
      /\ ghost'.sent = ghost.sent /\ ghost'.during = ghost.during
      /\ ghost'.failed = ghost.failed /\ ghost'.excused = ghost.excused
      /\ \A g \in Groups : ~group'[g].exists => group'[g].items = {}
  <2>1. ASSUME NEW g \in Groups, NEW tags \in SUBSET (Points \cup UnknownTags),
               CreateGroup(g, tags), NEW h \in Groups, ~group'[h].exists
        PROVE  group'[h].items = {}
    <3>1. PICK found \in SUBSET (tags \cap Points) :
            group' = [group EXCEPT ![g] =
              [exists |-> TRUE, items |-> found, orphan |-> ~(tags \subseteq Points)]]
      BY <2>1 DEF CreateGroup
    <3> QED
      BY <2>1, <3>1 DEF IInv, TypeOK, GroupsCreated
  <2>2. ASSUME NEW g \in Groups, DeleteGroup(g), NEW h \in Groups, ~group'[h].exists
        PROVE  group'[h].items = {}
    BY <2>2 DEF IInv, TypeOK, GroupsCreated, DeleteGroup, NotCreated
  <2>4. \A h \in Groups : ~group'[h].exists => group'[h].items = {}
    BY <2>1, <2>2 DEF Loading
  <2>5. /\ poller.phase = "off"
        /\ UNCHANGED <<version, modified, poller>>
        /\ ghost'.sent = ghost.sent /\ ghost'.during = ghost.during
        /\ ghost'.failed = ghost.failed /\ ghost'.excused = ghost.excused
    BY DEF IInv, TypeOK, Ghost, Loading, CreateGroup, DeleteGroup
  <2> QED
    BY <2>4, <2>5
<1>2. group' \in [Groups -> Group]
  BY DEF TypeOK
<1>3. RoundShape' /\ BundleIsArmed' /\ RoundCovers' /\ MarkedBeforeStart' /\ GroupsCreated'
  BY <1>1 DEF IInv, RoundShape, BundleIsArmed, RoundCovers, MarkedBeforeStart, GroupsCreated
<1>4. ReadyWasSent'
  BY <1>1 DEF IInv, RoundShape, ReadyWasSent
<1>5. SentOrMarked'
  BY <1>1, <1>2 DEF IInv, MarkedBeforeStart, SentOrMarked, Group
<1> QED
  BY <1>3, <1>4, <1>5 DEF IInv

(* A point that is written is marked, and written during the round.        *)
LEMMA WriteKeeps ==
  ASSUME IInv, TypeOK', NEW p \in Points, Write(p)
  PROVE  IInv'
<1>1. /\ UNCHANGED <<group, poller>>
      /\ \A q \in Points : modified'[q] <=> modified[q] \/ q = p
      /\ \A q \in Points : q # p => version'[q] = version[q]
      /\ ghost'.during = ghost.during \cup {p}
      /\ ghost'.sent = ghost.sent
      /\ ghost'.failed = ghost.failed /\ ghost'.excused = ghost.excused
  BY DEF IInv, TypeOK, Ghost, Write, Marked
<1>2. /\ \A g \in Groups : group[g].items \subseteq Points
      /\ poller.ready \subseteq Points
      /\ DOMAIN poller.bundle \subseteq Points
      /\ poller.phase = "publish" => poller.current \in Groups
  BY BundleParts DEF IInv, TypeOK, Group, Poller
<1>3. RoundShape' /\ MarkedBeforeStart' /\ GroupsCreated'
  BY <1>1 DEF IInv, RoundShape, MarkedBeforeStart, GroupsCreated
<1>4. BundleIsArmed'
  BY <1>1, <1>2 DEF IInv, BundleIsArmed
<1>5. RoundCovers'
  BY <1>1, <1>2 DEF IInv, RoundCovers
<1>6. ReadyWasSent'
  BY <1>1, <1>2 DEF IInv, ReadyWasSent
<1>7. SentOrMarked'
  BY <1>1, <1>2 DEF IInv, SentOrMarked
<1> QED
  BY <1>3, <1>4, <1>5, <1>6, <1>7 DEF IInv

(* Every group with a marked point is listed.                              *)
LEMMA ListArmedKeeps ==
  ASSUME IInv, TypeOK', ListArmed
  PROVE  IInv'
<1>1. /\ UNCHANGED <<version, modified, group>>
      /\ poller'.phase = "read" /\ poller'.todo = ArmedGroups /\ poller'.ready = {}
      /\ poller'.current = poller.current /\ poller'.bundle = poller.bundle
      /\ poller.phase = "idle"
      /\ ghost'.during = {} /\ ghost'.failed = {}
      /\ ghost'.sent = ghost.sent /\ ghost'.excused = ghost.excused
  BY DEF IInv, TypeOK, Poller, Ghost, ListArmed
<1>2. poller.current = NoGroup
  BY <1>1 DEF IInv, RoundShape
<1>3. RoundShape'
  BY <1>1, <1>2, SubscriptionAssumption DEF RoundShape, ArmedGroups
<1>4. RoundCovers'
  BY <1>1 DEF IInv, RoundCovers, ArmedGroups, ArmedPoints, GroupsCreated
<1>5. BundleIsArmed' /\ ReadyWasSent' /\ MarkedBeforeStart' /\ GroupsCreated' /\ SentOrMarked'
  BY <1>1 DEF IInv, BundleIsArmed, ReadyWasSent, MarkedBeforeStart, GroupsCreated, SentOrMarked
<1> QED
  BY <1>3, <1>4, <1>5 DEF IInv

(* What is read is what is marked, with the values of now.                 *)
LEMMA ReadArmedKeeps ==
  ASSUME IInv, TypeOK', NEW g \in Groups, ReadArmed(g)
  PROVE  IInv'
<1>1. /\ UNCHANGED <<version, modified, group, ghost>>
      /\ poller'.phase = "publish" /\ poller'.todo = poller.todo \ {g}
      /\ poller'.current = g /\ poller'.bundle = Armed(g)
      /\ poller'.ready = poller.ready
      /\ poller.phase = "read" /\ poller.current = NoGroup
  BY DEF IInv, TypeOK, Poller, RoundShape, ReadArmed
<1>2. RoundShape'
  BY <1>1, SubscriptionAssumption DEF RoundShape
<1>3. BundleIsArmed'
  BY <1>1 DEF BundleIsArmed, Armed, ArmedPoints
<1>4. RoundCovers'
  BY <1>1, SubscriptionAssumption DEF IInv, RoundCovers
<1>5. ReadyWasSent' /\ MarkedBeforeStart' /\ GroupsCreated' /\ SentOrMarked'
  BY <1>1 DEF IInv, ReadyWasSent, MarkedBeforeStart, GroupsCreated, SentOrMarked
<1> QED
  BY <1>2, <1>3, <1>4, <1>5 DEF IInv

(* A publication that fails is noted; what it held stays marked.           *)
LEMMA PublishFailedKeeps ==
  ASSUME IInv, TypeOK', Publish(FALSE)
  PROVE  IInv'
<1>1. /\ UNCHANGED <<version, modified, group>>
      /\ poller.phase = "publish" /\ poller'.phase = "read"
      /\ poller'.todo = poller.todo /\ poller'.current = NoGroup
      /\ poller'.ready = poller.ready
      /\ ghost'.failed = ghost.failed \cup {poller.current}
      /\ ghost'.during = ghost.during
      /\ ghost'.sent = ghost.sent /\ ghost'.excused = ghost.excused
  BY DEF IInv, TypeOK, Poller, Ghost, Publish, Published
<1>2. NoGroup \notin poller.todo
  BY SubscriptionAssumption DEF IInv, TypeOK, Poller
<1>3. RoundShape' /\ BundleIsArmed' /\ MarkedBeforeStart' /\ GroupsCreated'
  BY <1>1, <1>2 DEF IInv, RoundShape, BundleIsArmed, MarkedBeforeStart, GroupsCreated
<1>4. RoundCovers'
  BY <1>1 DEF IInv, RoundCovers
<1>5. ReadyWasSent' /\ SentOrMarked'
  BY <1>1 DEF IInv, ReadyWasSent, SentOrMarked
<1> QED
  BY <1>3, <1>4, <1>5 DEF IInv

(* A publication sends each of its points, with the value of now unless it *)
(* was written since; no value sent to another group changes.              *)
LEMMA PublishedKeeps ==
  ASSUME IInv, TypeOK', Publish(TRUE)
  PROVE  IInv'
<1> DEFINE g == poller.current
           b == poller.bundle
<1>1. /\ UNCHANGED <<version, modified, group>>
      /\ poller.phase = "publish" /\ poller'.phase = "read"
      /\ poller'.todo = poller.todo /\ poller'.current = NoGroup
      /\ poller'.ready = poller.ready \cup DOMAIN b
      /\ ghost'.failed = ghost.failed /\ ghost'.during = ghost.during
      /\ ghost'.excused = ghost.excused \ ({g} \X DOMAIN b)
  BY DEF IInv, TypeOK, Poller, Ghost, Publish, Published
<1>2. g \in Groups /\ DOMAIN b \subseteq Points
  BY <1>1, BundleParts DEF IInv, TypeOK, Poller
<1>3. /\ \A h \in Groups : h # g => ghost'.sent[h] = ghost.sent[h]
      /\ \A p \in Points : ghost'.sent[g][p] = IF p \in DOMAIN b THEN b[p] ELSE ghost.sent[g][p]
  <2> DEFINE S == [p \in Points |-> IF p \in DOMAIN b THEN b[p] ELSE ghost.sent[g][p]]
  <2>1. ghost'.sent = [ghost.sent EXCEPT ![g] = S]
    BY DEF IInv, TypeOK, Ghost, Publish
  <2> QED
    BY <1>2, <2>1 DEF IInv, TypeOK, Ghost
<1>4. /\ DOMAIN b \subseteq group[g].items
      /\ \A p \in DOMAIN b : modified[p] /\ (b[p] = version[p] \/ p \in ghost.during)
      /\ \A p \in group[g].items : modified[p] => p \in DOMAIN b \/ p \in ghost.during
  BY <1>1 DEF IInv, BundleIsArmed
<1>5. \A h \in Groups : group[h].items \subseteq Points
  BY DEF IInv, TypeOK, Group
<1>6. NoGroup \notin poller.todo /\ poller.ready \subseteq Points
  BY SubscriptionAssumption DEF IInv, TypeOK, Poller
<1> HIDE DEF g, b
<1>7. RoundShape' /\ BundleIsArmed' /\ MarkedBeforeStart' /\ GroupsCreated'
  BY <1>1, <1>6 DEF IInv, RoundShape, BundleIsArmed, MarkedBeforeStart, GroupsCreated
<1>8. RoundCovers'
  BY <1>1, <1>2, <1>3, <1>4, <1>5 DEF IInv, RoundCovers, g
<1>9. ReadyWasSent'
  <2> SUFFICES ASSUME NEW p \in poller'.ready, p \notin ghost.during
               PROVE  /\ modified[p]
                      /\ \E h \in Groups : p \in group[h].items /\ ghost'.sent[h][p] = version[p]
    BY <1>1, <1>4 DEF IInv, ReadyWasSent
  <2>1. CASE p \in DOMAIN b
    BY <2>1, <1>2, <1>3, <1>4
  <2>2. CASE p \notin DOMAIN b
    <3>1. PICK h \in Groups : p \in group[h].items /\ ghost.sent[h][p] = version[p]
      BY <1>1, <2>2 DEF IInv, ReadyWasSent
    <3>2. ghost'.sent[h][p] = version[p]
      BY <1>3, <1>5, <2>2, <3>1
    <3>3. modified[p]
      BY <1>1, <2>2 DEF IInv, ReadyWasSent
    <3> QED
      BY <3>1, <3>2, <3>3
  <2> QED
    BY <2>1, <2>2
<1>10. SentOrMarked'
  <2> SUFFICES ASSUME NEW h \in Groups, NEW p \in group[h].items, ~modified[p],
                      version[p] # 0, <<h, p>> \notin ghost'.excused
               PROVE  ghost'.sent[h][p] = version[p]
    BY <1>1 DEF SentOrMarked
  <2>1. p \notin DOMAIN b /\ p \in Points
    BY <1>4, <1>5
  <2>2. ghost'.sent[h][p] = ghost.sent[h][p]
    BY <1>3, <2>1
  <2>3. <<h, p>> \notin ghost.excused
    BY <1>1, <2>1
  <2> QED
    BY <2>2, <2>3 DEF IInv, SentOrMarked
<1> QED
  BY <1>7, <1>8, <1>9, <1>10 DEF IInv

(* A mark that is cleared is that of a point sent to all its groups, or    *)
(* the pair is excused.                                                    *)
LEMMA DisarmKeeps ==
  ASSUME IInv, TypeOK', Disarm
  PROVE  IInv'
<1>1. /\ UNCHANGED <<version, group>>
      /\ poller.phase = "read" /\ poller.todo = {} /\ poller.current = NoGroup
      /\ poller'.phase = "idle" /\ poller'.ready = {}
      /\ poller'.todo = poller.todo /\ poller'.current = poller.current
      /\ \A p \in Points : modified'[p] <=> modified[p] /\ p \notin poller.ready
      /\ ghost'.excused = ghost.excused \cup Excuses
      /\ ghost'.sent = ghost.sent
  BY DEF IInv, TypeOK, Poller, Ghost, RoundShape, Disarm, Disarmed
<1>2. \A g \in Groups : group[g].items \subseteq Points
  BY DEF IInv, TypeOK, Group
<1>3. /\ RoundShape' /\ BundleIsArmed' /\ RoundCovers' /\ ReadyWasSent'
      /\ MarkedBeforeStart' /\ GroupsCreated'
  BY <1>1, SubscriptionAssumption DEF IInv, RoundShape, BundleIsArmed, RoundCovers,
     ReadyWasSent, MarkedBeforeStart, GroupsCreated
<1>4. SentOrMarked'
  <2> SUFFICES ASSUME NEW g \in Groups, NEW p \in group[g].items, ~modified'[p],
                      version[p] # 0, <<g, p>> \notin ghost'.excused
               PROVE  ghost.sent[g][p] = version[p]
    BY <1>1 DEF SentOrMarked
  <2>1. p \in Points /\ <<g, p>> \notin ghost.excused /\ <<g, p>> \notin Excuses
    BY <1>1, <1>2
  <2>2. CASE ~modified[p]
    BY <2>1, <2>2 DEF IInv, SentOrMarked
  <2>3. CASE modified[p]
    <3>1. p \in poller.ready
      BY <1>1, <2>1, <2>3
    <3>2. /\ p \notin ghost.during
          /\ ~ (/\ g \in ghost.failed
                /\ \E h \in Groups \ {g} : p \in group[h].items /\ ghost.sent[h][p] = version[p])
      BY <2>1, <3>1 DEF Excuses
    <3>3. g \in ghost.failed \/ ghost.sent[g][p] = version[p]
      BY <1>1, <2>3, <3>2, SubscriptionAssumption DEF IInv, RoundCovers
    <3>4. \E h \in Groups : p \in group[h].items /\ ghost.sent[h][p] = version[p]
      BY <3>1, <3>2 DEF IInv, ReadyWasSent
    <3> QED
      BY <3>2, <3>3, <3>4
  <2> QED
    BY <2>2, <2>3
<1> QED
  BY <1>3, <1>4 DEF IInv

LEMMA InitInv == Init => IInv
<1> SUFFICES ASSUME Init PROVE IInv
  OBVIOUS
<1>1. TypeOK
  BY InitType
<1> QED
  BY <1>1 DEF Init, IInv, RoundShape, BundleIsArmed, RoundCovers, ReadyWasSent,
     MarkedBeforeStart, GroupsCreated, SentOrMarked, NotCreated

LEMMA NextInv == IInv /\ [Next]_vars => IInv'
<1> SUFFICES ASSUME IInv, [Next]_vars PROVE IInv'
  OBVIOUS
<1>1. TypeOK'
  BY NextType DEF IInv
<1>2. CASE Loading
  BY <1>1, <1>2, LoadingKeeps
<1>3. CASE \E p \in Points : Write(p)
  BY <1>1, <1>3, WriteKeeps
<1>4. CASE StartPoller
  <2>1. /\ UNCHANGED <<version, modified, group, ghost>>
        /\ poller.phase = "off" /\ poller' = [poller EXCEPT !.phase = "idle"]
    BY <1>4 DEF StartPoller
  <2>2. /\ poller'.phase = "idle" /\ poller'.todo = poller.todo
        /\ poller'.current = poller.current /\ poller'.ready = poller.ready
    BY <2>1 DEF IInv, TypeOK, Poller
  <2> QED
    BY <1>1, <2>1, <2>2 DEF IInv, RoundShape, BundleIsArmed, RoundCovers, ReadyWasSent,
       MarkedBeforeStart, GroupsCreated, SentOrMarked
<1>5. CASE PollerStep
  <2>1. CASE ListArmed
    BY <1>1, <2>1, ListArmedKeeps
  <2>2. CASE \E g \in Groups : ReadArmed(g)
    BY <1>1, <2>2, ReadArmedKeeps
  <2>3. CASE Publish(TRUE)
    BY <1>1, <2>3, PublishedKeeps
  <2>4. CASE Publish(FALSE)
    BY <1>1, <2>4, PublishFailedKeeps
  <2>5. CASE Disarm
    BY <1>1, <2>5, DisarmKeeps
  <2> QED
    BY <1>5, <2>1, <2>2, <2>3, <2>4, <2>5 DEF PollerStep
<1>6. ASSUME NEW c \in Clients,
             \/ \E g \in Groups : Subscript(c, g)
             \/ Attach(c) \/ Ask(c) \/ GiveUp(c) \/ Abort(c)
             \/ ServerStep(c) \/ ClientStep(c)
      PROVE  IInv'
  BY <1>1, <1>6, ClientKeeps
<1>7. CASE UNCHANGED vars
  <2>1. UNCHANGED <<version, modified, group, poller, ghost>>
    BY <1>7 DEF vars
  <2> QED
    BY <1>1, <2>1, ElsewhereKeeps
<1> QED
  BY <1>2, <1>3, <1>4, <1>5, <1>6, <1>7 DEF Next

(* No mark is cleared in vain but for the two reasons Excuses names, for   *)
(* any points, groups and clients, whatever writes come when.              *)
THEOREM NoUpdateForgotten == Spec => []SentOrMarked
<1>1. IInv => SentOrMarked
  BY DEF IInv
<1> QED
  BY <1>1, InitInv, NextInv, PTL DEF Spec

-----------------------------------------------------------------------------
(* What a client has got.                                                  *)
(*                                                                         *)
(* SentOrMarked is about what was published.  That it comes to a client is *)
(* shown by following the last value of a point: once the group was read   *)
(* for a client that is attached, a value that was published to the group  *)
(* last is the client's, or on its way to it.                              *)

(* No value is newer than the point.                                       *)
Behind(b) == \A p \in DOMAIN b : b[p] <= version[p]

Has(b, p) == p \in DOMAIN b /\ b[p] = version[p]

(* The last value of p has come to c, is on its way or in the snapshot.    *)
Got(c, p) ==
  \/ ghost.newest[c][p] = version[p]
  \/ \E i \in DOMAIN news[c] : Has(news[c][i], p)
  \/ \E i \in DOMAIN reply[c] : Has(reply[c][i], p)
  \/ client[c].phase = "served" /\ Has(client[c].snapshot, p)

(* The snapshot of c was read in time and has not been lost.               *)
Sure(c) ==
  /\ c \in ghost.inTime
  /\ client[c].phase = "served" \/ reply[c] # <<>> \/ c \in ghost.initialised

ClientOrder ==
  \A c \in Clients :
    /\ c \in ghost.inTime => /\ client[c].phase \in {"served", "answered"}
                             /\ client[c].attached
                             /\ poller.phase # "off"
    /\ c \in ghost.initialised \/ reply[c] # <<>> => client[c].phase = "answered"

NoneAhead ==
  /\ \A p \in Points : /\ \A g \in Groups : ghost.sent[g][p] <= version[p]
                       /\ \A c \in Clients : ghost.newest[c][p] <= version[p]
  /\ Behind(poller.bundle)
  /\ \A c \in Clients : /\ Behind(client[c].snapshot)
                        /\ \A i \in DOMAIN news[c] : Behind(news[c][i])
                        /\ \A i \in DOMAIN reply[c] : Behind(reply[c][i])

SentIsGot ==
  \A c \in Clients :
    Sure(c) /\ ~group[client[c].want].orphan =>
      \A p \in group[client[c].want].items :
        version[p] = 0 \/ ghost.sent[client[c].want][p] = version[p] => Got(c, p)

LEMMA Appended ==
  ASSUME NEW S, NEW q \in Seq(S), NEW m \in S
  PROVE  /\ Append(q, m) # <<>>
         /\ DOMAIN Append(q, m) = DOMAIN q \cup {Len(q) + 1}
         /\ \A i \in DOMAIN q : Append(q, m)[i] = q[i]
         /\ Append(q, m)[Len(q) + 1] = m
OBVIOUS

LEMMA Taken ==
  ASSUME NEW S, NEW q \in Seq(S), q # <<>>
  PROVE  /\ Head(q) = q[1] /\ 1 \in DOMAIN q
         /\ \A i \in DOMAIN Tail(q) : i + 1 \in DOMAIN q /\ Tail(q)[i] = q[i + 1]
         /\ \A i \in DOMAIN q : i = 1 \/ (i - 1 \in DOMAIN Tail(q) /\ Tail(q)[i - 1] = q[i])
OBVIOUS

(* What a step of a client, or of the thread that serves it, does to the   *)
(* records of the clients: only that of c changes.                         *)
ClientBecomes(c, phase, attached, want, snapshot) ==
  /\ client'[c].phase = phase /\ client'[c].attached = attached
  /\ client'[c].want = want /\ client'[c].snapshot = snapshot
  /\ \A d \in Clients \ {c} : client'[d] = client[d]

LEMMA DisplayBecomes ==
  ASSUME TypeOK, NEW c \in Clients, NEW b, Display(c, b)
  PROVE  ClientBecomes(c, client[c].phase, client[c].attached, client[c].want,
                       client[c].snapshot)
<1> DEFINE F == [p \in Points |-> IF p \in DOMAIN b THEN b[p] ELSE client[c].shown[p]]
<1>1. client' = [client EXCEPT ![c] = [client[c] EXCEPT !.shown = F]]
  BY DEF Display
<1> HIDE DEF F
<1> QED
  BY <1>1 DEF TypeOK, Client, ClientBecomes

LEMMA OrderStep ==
  ASSUME TypeOK, ClientOrder, [Next]_vars PROVE ClientOrder'
<1>1. ghost \in Ghost /\ client \in [Clients -> Client] /\ poller \in Poller
      /\ \A c \in Clients : reply[c] \in Seq(Bundle)
  BY DEF TypeOK
<1>2. ASSUME UNCHANGED <<client, reply>>, ghost'.inTime = ghost.inTime,
             ghost'.initialised = ghost.initialised,
             poller'.phase = "off" => poller.phase = "off"
      PROVE  ClientOrder'
  BY <1>2 DEF ClientOrder
<1>3. CASE Loading \/ (\E p \in Points : Write(p)) \/ StartPoller \/ PollerStep
  <2>1. /\ UNCHANGED <<client, reply>>
        /\ poller'.phase = "off" => poller.phase = "off"
    BY <1>1, <1>3 DEF Loading, CreateGroup, DeleteGroup, Write, StartPoller, PollerStep,
       ListArmed, ReadArmed, Publish, Disarm, Poller
  <2>2. ghost'.inTime = ghost.inTime /\ ghost'.initialised = ghost.initialised
    BY <1>1, <1>3 DEF Loading, CreateGroup, DeleteGroup, Write, StartPoller, PollerStep,
       ListArmed, ReadArmed, Publish, Disarm, Ghost
  <2> QED
    BY <1>2, <2>1, <2>2
<1>4. ASSUME NEW c \in Clients,
             \/ \E g \in Groups : Subscript(c, g)
             \/ Attach(c) \/ Ask(c) \/ GiveUp(c) \/ Abort(c)
      PROVE  ClientOrder'
  <2>1. /\ UNCHANGED <<poller, reply, ghost>>
        /\ \A d \in Clients \ {c} : client'[d] = client[d]
    BY <1>1, <1>4 DEF Subscript, Attach, Ask, GiveUp, Abort, Leave
  <2>2. CASE Attach(c)
    <3>1. client'[c].phase = client[c].phase /\ client'[c].attached
      BY <1>1, <2>2 DEF Attach, Client
    <3> QED
      BY <2>1, <3>1 DEF ClientOrder
  <2>3. CASE ~Attach(c)
    <3>1. client[c].phase \in {"new", "connecting"}
      BY <1>4, <2>3 DEF Subscript, Ask, GiveUp, Abort
    <3> QED
      BY <2>1, <3>1 DEF ClientOrder
  <2> QED
    BY <2>2, <2>3
<1>5. ASSUME NEW c \in Clients, ServeRead(c) PROVE ClientOrder'
  <2>1. /\ UNCHANGED <<poller, reply>> /\ poller.phase # "off"
        /\ client[c].phase = "asked"
    BY <1>5 DEF ServeRead
  <2>2. /\ \A d \in Clients \ {c} : client'[d] = client[d]
        /\ client'[c].phase \in {"served", "answered"}
        /\ client'[c].attached = client[c].attached
    BY <1>1, <1>5 DEF ServeRead, Client
  <2>3. /\ ghost'.initialised = ghost.initialised
        /\ ghost'.inTime = IF client[c].attached THEN ghost.inTime \cup {c} ELSE ghost.inTime
    BY <1>1, <1>5 DEF ServeRead, Ghost
  <2> QED
    BY <2>1, <2>2, <2>3 DEF ClientOrder
<1>6. ASSUME NEW c \in Clients, NEW ok \in BOOLEAN, ServeReply(c, ok) PROVE ClientOrder'
  <2>1. /\ UNCHANGED <<poller, ghost>> /\ client[c].phase = "served"
        /\ \A d \in Clients \ {c} : client'[d] = client[d] /\ reply'[d] = reply[d]
        /\ client'[c].phase = "answered" /\ client'[c].attached = client[c].attached
    BY <1>1, <1>6 DEF ServeReply, Client, TypeOK
  <2> QED
    BY <2>1 DEF ClientOrder
<1>7. ASSUME NEW c \in Clients, ReceiveUpdate(c) PROVE ClientOrder'
  <2>1. /\ UNCHANGED <<poller, reply>> /\ Display(c, Head(news[c]))
        /\ ghost'.inTime = ghost.inTime /\ ghost'.initialised = ghost.initialised
    BY <1>1, <1>7 DEF ReceiveUpdate, Ghost
  <2> QED
    BY <2>1, DisplayBecomes DEF ClientOrder, ClientBecomes
<1>8. ASSUME NEW c \in Clients, ReceiveReply(c) PROVE ClientOrder'
  <2>1. /\ UNCHANGED poller /\ Display(c, Head(reply[c])) /\ reply[c] # <<>>
        /\ \A d \in Clients \ {c} : reply'[d] = reply[d]
        /\ ghost'.inTime = ghost.inTime /\ ghost'.initialised = ghost.initialised \cup {c}
    BY <1>1, <1>8 DEF ReceiveReply, Ghost, TypeOK
  <2> QED
    BY <2>1, DisplayBecomes DEF ClientOrder, ClientBecomes
<1>9. CASE UNCHANGED vars
  BY <1>2, <1>9 DEF vars
<1> QED
  BY <1>3, <1>4, <1>5, <1>6, <1>7, <1>8, <1>9 DEF Next, ServerStep, ClientStep

(* The values there are stay behind their points, which only grow.         *)
LEMMA AheadKept ==
  ASSUME TypeOK, NoneAhead,
         \A p \in Points : version'[p] \in Nat /\ version[p] <= version'[p],
         ghost'.sent = ghost.sent, ghost'.newest = ghost.newest,
         poller'.bundle = poller.bundle \/ poller'.bundle = Nothing,
         UNCHANGED reply,
         \A c \in Clients : /\ client'[c].snapshot = client[c].snapshot
                            /\ news'[c] = news[c] \/ news'[c] = <<>>
  PROVE  NoneAhead'
<1>1. \A p \in Points : version[p] \in Nat
  BY DEF TypeOK, Version
<1>2. ASSUME NEW b \in Bundle, Behind(b) PROVE Behind(b)'
  <2>1. DOMAIN b \subseteq Points /\ \A p \in DOMAIN b : b[p] \in Nat
    BY BundleParts DEF Version
  <2> QED
    BY <1>1, <1>2, <2>1 DEF Behind
<1>3. Behind(poller.bundle)'
  <2>1. Behind(Nothing)'
    BY DEF Behind, Nothing
  <2>2. poller.bundle \in Bundle /\ Behind(poller.bundle)
    BY DEF TypeOK, Poller, NoneAhead
  <2>3. \A p \in DOMAIN poller.bundle : poller.bundle[p] <= version'[p]
    BY <1>2, <2>2 DEF Behind
  <2> QED
    BY <2>1, <2>3 DEF Behind
<1>4. ASSUME NEW p \in Points
      PROVE  /\ \A g \in Groups : ghost.sent[g][p] <= version'[p]
             /\ \A c \in Clients : ghost.newest[c][p] <= version'[p]
  <2>1. /\ \A g \in Groups : ghost.sent[g][p] \in Int
        /\ \A c \in Clients : ghost.newest[c][p] \in Int
    <3>1. Version \cup {Unknown} \subseteq Int
      BY SubscriptionAssumption DEF Version, Unknown
    <3>2. /\ \A g \in Groups : ghost.sent[g][p] \in Version \cup {Unknown}
          /\ \A c \in Clients : ghost.newest[c][p] \in Version \cup {Unknown}
      BY DEF TypeOK, Ghost
    <3> QED
      BY <3>1, <3>2
  <2>2. /\ \A g \in Groups : ghost.sent[g][p] <= version[p]
        /\ \A c \in Clients : ghost.newest[c][p] <= version[p]
    BY DEF NoneAhead
  <2> QED
    BY <1>1, <2>1, <2>2
<1>5. ASSUME NEW c \in Clients
      PROVE  /\ \A p \in DOMAIN client[c].snapshot : client[c].snapshot[p] <= version'[p]
             /\ \A i \in DOMAIN news[c] : \A p \in DOMAIN news[c][i] : news[c][i][p] <= version'[p]
             /\ \A i \in DOMAIN reply[c] : \A p \in DOMAIN reply[c][i] : reply[c][i][p] <= version'[p]
  <2>1. /\ client[c].snapshot \in Bundle
        /\ \A i \in DOMAIN news[c] : news[c][i] \in Bundle
        /\ \A i \in DOMAIN reply[c] : reply[c][i] \in Bundle
    BY DEF TypeOK, Client
  <2>2. /\ Behind(client[c].snapshot)
        /\ \A i \in DOMAIN news[c] : Behind(news[c][i])
        /\ \A i \in DOMAIN reply[c] : Behind(reply[c][i])
    BY DEF NoneAhead
  <2> QED
    BY <1>2, <2>1, <2>2 DEF Behind
<1> QED
  BY <1>3, <1>4, <1>5 DEF NoneAhead, Behind

(* A reading of the database has the values of now.                        *)
LEMMA ReadingsHave ==
  ASSUME TypeOK, NEW g \in Groups
  PROVE  /\ \A p \in DOMAIN Armed(g) : Armed(g)[p] = version[p]
         /\ \A s \in Snapshots(g) :
              /\ \A p \in DOMAIN s : s[p] = version[p]
              /\ ~group[g].orphan => DOMAIN s = group[g].items
BY DEF Armed, Snapshots

(* What a client receives is not newer than the points.                    *)
LEMMA NotedBehind ==
  ASSUME TypeOK, NoneAhead, NEW c \in Clients, NEW b \in Bundle, Behind(b)
  PROVE  \A d \in Clients, p \in Points :
           /\ Noted(c, b)[d][p] <= version[p]
           /\ d # c => Noted(c, b)[d] = ghost.newest[d]
           /\ p \notin DOMAIN b => Noted(c, b)[d][p] = ghost.newest[d][p]
           /\ ghost.newest[d][p] = version[p] => Noted(c, b)[d][p] = version[p]
           /\ Has(b, p) => Noted(c, b)[c][p] = version[p]
<1>1. /\ \A p \in Points : version[p] \in Nat
      /\ \A d \in Clients, p \in Points : /\ ghost.newest[d][p] \in Int
                                          /\ ghost.newest[d][p] <= version[p]
  <2>1. Version \cup {Unknown} \subseteq Int /\ Version \subseteq Nat
    BY SubscriptionAssumption DEF Version, Unknown
  <2> QED
    BY <2>1 DEF TypeOK, Ghost, NoneAhead
<1>2. \A p \in DOMAIN b : p \in Points /\ b[p] \in Nat /\ b[p] <= version[p]
  BY BundleParts DEF Version, Behind
<1>3. ghost.newest \in [Clients -> [Points -> Version \cup {Unknown}]]
  BY DEF TypeOK, Ghost
<1> DEFINE F == [p \in Points |-> IF p \in DOMAIN b THEN Later(b[p], ghost.newest[c][p])
                                                    ELSE ghost.newest[c][p]]
<1>4. Noted(c, b) = [ghost.newest EXCEPT ![c] = F]
  BY DEF Noted
<1>5. \A p \in Points :
        /\ F[p] <= version[p]
        /\ p \notin DOMAIN b => F[p] = ghost.newest[c][p]
        /\ ghost.newest[c][p] = version[p] => F[p] = version[p]
        /\ p \in DOMAIN b /\ b[p] = version[p] => F[p] = version[p]
  BY <1>1, <1>2 DEF Later
<1> HIDE DEF F
<1> QED
  BY <1>1, <1>3, <1>4, <1>5 DEF Has

LEMMA AheadStep ==
  ASSUME TypeOK, NoneAhead, [Next]_vars PROVE NoneAhead'
<1>1. ghost \in Ghost /\ client \in [Clients -> Client] /\ poller \in Poller
      /\ version \in [Points -> Version] /\ Version \subseteq Nat
      /\ news \in [Clients -> Seq(Bundle)] /\ reply \in [Clients -> Seq(Bundle)]
  BY DEF TypeOK, Version
<1>2. \A p \in Points : version[p] \in Nat /\ version[p] <= version[p]
  <2>1. \A p \in Points : version[p] \in Nat
    BY <1>1
  <2> QED
    BY <2>1
<1>3. CASE Loading \/ StartPoller \/ ListArmed \/ Disarm
  <2>1. /\ UNCHANGED <<version, client, news, reply>>
        /\ poller'.bundle = poller.bundle
    BY <1>1, <1>3 DEF Loading, CreateGroup, DeleteGroup, StartPoller, ListArmed, Disarm, Poller
  <2>2. ghost'.sent = ghost.sent /\ ghost'.newest = ghost.newest
    BY <1>1, <1>3 DEF Loading, CreateGroup, DeleteGroup, StartPoller, ListArmed, Disarm, Ghost
  <2> QED
    BY <1>2, <2>1, <2>2, AheadKept
<1>4. ASSUME NEW p \in Points, Write(p) PROVE NoneAhead'
  <2>1. /\ UNCHANGED <<poller, client, news, reply>>
        /\ version' = [version EXCEPT ![p] = @ + 1]
        /\ ghost'.sent = ghost.sent /\ ghost'.newest = ghost.newest
    BY <1>1, <1>4 DEF Write, Ghost
  <2>2. \A q \in Points : version'[q] \in Nat /\ version[q] <= version'[q]
    BY <1>1, <1>2, <2>1
  <2> QED
    BY <2>1, <2>2, AheadKept
<1>5. ASSUME NEW g \in Groups, ReadArmed(g) PROVE NoneAhead'
  <2>1. /\ UNCHANGED <<version, client, news, reply, ghost>>
        /\ poller'.bundle = Armed(g)
    BY <1>1, <1>5 DEF ReadArmed, Poller
  <2>2. \A p \in DOMAIN Armed(g) : p \in Points /\ Armed(g)[p] <= version[p]
    BY <1>2, ReadingsHave, ReadingsAreBundles, BundleParts
  <2> QED
    BY <2>1, <2>2 DEF NoneAhead, Behind
<1>6. CASE Publish(FALSE)
  <2>1. /\ UNCHANGED <<version, client, news, reply>>
        /\ poller'.bundle = Nothing
    BY <1>1, <1>6 DEF Publish, Poller
  <2>2. ghost'.sent = ghost.sent /\ ghost'.newest = ghost.newest
    BY <1>1, <1>6 DEF Publish, Ghost
  <2> QED
    BY <1>2, <2>1, <2>2, AheadKept
<1>7. CASE Publish(TRUE)
  <2> DEFINE g == poller.current
             b == poller.bundle
             S == [p \in Points |-> IF p \in DOMAIN b THEN b[p] ELSE ghost.sent[g][p]]
  <2>1. b \in Bundle /\ Behind(b) /\ g \in Groups
    BY <1>1, <1>7 DEF Publish, Poller, NoneAhead, TypeOK
  <2>2. /\ UNCHANGED <<version, client, reply>> /\ poller'.bundle = Nothing
        /\ ghost'.newest = ghost.newest
        /\ ghost'.sent = [ghost.sent EXCEPT ![g] = S]
        /\ \A c \in Clients : news'[c] = news[c] \/ news'[c] = Append(news[c], b)
    BY <1>1, <1>7 DEF Publish, Poller, Ghost
  <2>3. \A p \in Points : S[p] <= version[p]
    BY <2>1 DEF Behind, NoneAhead
  <2> HIDE DEF S, b, g
  <2>4. \A p \in Points, h \in Groups : ghost'.sent[h][p] <= version[p]
    BY <1>1, <2>1, <2>2, <2>3 DEF NoneAhead, Ghost
  <2>5. ASSUME NEW c \in Clients, NEW i \in DOMAIN news'[c] PROVE Behind(news'[c][i])
    <3>1. news[c] \in Seq(Bundle) /\ \A j \in DOMAIN news[c] : Behind(news[c][j])
      BY <1>1 DEF NoneAhead
    <3> QED
      BY <2>1, <2>2, <2>5, <3>1, Appended
  <2>6. DOMAIN Nothing = {}
    BY DEF Nothing
  <2> QED
    BY <2>2, <2>4, <2>5, <2>6 DEF NoneAhead, Behind
<1>8. ASSUME NEW c \in Clients,
             \/ \E g \in Groups : Subscript(c, g)
             \/ Attach(c) \/ Ask(c) \/ GiveUp(c) \/ Abort(c)
      PROVE  NoneAhead'
  <2>1. /\ UNCHANGED <<version, poller, reply, ghost>>
        /\ \A d \in Clients : news'[d] = news[d] \/ news'[d] = <<>>
    BY <1>1, <1>8 DEF Subscript, Attach, Ask, GiveUp, Abort, Leave
  <2>2. \A d \in Clients : client'[d].snapshot = client[d].snapshot
    <3>1. ASSUME NEW g \in Groups, Subscript(c, g)
          PROVE  \A d \in Clients : client'[d].snapshot = client[d].snapshot
      BY <1>1, <3>1 DEF Subscript, Client
    <3>2. ASSUME NEW x \in {TRUE}, client' = [client EXCEPT ![c].attached = x]
          PROVE  \A d \in Clients : client'[d].snapshot = client[d].snapshot
      <4>1. client' = [client EXCEPT ![c] = [client[c] EXCEPT !.attached = x]]
        BY <3>2
      <4>2. [client[c] EXCEPT !.attached = x].snapshot = client[c].snapshot
        BY <1>1 DEF Client
      <4> QED
        BY <1>1, <4>1, <4>2
    <3>4. ASSUME NEW x, client' = [client EXCEPT ![c].phase = x]
          PROVE  \A d \in Clients : client'[d].snapshot = client[d].snapshot
      BY <1>1, <3>4 DEF Client
    <3>3. ASSUME NEW phase, Leave(c, phase)
          PROVE  \A d \in Clients : client'[d].snapshot = client[d].snapshot
      BY <1>1, <3>3 DEF Leave, Client
    <3> QED
      BY <1>8, <3>1, <3>2, <3>3, <3>4 DEF GiveUp, Abort, Attach, Ask
  <2> QED
    BY <1>2, <2>1, <2>2, AheadKept
<1>9. ASSUME NEW c \in Clients, ServeRead(c) PROVE NoneAhead'
  <2>1. /\ UNCHANGED <<version, poller, news, reply>>
        /\ ghost'.sent = ghost.sent /\ ghost'.newest = ghost.newest
        /\ client[c].want \in Groups
    BY <1>1, <1>9 DEF ServeRead, Ghost, TypeOK
  <2>2. \A d \in Clients : \/ client'[d].snapshot = client[d].snapshot
                           \/ client'[d].snapshot \in Snapshots(client[c].want)
    <3>1. \/ client' = [client EXCEPT ![c].phase = "answered"]
          \/ \E s \in Snapshots(client[c].want) :
               client' = [client EXCEPT ![c].phase = "served", ![c].snapshot = s]
      BY <1>9 DEF ServeRead
    <3>2. ASSUME client' = [client EXCEPT ![c].phase = "answered"]
          PROVE  \A d \in Clients : client'[d].snapshot = client[d].snapshot
      BY <1>1, <3>2 DEF Client
    <3>3. ASSUME NEW s \in Snapshots(client[c].want),
                 client' = [client EXCEPT ![c].phase = "served", ![c].snapshot = s]
          PROVE  /\ \A d \in Clients \ {c} : client'[d].snapshot = client[d].snapshot
                 /\ client'[c].snapshot = s
      BY <1>1, <3>3 DEF Client
    <3> QED
      BY <3>1, <3>2, <3>3
  <2>3. \A s \in Snapshots(client[c].want) : Behind(s)
    <3> SUFFICES ASSUME NEW s \in Snapshots(client[c].want), NEW p \in DOMAIN s
                 PROVE  s[p] <= version[p]
      BY DEF Behind
    <3>1. p \in Points /\ s[p] = version[p]
      BY <2>1, ReadingsHave, ReadingsAreBundles, BundleParts
    <3> QED
      BY <1>2, <3>1
  <2> QED
    BY <2>1, <2>2, <2>3 DEF NoneAhead, Behind
<1>10. ASSUME NEW c \in Clients, NEW ok \in BOOLEAN, ServeReply(c, ok) PROVE NoneAhead'
  <2>1. UNCHANGED <<version, poller, news, ghost>>
    BY <1>10 DEF ServeReply
  <2>2. \A d \in Clients : \/ client'[d].snapshot = client[d].snapshot
                           \/ client'[d].snapshot = Nothing
    BY <1>1, <1>10 DEF ServeReply, Client
  <2>3. \A d \in Clients : \/ reply'[d] = reply[d]
                           \/ reply'[d] = Append(reply[d], client[d].snapshot)
    BY <1>1, <1>10 DEF ServeReply
  <2>4. ASSUME NEW d \in Clients, NEW i \in DOMAIN reply'[d] PROVE Behind(reply'[d][i])
    <3>1. /\ reply[d] \in Seq(Bundle) /\ \A j \in DOMAIN reply[d] : Behind(reply[d][j])
          /\ client[d].snapshot \in Bundle /\ Behind(client[d].snapshot)
      BY <1>1 DEF NoneAhead, Client
    <3> QED
      BY <2>3, <2>4, <3>1, Appended
  <2>5. DOMAIN Nothing = {}
    BY DEF Nothing
  <2> QED
    BY <2>1, <2>2, <2>4, <2>5 DEF NoneAhead, Behind
<1>11. ASSUME NEW c \in Clients, NEW q \in Seq(Bundle), q # <<>>,
              \A i \in DOMAIN q : Behind(q[i]),
              UNCHANGED <<version, poller>>, ghost'.sent = ghost.sent,
              ghost'.newest = Noted(c, Head(q)), Display(c, Head(q)),
              \A d \in Clients :
                /\ news'[d] = news[d] \/ (news'[d] = Tail(news[d]) /\ news[d] # <<>>)
                /\ reply'[d] = reply[d] \/ (reply'[d] = Tail(reply[d]) /\ reply[d] # <<>>)
       PROVE  NoneAhead'
  <2>1. Head(q) \in Bundle /\ Behind(Head(q))
    BY <1>11, Taken
  <2>2. \A d \in Clients, p \in Points : ghost'.newest[d][p] <= version[p]
    BY <1>11, <2>1, NotedBehind
  <2>3. \A d \in Clients : client'[d].snapshot = client[d].snapshot
    BY <1>11, DisplayBecomes DEF ClientBecomes
  <2>4. ASSUME NEW d \in Clients
        PROVE  /\ \A i \in DOMAIN news'[d] : Behind(news'[d][i])
               /\ \A i \in DOMAIN reply'[d] : Behind(reply'[d][i])
    <3>1. /\ news[d] \in Seq(Bundle) /\ \A j \in DOMAIN news[d] : Behind(news[d][j])
          /\ reply[d] \in Seq(Bundle) /\ \A j \in DOMAIN reply[d] : Behind(reply[d][j])
      BY <1>1 DEF NoneAhead
    <3>2. \A i \in DOMAIN news'[d] : Behind(news'[d][i])
      <4>1. CASE news'[d] = news[d]
        BY <3>1, <4>1
      <4>2. CASE news'[d] = Tail(news[d]) /\ news[d] # <<>>
        <5>1. \A i \in DOMAIN Tail(news[d]) : Behind(Tail(news[d])[i])
          BY <3>1, <4>2, Taken
        <5> QED
          BY <4>2, <5>1
      <4> QED
        BY <1>11, <4>1, <4>2
    <3>3. \A i \in DOMAIN reply'[d] : Behind(reply'[d][i])
      <4>1. CASE reply'[d] = reply[d]
        BY <3>1, <4>1
      <4>2. CASE reply'[d] = Tail(reply[d]) /\ reply[d] # <<>>
        <5>1. \A i \in DOMAIN Tail(reply[d]) : Behind(Tail(reply[d])[i])
          BY <3>1, <4>2, Taken
        <5> QED
          BY <4>2, <5>1
      <4> QED
        BY <1>11, <4>1, <4>2
    <3> QED
      BY <3>2, <3>3
  <2> QED
    BY <1>11, <2>2, <2>3, <2>4 DEF NoneAhead, Behind
<1>12. ASSUME NEW c \in Clients, ReceiveUpdate(c) PROVE NoneAhead'
  <2>1. /\ news[c] \in Seq(Bundle) /\ news[c] # <<>> /\ \A i \in DOMAIN news[c] : Behind(news[c][i])
        /\ UNCHANGED <<version, poller, reply>> /\ Display(c, Head(news[c]))
        /\ news' = [news EXCEPT ![c] = Tail(news[c])]
        /\ ghost' = [ghost EXCEPT !.newest = Noted(c, Head(news[c]))]
    BY <1>1, <1>12 DEF ReceiveUpdate, NoneAhead
  <2>2. ghost'.sent = ghost.sent /\ ghost'.newest = Noted(c, Head(news[c]))
    BY <1>1, <2>1 DEF Ghost
  <2>3. \A d \in Clients : news'[d] = news[d] \/ (news'[d] = Tail(news[d]) /\ news[d] # <<>>)
    BY <1>1, <2>1
  <2> QED
    BY <1>11, <2>1, <2>2, <2>3
<1>13. ASSUME NEW c \in Clients, ReceiveReply(c) PROVE NoneAhead'
  <2>1. /\ reply[c] \in Seq(Bundle) /\ reply[c] # <<>> /\ \A i \in DOMAIN reply[c] : Behind(reply[c][i])
        /\ UNCHANGED <<version, poller, news>> /\ Display(c, Head(reply[c]))
        /\ reply' = [reply EXCEPT ![c] = Tail(reply[c])]
        /\ ghost' = [ghost EXCEPT !.newest = Noted(c, Head(reply[c])),
                                  !.initialised = ghost.initialised \cup {c}]
    BY <1>1, <1>13 DEF ReceiveReply, NoneAhead
  <2>2. ghost'.sent = ghost.sent /\ ghost'.newest = Noted(c, Head(reply[c]))
    BY <1>1, <2>1 DEF Ghost
  <2>3. \A d \in Clients : reply'[d] = reply[d] \/ (reply'[d] = Tail(reply[d]) /\ reply[d] # <<>>)
    BY <1>1, <2>1
  <2> QED
    BY <1>11, <2>1, <2>2, <2>3
<1>14. CASE UNCHANGED vars
  BY <1>2, <1>14, AheadKept DEF vars
<1> QED
  BY <1>3, <1>4, <1>5, <1>6, <1>7, <1>8, <1>9, <1>10, <1>12, <1>13, <1>14
  DEF Next, PollerStep, ServerStep, ClientStep

-----------------------------------------------------------------------------
(* SentIsGot, action by action.                                            *)

LEMMA SureWants ==
  ASSUME TypeOK, ClientOrder, NEW c \in Clients, Sure(c)
  PROVE  /\ client[c].phase \in {"served", "answered"} /\ client[c].attached
         /\ client[c].want \in Groups /\ group[client[c].want].items \subseteq Points
         /\ poller.phase # "off"
BY DEF Sure, ClientOrder, TypeOK, Group

LEMMA SentIsGotBy ==
  ASSUME TypeOK, ClientOrder, SentIsGot, UNCHANGED <<version, group>>, ghost'.sent = ghost.sent,
         \A c \in Clients : Sure(c)' => /\ Sure(c)
                                        /\ client'[c].want = client[c].want
                                        /\ \A p \in Points : Got(c, p) => Got(c, p)'
  PROVE  SentIsGot'
<1> SUFFICES ASSUME NEW c \in Clients, Sure(c)', ~group[client'[c].want].orphan,
                    NEW p \in group[client'[c].want].items,
                    version[p] = 0 \/ ghost.sent[client'[c].want][p] = version[p]
             PROVE  Got(c, p)'
  BY DEF SentIsGot
<1>1. /\ Sure(c) /\ client'[c].want = client[c].want
      /\ \A q \in Points : Got(c, q) => Got(c, q)'
  OBVIOUS
<1>2. p \in Points
  BY <1>1, SureWants
<1> QED
  BY <1>1, <1>2 DEF SentIsGot

(* Another client's step leaves c what it had.                             *)
LEMMA GotSame ==
  ASSUME NEW c \in Clients, UNCHANGED version,
         news'[c] = news[c], reply'[c] = reply[c],
         ghost'.newest[c] = ghost.newest[c],
         client'[c].phase = client[c].phase, client'[c].snapshot = client[c].snapshot
  PROVE  \A p : Got(c, p)' <=> Got(c, p)
BY DEF Got, Has

LEMMA WriteSent ==
  ASSUME TypeOK, NoneAhead, ClientOrder, SentIsGot, NEW p \in Points, Write(p)
  PROVE  SentIsGot'
<1>1. /\ UNCHANGED <<poller, group, client, news, reply>>
      /\ version' = [version EXCEPT ![p] = version[p] + 1]
      /\ ghost'.sent = ghost.sent /\ ghost'.newest = ghost.newest
      /\ ghost'.inTime = ghost.inTime /\ ghost'.initialised = ghost.initialised
  BY DEF Write, Ghost, TypeOK
<1>2. /\ version[p] \in Nat /\ version'[p] = version[p] + 1
      /\ \A q \in Points \ {p} : version'[q] = version[q]
  BY <1>1 DEF TypeOK, Version
<1> SUFFICES ASSUME NEW c \in Clients, Sure(c)', ~group[client[c].want].orphan,
                    NEW q \in group[client[c].want].items,
                    version'[q] = 0 \/ ghost.sent[client[c].want][q] = version'[q]
             PROVE  Got(c, q)'
  BY <1>1 DEF SentIsGot
<1>3. Sure(c)
  BY <1>1 DEF Sure
<1>4. client[c].want \in Groups /\ q \in Points
  BY <1>3, SureWants
<1>5. CASE q = p
  <2>1. ghost.sent[client[c].want][q] <= version[q]
    BY <1>4 DEF NoneAhead
  <2> QED
    BY <1>2, <1>5, <2>1
<1>6. CASE q # p
  <2>1. version'[q] = version[q]
    BY <1>2, <1>4, <1>6
  <2>2. Got(c, q)
    BY <1>3, <2>1 DEF SentIsGot
  <2> QED
    BY <1>1, <2>1, <2>2 DEF Got, Has
<1> QED
  BY <1>5, <1>6

(* The value that is published goes to every client of the group that is   *)
(* attached.                                                               *)
LEMMA PublishedSent ==
  ASSUME TypeOK, ClientOrder, SentIsGot, Publish(TRUE)
  PROVE  SentIsGot'
<1> DEFINE g == poller.current
           b == poller.bundle
           S == [p \in Points |-> IF p \in DOMAIN b THEN b[p] ELSE ghost.sent[g][p]]
<1>1. /\ UNCHANGED <<version, group, client, reply>>
      /\ ghost'.newest = ghost.newest /\ ghost'.inTime = ghost.inTime
      /\ ghost'.initialised = ghost.initialised
      /\ ghost'.sent = [ghost.sent EXCEPT ![g] = S]
  BY DEF Publish, Ghost, TypeOK
<1>2. \A c \in Clients : news'[c] = IF c \in Listeners(g) THEN Append(news[c], b) ELSE news[c]
  BY DEF Publish
<1>3. b \in Bundle /\ g \in Groups /\ ghost.sent \in [Groups -> [Points -> Version \cup {Unknown}]]
      /\ \A c \in Clients : news[c] \in Seq(Bundle)
  BY DEF TypeOK, Poller, Publish, Ghost
<1>4. /\ \A h \in Groups \ {g} : ghost'.sent[h] = ghost.sent[h]
      /\ \A p \in Points : ghost'.sent[g][p] = IF p \in DOMAIN b THEN b[p] ELSE ghost.sent[g][p]
  BY <1>1, <1>3
<1> HIDE DEF g, b, S
<1>5. \A c \in Clients, p \in Points : Got(c, p) => Got(c, p)'
  <2> SUFFICES ASSUME NEW c \in Clients, NEW p \in Points, Got(c, p) PROVE Got(c, p)'
    OBVIOUS
  <2>1. \A i \in DOMAIN news[c] : i \in DOMAIN news'[c] /\ news'[c][i] = news[c][i]
    <3>1. news[c] \in Seq(Bundle) /\ b \in Bundle
      BY <1>3
    <3>2. \A i \in DOMAIN news[c] : /\ i \in DOMAIN Append(news[c], b)
                                   /\ Append(news[c], b)[i] = news[c][i]
      BY <3>1, Appended
    <3>3. news'[c] = news[c] \/ news'[c] = Append(news[c], b)
      BY <1>2
    <3> QED
      BY <3>2, <3>3
  <2> QED
    BY <1>1, <2>1 DEF Got, Has
<1> SUFFICES ASSUME NEW c \in Clients, Sure(c)', ~group[client[c].want].orphan,
                    NEW p \in group[client[c].want].items,
                    version[p] = 0 \/ ghost'.sent[client[c].want][p] = version[p]
             PROVE  Got(c, p)'
  BY <1>1 DEF SentIsGot
<1>6. Sure(c)
  BY <1>1 DEF Sure
<1>7. client[c].want \in Groups /\ p \in Points /\ client[c].attached
  BY <1>6, SureWants
<1>8. CASE version[p] = 0 \/ ghost.sent[client[c].want][p] = version[p]
  BY <1>5, <1>6, <1>7, <1>8 DEF SentIsGot
<1>9. CASE client[c].want = g /\ Has(b, p)
  <2>1. news'[c] = Append(news[c], b)
    BY <1>2, <1>7, <1>9 DEF Listeners, Matches
  <2>2. Len(news[c]) + 1 \in DOMAIN news'[c] /\ news'[c][Len(news[c]) + 1] = b
    BY <1>3, <2>1, Appended
  <2> QED
    BY <1>1, <1>9, <2>2 DEF Got, Has
<1> QED
  BY <1>4, <1>7, <1>8, <1>9 DEF Has

(* The snapshot of a group that is whole has every point of it, and its    *)
(* reader is sure from then on.                                            *)
LEMMA ServeReadSent ==
  ASSUME TypeOK, ClientOrder, SentIsGot, NEW c \in Clients, ServeRead(c)
  PROVE  SentIsGot'
<1> DEFINE g == client[c].want
<1>1. /\ UNCHANGED <<version, group, news, reply>> /\ client[c].phase = "asked"
      /\ ghost'.sent = ghost.sent /\ ghost'.newest = ghost.newest
      /\ ghost'.initialised = ghost.initialised
      /\ ghost'.inTime = ghost.inTime \/ ghost'.inTime = ghost.inTime \cup {c}
      /\ g \in Groups /\ client \in [Clients -> Client]
  BY DEF ServeRead, Ghost, TypeOK
<1>2. reply[c] = <<>> /\ c \notin ghost.initialised
  BY <1>1 DEF ClientOrder
<1>3. \/ ClientBecomes(c, "answered", client[c].attached, g, client[c].snapshot)
      \/ \E s \in Snapshots(g) : ClientBecomes(c, "served", client[c].attached, g, s)
  <2>1. ASSUME client' = [client EXCEPT ![c].phase = "answered"]
        PROVE  ClientBecomes(c, "answered", client[c].attached, g, client[c].snapshot)
    BY <1>1, <2>1 DEF Client, ClientBecomes
  <2>2. ASSUME NEW s \in Snapshots(g),
               client' = [client EXCEPT ![c].phase = "served", ![c].snapshot = s]
        PROVE  ClientBecomes(c, "served", client[c].attached, g, s)
    BY <1>1, <2>2 DEF Client, ClientBecomes
  <2> QED
    BY <2>1, <2>2 DEF ServeRead
<1> SUFFICES ASSUME NEW d \in Clients, Sure(d)', ~group[client'[d].want].orphan,
                    NEW p \in group[client'[d].want].items,
                    version[p] = 0 \/ ghost.sent[client'[d].want][p] = version[p]
             PROVE  Got(d, p)'
  BY <1>1 DEF SentIsGot
<1>4. CASE d # c
  <2>1. client'[d] = client[d] /\ Sure(d)
    BY <1>1, <1>3, <1>4 DEF ClientBecomes, Sure
  <2> QED
    BY <1>1, <2>1, GotSame DEF SentIsGot
<1>5. CASE d = c
  <2>1. client'[c].phase = "served"
    BY <1>1, <1>2, <1>5 DEF Sure
  <2>2. PICK s \in Snapshots(g) : ClientBecomes(c, "served", client[c].attached, g, s)
    BY <1>3, <2>1 DEF ClientBecomes
  <2>3. DOMAIN s = group[g].items /\ \A q \in DOMAIN s : s[q] = version[q]
    BY <1>1, <1>5, <2>2, ReadingsHave DEF ClientBecomes
  <2>4. p \in group[g].items
    BY <1>5, <2>2 DEF ClientBecomes
  <2> QED
    BY <1>1, <1>5, <2>2, <2>3, <2>4 DEF Got, Has, ClientBecomes
<1> QED
  BY <1>4, <1>5

LEMMA ServeReplySent ==
  ASSUME TypeOK, ClientOrder, SentIsGot, NEW c \in Clients, NEW ok \in BOOLEAN,
         ServeReply(c, ok)
  PROVE  SentIsGot'
<1>1. /\ UNCHANGED <<version, group, news, ghost>> /\ client[c].phase = "served"
      /\ client \in [Clients -> Client] /\ client[c].snapshot \in Bundle
      /\ reply \in [Clients -> Seq(Bundle)]
  BY DEF ServeReply, TypeOK, Client
<1>2. reply[c] = <<>> /\ c \notin ghost.initialised
  BY <1>1 DEF ClientOrder
<1>3. ClientBecomes(c, "answered", client[c].attached, client[c].want, Nothing)
  BY <1>1 DEF ServeReply, Client, ClientBecomes
<1>4. ASSUME NEW d \in Clients \ {c}
      PROVE  /\ Sure(d)' => Sure(d) /\ client'[d].want = client[d].want
             /\ \A p \in Points : Got(d, p) => Got(d, p)'
  <2>1. client'[d] = client[d] /\ reply'[d] = reply[d]
    BY <1>1, <1>3 DEF ClientBecomes, ServeReply
  <2> QED
    BY <1>1, <2>1, GotSame DEF Sure
<1>5. CASE ok
  <2>1. reply'[c] = Append(reply[c], client[c].snapshot)
    BY <1>1, <1>5 DEF ServeReply
  <2>2. Len(reply[c]) + 1 \in DOMAIN reply'[c]
        /\ reply'[c][Len(reply[c]) + 1] = client[c].snapshot
    BY <1>1, <2>1, Appended
  <2>3. \A p \in Points : Got(c, p) => Got(c, p)'
    BY <1>1, <1>2, <2>2 DEF Got, Has
  <2>4. Sure(c)' => Sure(c) /\ client'[c].want = client[c].want
    BY <1>1, <1>3 DEF Sure, ClientBecomes
  <2> QED
    BY <1>1, <1>4, <2>3, <2>4, SentIsGotBy
<1>6. CASE ~ok
  <2>1. reply' = reply
    BY <1>6 DEF ServeReply
  <2>2. ~Sure(c)'
    BY <1>1, <1>2, <1>3, <2>1 DEF Sure, ClientBecomes
  <2> QED
    BY <1>1, <1>4, <2>2, SentIsGotBy
<1> QED
  BY <1>5, <1>6

(* A message that is received leaves its queue and is noted.               *)
LEMMA TakenGot ==
  ASSUME TypeOK, NoneAhead, NEW c \in Clients, NEW q \in Seq(Bundle), q # <<>>,
         \A i \in DOMAIN q : Behind(q[i]),
         UNCHANGED version, Display(c, Head(q)),
         ghost'.newest = Noted(c, Head(q)),
         \/ q = news[c] /\ news'[c] = Tail(q) /\ reply'[c] = reply[c]
         \/ q = reply[c] /\ reply'[c] = Tail(q) /\ news'[c] = news[c]
  PROVE  \A p \in Points : Got(c, p) => Got(c, p)'
<1>1. Head(q) \in Bundle /\ Behind(Head(q)) /\ Head(q) = q[1]
  BY Taken
<1>2. ClientBecomes(c, client[c].phase, client[c].attached, client[c].want, client[c].snapshot)
  BY DisplayBecomes
<1>3. \A i \in DOMAIN q : i = 1 \/ (i - 1 \in DOMAIN Tail(q) /\ Tail(q)[i - 1] = q[i])
  BY Taken
<1> SUFFICES ASSUME NEW p \in Points, Got(c, p) PROVE Got(c, p)'
  OBVIOUS
<1>4. /\ ghost.newest[c][p] = version[p] => ghost'.newest[c][p] = version[p]
      /\ Has(q[1], p) => ghost'.newest[c][p] = version[p]
  BY <1>1, NotedBehind
<1>5. ASSUME NEW i \in DOMAIN q, Has(q[i], p)
      PROVE  \/ ghost'.newest[c][p] = version[p]
             \/ \E j \in DOMAIN Tail(q) : Has(Tail(q)[j], p)
  BY <1>3, <1>4, <1>5
<1>6. CASE q = news[c] /\ news'[c] = Tail(q) /\ reply'[c] = reply[c]
  BY <1>2, <1>4, <1>5, <1>6 DEF Got, Has, ClientBecomes
<1>7. CASE q = reply[c] /\ reply'[c] = Tail(q) /\ news'[c] = news[c]
  BY <1>2, <1>4, <1>5, <1>7 DEF Got, Has, ClientBecomes
<1> QED
  BY <1>6, <1>7

LEMMA ReceiveSent ==
  ASSUME TypeOK, NoneAhead, ClientOrder, SentIsGot, NEW c \in Clients, ClientStep(c)
  PROVE  SentIsGot'
<1> USE DEF TypeOK
<1>1. CASE ReceiveUpdate(c)
  <2>1. /\ news[c] \in Seq(Bundle) /\ news[c] # <<>> /\ \A i \in DOMAIN news[c] : Behind(news[c][i])
        /\ UNCHANGED <<version, group, reply>> /\ Display(c, Head(news[c]))
        /\ news' = [news EXCEPT ![c] = Tail(news[c])]
        /\ ghost' = [ghost EXCEPT !.newest = Noted(c, Head(news[c]))]
    BY <1>1 DEF ReceiveUpdate, NoneAhead
  <2>2. /\ ghost'.sent = ghost.sent /\ ghost'.newest = Noted(c, Head(news[c]))
        /\ ghost'.inTime = ghost.inTime /\ ghost'.initialised = ghost.initialised
    BY <2>1 DEF Ghost
  <2>3. /\ news'[c] = Tail(news[c]) /\ \A d \in Clients \ {c} : news'[d] = news[d]
    BY <2>1
  <2>4. \A p \in Points : Got(c, p) => Got(c, p)'
    BY <2>1, <2>2, <2>3, TakenGot
  <2>5. ClientBecomes(c, client[c].phase, client[c].attached, client[c].want, client[c].snapshot)
    BY <2>1, DisplayBecomes
  <2>6. \A d \in Clients \ {c} : ghost'.newest[d] = ghost.newest[d]
    BY <2>2 DEF Noted, Ghost
  <2>7. \A d \in Clients : Sure(d)' => Sure(d) /\ client'[d].want = client[d].want
    BY <2>1, <2>2, <2>5 DEF Sure, ClientBecomes
  <2>8. \A d \in Clients \ {c} : \A p \in Points : Got(d, p) => Got(d, p)'
    BY <2>1, <2>3, <2>5, <2>6, GotSame DEF ClientBecomes
  <2> QED
    BY <2>1, <2>2, <2>4, <2>7, <2>8, SentIsGotBy
<1>2. CASE ReceiveReply(c)
  <2>1. /\ reply[c] \in Seq(Bundle) /\ reply[c] # <<>> /\ \A i \in DOMAIN reply[c] : Behind(reply[c][i])
        /\ UNCHANGED <<version, group, news>> /\ Display(c, Head(reply[c]))
        /\ reply' = [reply EXCEPT ![c] = Tail(reply[c])]
        /\ ghost' = [ghost EXCEPT !.newest = Noted(c, Head(reply[c])),
                                  !.initialised = ghost.initialised \cup {c}]
    BY <1>2 DEF ReceiveReply, NoneAhead
  <2>2. /\ ghost'.sent = ghost.sent /\ ghost'.newest = Noted(c, Head(reply[c]))
        /\ ghost'.inTime = ghost.inTime /\ ghost'.initialised = ghost.initialised \cup {c}
    BY <2>1 DEF Ghost
  <2>3. /\ reply'[c] = Tail(reply[c]) /\ \A d \in Clients \ {c} : reply'[d] = reply[d]
    BY <2>1
  <2>4. \A p \in Points : Got(c, p) => Got(c, p)'
    BY <2>1, <2>2, <2>3, TakenGot
  <2>5. ClientBecomes(c, client[c].phase, client[c].attached, client[c].want, client[c].snapshot)
    BY <2>1, DisplayBecomes
  <2>6. \A d \in Clients \ {c} : ghost'.newest[d] = ghost.newest[d]
    BY <2>2 DEF Noted, Ghost
  <2>7. \A d \in Clients : Sure(d)' => Sure(d) /\ client'[d].want = client[d].want
    BY <2>1, <2>2, <2>3, <2>5 DEF Sure, ClientBecomes
  <2>8. \A d \in Clients \ {c} : \A p \in Points : Got(d, p) => Got(d, p)'
    BY <2>1, <2>3, <2>5, <2>6, GotSame DEF ClientBecomes
  <2> QED
    BY <2>1, <2>2, <2>4, <2>7, <2>8, SentIsGotBy
<1> QED
  BY <1>1, <1>2 DEF ClientStep

LEMMA SentStep ==
  ASSUME TypeOK, NoneAhead, ClientOrder, SentIsGot, [Next]_vars
  PROVE  SentIsGot'
<1>1. ghost \in Ghost /\ client \in [Clients -> Client]
  BY DEF TypeOK
<1>2. CASE Loading
  <2>1. /\ poller.phase = "off" /\ UNCHANGED <<client, reply, ghost>>
    BY <1>2 DEF Loading, CreateGroup, DeleteGroup
  <2>2. \A c \in Clients : ~Sure(c)'
    BY <2>1, SureWants DEF Sure
  <2> QED
    BY <2>2 DEF SentIsGot
<1>3. ASSUME UNCHANGED <<version, group, client, news, reply>>,
             ghost'.sent = ghost.sent, ghost'.newest = ghost.newest,
             ghost'.inTime = ghost.inTime, ghost'.initialised = ghost.initialised
      PROVE  SentIsGot'
  <2>1. \A c \in Clients : Sure(c)' => Sure(c)
    BY <1>3 DEF Sure
  <2> QED
    BY <1>3, <2>1, GotSame, SentIsGotBy
<1>4. CASE StartPoller \/ ListArmed \/ (\E g \in Groups : ReadArmed(g)) \/ Publish(FALSE)
           \/ Disarm \/ UNCHANGED vars
  <2>1. UNCHANGED <<version, group, client, news, reply>>
    BY <1>4 DEF StartPoller, ListArmed, ReadArmed, Publish, Disarm, vars
  <2>2. /\ ghost'.sent = ghost.sent /\ ghost'.newest = ghost.newest
        /\ ghost'.inTime = ghost.inTime /\ ghost'.initialised = ghost.initialised
    BY <1>1, <1>4 DEF StartPoller, ListArmed, ReadArmed, Publish, Disarm, vars, Ghost
  <2> QED
    BY <1>3, <2>1, <2>2
<1>5. ASSUME NEW c \in Clients,
             \/ \E g \in Groups : Subscript(c, g)
             \/ Ask(c) \/ GiveUp(c) \/ Abort(c)
      PROVE  SentIsGot'
  <2>1. /\ UNCHANGED <<version, group, reply, ghost>>
        /\ \A d \in Clients \ {c} : client'[d] = client[d] /\ news'[d] = news[d]
        /\ client[c].phase \in {"new", "connecting"}
    <3>1. client[c].phase \in {"new", "connecting"} /\ UNCHANGED <<version, group, reply, ghost>>
      BY <1>5 DEF Subscript, Ask, GiveUp, Abort, Leave
    <3>2. \A d \in Clients \ {c} : client'[d] = client[d]
      BY <1>1, <1>5 DEF Subscript, Ask, GiveUp, Abort, Leave
    <3>3. \A d \in Clients \ {c} : news'[d] = news[d]
      BY <1>5 DEF Subscript, Ask, GiveUp, Abort, Leave, TypeOK
    <3> QED
      BY <3>1, <3>2, <3>3
  <2>2. ~Sure(c)'
    BY <2>1 DEF Sure, ClientOrder
  <2>3. \A d \in Clients : Sure(d)' => d # c /\ Sure(d)
    BY <2>1, <2>2 DEF Sure
  <2> QED
    BY <2>1, <2>3, GotSame, SentIsGotBy
<1>6. ASSUME NEW c \in Clients, Attach(c) PROVE SentIsGot'
  <2>1. /\ UNCHANGED <<version, group, news, reply, ghost>>
        /\ ClientBecomes(c, client[c].phase, TRUE, client[c].want, client[c].snapshot)
    BY <1>1, <1>6 DEF Attach, Client, ClientBecomes
  <2>2. \A d \in Clients : /\ client'[d].phase = client[d].phase
                           /\ client'[d].want = client[d].want
                           /\ client'[d].snapshot = client[d].snapshot
    BY <2>1 DEF ClientBecomes
  <2>3. \A d \in Clients : Sure(d)' => Sure(d)
    BY <2>1, <2>2 DEF Sure
  <2> QED
    BY <2>1, <2>2, <2>3, GotSame, SentIsGotBy
<1> QED
  BY <1>2, <1>4, <1>5, <1>6, WriteSent, PublishedSent, ServeReadSent, ServeReplySent, ReceiveSent
  DEF Next, PollerStep, ServerStep

LEMMA InitGot == Init => ClientOrder /\ NoneAhead /\ SentIsGot
<1> SUFFICES ASSUME Init PROVE ClientOrder /\ NoneAhead /\ SentIsGot
  OBVIOUS
<1>1. ClientOrder
  BY DEF Init, ClientOrder
<1>2. NoneAhead
  <2>1. \A p \in Points : /\ version[p] = 0
                          /\ \A g \in Groups : ghost.sent[g][p] = -1
                          /\ \A c \in Clients : ghost.newest[c][p] = -1
    BY DEF Init, Unseen, Unknown
  <2>2. Behind(Nothing)
    BY DEF Behind, Nothing
  <2>3. /\ poller.bundle = Nothing
        /\ \A c \in Clients : client[c].snapshot = Nothing /\ news[c] = <<>> /\ reply[c] = <<>>
    BY DEF Init
  <2> QED
    BY <2>1, <2>2, <2>3 DEF NoneAhead
<1>3. \A c \in Clients : ~Sure(c)
  BY DEF Init, Sure
<1> QED
  BY <1>1, <1>2, <1>3 DEF SentIsGot

(* A client whose subscription was in effect before the Digger read the    *)
(* group for it, and that has taken all that was sent to it, misses        *)
(* nothing but what Excuses names, for any points, groups and clients      *)
(* (DiggerPoller::work(), DiggerWorker::handle_sbs_ctrl(), subscript()).   *)
THEOREM NothingMissed == Spec => []NothingElseMissed
<1> DEFINE Inv == IInv /\ ClientOrder /\ NoneAhead /\ SentIsGot
<1>1. Init => Inv
  BY InitInv, InitGot
<1>2. Inv /\ [Next]_vars => Inv'
  <2>1. IInv => TypeOK
    BY DEF IInv
  <2> QED
    BY <2>1, NextInv, OrderStep, AheadStep, SentStep
<1>3. Inv => NothingElseMissed
  <2> SUFFICES ASSUME Inv, NEW c \in ghost.initialised \cap ghost.inTime,
                      news[c] = <<>>, reply[c] = <<>>, ~group[client[c].want].orphan,
                      NEW p \in group[client[c].want].items,
                      ~modified[p], <<client[c].want, p>> \notin ghost.excused
               PROVE  ghost.newest[c][p] = version[p]
    BY DEF NothingElseMissed
  <2>1. c \in Clients /\ Sure(c) /\ TypeOK
    BY DEF IInv, TypeOK, Ghost, Sure
  <2>2. client[c].want \in Groups
    BY <2>1, SureWants
  <2>3. version[p] = 0 \/ ghost.sent[client[c].want][p] = version[p]
    BY <2>2 DEF IInv, SentOrMarked
  <2>4. Got(c, p)
    BY <2>1, <2>3 DEF SentIsGot
  <2>5. client[c].phase = "answered"
    BY <2>1 DEF ClientOrder
  <2> QED
    BY <2>4, <2>5 DEF Got
<1> QED
  BY <1>1, <1>2, <1>3, PTL DEF Spec

=============================================================================
