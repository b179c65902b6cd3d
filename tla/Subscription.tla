---------------------------- MODULE Subscription ----------------------------
(***************************************************************************)
(* Subscription groups ("SBS") of the Digger.  A group is a named list of  *)
(* points of the database.  A write of an attribute marks its point as     *)
(* modified; once a second the thread DiggerPoller publishes the modified  *)
(* points of every group on a PUB socket and then clears the marks.  A     *)
(* client opens a SUB socket first, asks the broker for the Digger, and    *)
(* sends SBS_CTRL; a DiggerWorker answers with the values of the whole     *)
(* group (READ_MULTI).                                                     *)
(*                                                                         *)
(* Each operation of the database is one transaction, so one action.  Two  *)
(* operations of a thread are two actions: other threads write between a   *)
(* reading and the publication, and between that and the clearing.         *)
(*                                                                         *)
(* The value of a point is the number of times it was written.             *)
(***************************************************************************)
EXTENDS Integers, Sequences, FiniteSets

CONSTANTS
  Points,        \* the points of the database: loaded once, never deleted
  UnknownTags,   \* tags in a file of a group that no point has
  Groups,        \* names of groups
  Prefix,        \* pairs of names, the first a proper prefix of the second
  Clients,
  NoGroup,       \* no group chosen yet
  MaxVersion,    \* bound: how often any point is written ...
  WriteLimit,    \* ... and how often each of them
  MaxFailures    \* bound: how many messages fail with an exception

ASSUME SubscriptionAssumption ==
  /\ Points \cap UnknownTags = {}
  /\ Prefix \subseteq Groups \X Groups
  /\ NoGroup \notin Groups
  /\ MaxVersion \in Nat
  /\ WriteLimit \in [Points -> 0 .. MaxVersion]
  /\ MaxFailures \in Nat

VARIABLES
  version,   \* attributes of each point
  modified,  \* is_modified of each point
  group,     \* SBS_GROUPS_STAT with the SBS_GROUPS_ITEM of each group
  poller,    \* the locals of DiggerPoller::work()
  client,    \* the client processes, and the thread that answers each of them
  news,      \* what was published to each client and it has not received
  reply,     \* what was answered to each client and it has not received
  failures,  \* exceptions so far
  ghost      \* history, for the properties only

vars == <<version, modified, group, poller, client, news, reply, failures, ghost>>

Unknown == -1
Version == 0 .. MaxVersion
\* Values of some points, as a message or a vector of points carries them.
Bundle == UNION {[P -> Version] : P \in SUBSET Points}
Nothing == [p \in {} |-> 0]

Group == [exists: BOOLEAN, items: SUBSET Points, orphan: BOOLEAN]
NotCreated == [exists |-> FALSE, items |-> {}, orphan |-> FALSE]

Poller ==
  [phase: {"off", "idle", "read", "publish"},
   todo: SUBSET Groups,               \* rest of sbs_map
   current: Groups \cup {NoGroup},    \* it_sbs
   bundle: Bundle,                    \* points_list
   ready: SUBSET Points]              \* sbs_points_ready_to_clear_modif_flags

Client ==
  [phase: {"new", "connecting", "asked", "served", "answered", "exited", "aborted"},
   want: Groups \cup {NoGroup},
   attached: BOOLEAN,                 \* the publisher knows of the subscription
   snapshot: Bundle,                  \* points_list of handle_sbs_ctrl()
   shown: [Points -> Version \cup {Unknown}]]   \* the last value displayed

\* sent: the last version of a point published to a group
\* during: points written since the poller listed the groups
\* failed: groups whose publication failed since then
\* excused: pairs the poller cleared a mark for, although the point was
\*   written during the round, or only another group was published
\* inTime: clients attached before their snapshot was read
\* initialised: clients that received READ_MULTI
\* newest: the latest version of a point a client received
Ghost ==
  [sent: [Groups -> [Points -> Version \cup {Unknown}]],
   during: SUBSET Points,
   failed: SUBSET Groups,
   excused: SUBSET (Groups \X Points),
   inTime: SUBSET Clients,
   initialised: SUBSET Clients,
   newest: [Clients -> [Points -> Version \cup {Unknown}]]]

Unseen == [p \in Points |-> Unknown]

Init ==
  /\ version = [p \in Points |-> 0]
  /\ modified = [p \in Points |-> FALSE]
  /\ group = [g \in Groups |-> NotCreated]
  /\ poller = [phase |-> "off", todo |-> {}, current |-> NoGroup,
               bundle |-> Nothing, ready |-> {}]
  /\ client = [c \in Clients |->
                 [phase |-> "new", want |-> NoGroup, attached |-> FALSE,
                  snapshot |-> Nothing, shown |-> Unseen]]
  /\ news = [c \in Clients |-> <<>>]
  /\ reply = [c \in Clients |-> <<>>]
  /\ failures = 0
  /\ ghost = [sent |-> [g \in Groups |-> Unseen],
              during |-> {}, failed |-> {}, excused |-> {},
              inTime |-> {}, initialised |-> {},
              newest |-> [c \in Clients |-> Unseen]]

-----------------------------------------------------------------------------
(* The database.                                                           *)

(* createGroup() for a new name.  The tags come from an unordered_set; an  *)
(* unknown one ends the loop, with the points before it and an item of no  *)
(* point in the group, and the transaction is committed.                   *)
CreateGroup(g, tags) ==
  /\ poller.phase = "off"
  /\ ~group[g].exists
  /\ \E found \in SUBSET (tags \cap Points) :
       /\ tags \subseteq Points => found = tags
       /\ group' = [group EXCEPT ![g] =
            [exists |-> TRUE, items |-> found, orphan |-> ~(tags \subseteq Points)]]
  /\ UNCHANGED <<version, modified, poller, client, news, reply, failures, ghost>>

(* deleteGroup(): the items, the one of no point too, then the group.      *)
DeleteGroup(g) ==
  /\ poller.phase = "off"
  /\ group[g].exists
  /\ group' = [group EXCEPT ![g] = NotCreated]
  /\ UNCHANGED <<version, modified, poller, client, news, reply, failures, ghost>>

(* Mutant of Marked: the value is written without the mark.                *)
MarkedNot(p) == modified

Marked(p) == [modified EXCEPT ![p] = TRUE]

(* write(), or an update of VALIDCHANGE, in its own transaction.           *)
Write(p) ==
  /\ version[p] < WriteLimit[p]
  /\ version' = [version EXCEPT ![p] = @ + 1]
  /\ modified' = Marked(p)
  /\ ghost' = [ghost EXCEPT !.during = @ \cup {p}]
  /\ UNCHANGED <<group, poller, client, news, reply, failures>>

ArmedPoints(g) == {p \in group[g].items : modified[p]}

(* querySbsArmedGroup(): a group with several such points is listed once.  *)
ArmedGroups == {g \in Groups : group[g].exists /\ ArmedPoints(g) # {}}

(* Mutant of Armed: the values of the whole group.                         *)
ArmedUnread(g) == Nothing

(* querySbsPoints() for rtQUERY_SBS_READ_POINTS_ARMED                      *)
Armed(g) == [p \in ArmedPoints(g) |-> version[p]]

(* read() of a group: an item of no point ends the loop over the index,    *)
(* and the points before it are returned.                                  *)
Snapshots(g) ==
  {[p \in P |-> version[p]] :
     P \in IF group[g].orphan THEN SUBSET group[g].items ELSE {group[g].items}}

-----------------------------------------------------------------------------
(* DiggerPoller::work()                                                    *)

(* start_sbs_poller() of DiggerProbe, when the database is loaded.         *)
StartPoller ==
  /\ poller.phase = "off"
  /\ poller' = [poller EXCEPT !.phase = "idle"]
  /\ UNCHANGED <<version, modified, group, client, news, reply, failures, ghost>>

ListArmed ==
  /\ poller.phase = "idle"
  /\ poller' = [poller EXCEPT !.phase = "read", !.todo = ArmedGroups, !.ready = {}]
  /\ ghost' = [ghost EXCEPT !.during = {}, !.failed = {}]
  /\ UNCHANGED <<version, modified, group, client, news, reply, failures>>

ReadArmed(g) ==
  /\ poller.phase = "read"
  /\ g \in poller.todo
  /\ poller' = [poller EXCEPT !.phase = "publish", !.todo = @ \ {g},
                              !.current = g, !.bundle = Armed(g)]
  /\ UNCHANGED <<version, modified, group, client, news, reply, failures, ghost>>

(* A SUB socket filters by the beginning of the first frame.               *)
Matches(want, g) == want = g \/ <<want, g>> \in Prefix

(* Mutant of Listeners: the SUB socket is opened after READ_MULTI.         *)
ListenersAnswered(g) ==
  {c \in Clients : client[c].phase = "answered" /\ Matches(client[c].want, g)}

Listeners(g) == {c \in Clients : client[c].attached /\ Matches(client[c].want, g)}

(* Mutant of Published: the points of a failed publication are cleared too. *)
PublishedAnyway(ok) == poller.ready \cup DOMAIN poller.bundle

Published(ok) == IF ok THEN poller.ready \cup DOMAIN poller.bundle ELSE poller.ready

(* publish_sbs_impl() returns false after an exception.                    *)
Publish(ok) ==
  LET g == poller.current
      b == poller.bundle
  IN  /\ poller.phase = "publish"
      /\ poller' = [poller EXCEPT !.phase = "read", !.current = NoGroup,
                                  !.bundle = Nothing, !.ready = Published(ok)]
      /\ IF ok
         THEN /\ news' = [c \in Clients |-> IF c \in Listeners(g)
                            THEN Append(news[c], b) ELSE news[c]]
              /\ ghost' = [ghost EXCEPT
                   !.sent[g] = [p \in Points |-> IF p \in DOMAIN b THEN b[p] ELSE @[p]],
                   !.excused = @ \ ({g} \X DOMAIN b)]
              /\ UNCHANGED failures
         ELSE /\ failures < MaxFailures
              /\ failures' = failures + 1
              /\ ghost' = [ghost EXCEPT !.failed = @ \cup {g}]
              /\ UNCHANGED news
      /\ UNCHANGED <<version, modified, group, client, reply>>

(* Mutant of Disarmed: no mark is cleared.                                 *)
DisarmedNone == modified

(* querySbsDisarmSelectedPoints()                                          *)
Disarmed == [p \in Points |-> modified[p] /\ p \notin poller.ready]

(* The pairs whose mark is cleared for a reason the comments of the code   *)
(* leave open: the point was written since the groups were listed, or the  *)
(* publication failed while another group with the point was published.    *)
Excuses ==
  {x \in Groups \X poller.ready :
     /\ x[2] \in group[x[1]].items
     /\ \/ x[2] \in ghost.during
        \/ /\ x[1] \in ghost.failed
           /\ \E h \in Groups \ {x[1]} : /\ x[2] \in group[h].items
                                        /\ ghost.sent[h][x[2]] = version[x[2]]}

Disarm ==
  /\ poller.phase = "read"
  /\ poller.todo = {}
  /\ modified' = Disarmed
  /\ poller' = [poller EXCEPT !.phase = "idle", !.ready = {}]
  /\ ghost' = [ghost EXCEPT !.excused = @ \cup Excuses]
  /\ UNCHANGED <<version, group, client, news, reply, failures>>

-----------------------------------------------------------------------------
(* A client in mode SUBSCRIBE and the thread DiggerWorker that serves it.  *)

Subscript(c, g) ==
  /\ client[c].phase = "new"
  /\ client' = [client EXCEPT ![c].phase = "connecting", ![c].want = g]
  /\ UNCHANGED <<version, modified, group, poller, news, reply, failures, ghost>>

(* External: the subscription has come to the PUB socket.                  *)
Attach(c) ==
  /\ client[c].phase \notin {"new", "exited", "aborted"}
  /\ ~client[c].attached
  /\ poller.phase # "off"
  /\ client' = [client EXCEPT ![c].attached = TRUE]
  /\ UNCHANGED <<version, modified, group, poller, news, reply, failures, ghost>>

(* ask_service_info() takes the first message recv() returns: the answer   *)
(* of the broker, after which SBS_CTRL is sent to the Digger ...           *)
Ask(c) ==
  /\ client[c].phase = "connecting"
  /\ client' = [client EXCEPT ![c].phase = "asked"]
  /\ UNCHANGED <<version, modified, group, poller, news, reply, failures, ghost>>

(* The process exits, with its sockets.                                    *)
Leave(c, phase) ==
  /\ client' = [client EXCEPT ![c].phase = phase, ![c].attached = FALSE]
  /\ news' = [news EXCEPT ![c] = <<>>]
  /\ UNCHANGED <<version, modified, group, poller, reply, failures, ghost>>

(* ... no message in time, or no such service ...                          *)
GiveUp(c) ==
  /\ client[c].phase = "connecting"
  /\ Leave(c, "exited")

(* ... or an update of the group, which is not the answer it asserts.      *)
Abort(c) ==
  /\ client[c].phase = "connecting"
  /\ news[c] # <<>>
  /\ Leave(c, "aborted")

(* handle_sbs_ctrl() reads the group; for a name it does not know it does  *)
(* not answer.                                                             *)
ServeRead(c) ==
  LET g == client[c].want
  IN  /\ poller.phase # "off"
      /\ client[c].phase = "asked"
      /\ IF group[g].exists
         THEN \E s \in Snapshots(g) :
                client' = [client EXCEPT ![c].phase = "served", ![c].snapshot = s]
         ELSE client' = [client EXCEPT ![c].phase = "answered"]
      /\ ghost' = IF client[c].attached THEN [ghost EXCEPT !.inTime = @ \cup {c}] ELSE ghost
      /\ UNCHANGED <<version, modified, group, poller, news, reply, failures>>

(* publish_sbs_impl() of READ_MULTI to the identity of the client          *)
ServeReply(c, ok) ==
  /\ client[c].phase = "served"
  /\ client' = [client EXCEPT ![c].phase = "answered", ![c].snapshot = Nothing]
  /\ IF ok
     THEN reply' = [reply EXCEPT ![c] = Append(@, client[c].snapshot)] /\ UNCHANGED failures
     ELSE failures < MaxFailures /\ failures' = failures + 1 /\ UNCHANGED reply
  /\ UNCHANGED <<version, modified, group, poller, news, ghost>>

Waiting(c) == client[c].phase \in {"asked", "served", "answered"}

Later(v, w) == IF v > w THEN v ELSE w

(* process_sbs_update_response(), process_read_response()                  *)
Display(c, b) ==
  client' = [client EXCEPT ![c].shown =
               [p \in Points |-> IF p \in DOMAIN b THEN b[p] ELSE @[p]]]

Noted(c, b) ==
  [ghost.newest EXCEPT ![c] =
     [p \in Points |-> IF p \in DOMAIN b THEN Later(b[p], @[p]) ELSE @[p]]]

(* recv() looks at the SUB socket first ...                                *)
ReceiveUpdate(c) ==
  /\ Waiting(c)
  /\ news[c] # <<>>
  /\ Display(c, Head(news[c]))
  /\ news' = [news EXCEPT ![c] = Tail(@)]
  /\ ghost' = [ghost EXCEPT !.newest = Noted(c, Head(news[c]))]
  /\ UNCHANGED <<version, modified, group, poller, reply, failures>>

(* ... and then at the socket of the Digger.                               *)
ReceiveReply(c) ==
  /\ Waiting(c)
  /\ news[c] = <<>>
  /\ reply[c] # <<>>
  /\ Display(c, Head(reply[c]))
  /\ reply' = [reply EXCEPT ![c] = Tail(@)]
  /\ ghost' = [ghost EXCEPT !.newest = Noted(c, Head(reply[c])),
                            !.initialised = @ \cup {c}]
  /\ UNCHANGED <<version, modified, group, poller, news, failures>>

-----------------------------------------------------------------------------
Loading ==
  \E g \in Groups :
    \/ \E tags \in SUBSET (Points \cup UnknownTags) : CreateGroup(g, tags)
    \/ DeleteGroup(g)

PollerStep ==
  \/ ListArmed
  \/ \E g \in Groups : ReadArmed(g)
  \/ \E ok \in BOOLEAN : Publish(ok)
  \/ Disarm

ClientStep(c) == ReceiveUpdate(c) \/ ReceiveReply(c)

ServerStep(c) ==
  \/ ServeRead(c)
  \/ \E ok \in BOOLEAN : ServeReply(c, ok)

Next ==
  \/ Loading
  \/ \E p \in Points : Write(p)
  \/ StartPoller
  \/ PollerStep
  \/ \E c \in Clients :
       \/ \E g \in Groups : Subscript(c, g)
       \/ Attach(c)
       \/ Ask(c)
       \/ GiveUp(c)
       \/ Abort(c)
       \/ ServerStep(c)
       \/ ClientStep(c)

Spec == Init /\ [][Next]_vars

(* The poller loops for ever, a worker thread takes what it is sent, and a *)
(* client calls recv() again after each message.                           *)
LiveSpec ==
  /\ Spec
  /\ WF_vars(PollerStep)
  /\ \A c \in Clients : WF_vars(ServerStep(c)) /\ WF_vars(ClientStep(c))

-----------------------------------------------------------------------------
(* Properties.                                                             *)

TypeOK ==
  /\ version \in [Points -> Version]
  /\ modified \in [Points -> BOOLEAN]
  /\ group \in [Groups -> Group]
  /\ poller \in Poller
  /\ poller.phase = "publish" => poller.current \in Groups
  /\ client \in [Clients -> Client]
  /\ \A c \in Clients : client[c].phase # "new" => client[c].want \in Groups
  /\ news \in [Clients -> Seq(Bundle)]
  /\ reply \in [Clients -> Seq(Bundle)]
  /\ failures \in 0 .. MaxFailures
  /\ ghost \in Ghost

(* Whatever the order of writes and of the poller's transactions, a point  *)
(* of a group whose mark is clear was published to that group with its     *)
(* last value, unless it was written while the poller was between listing  *)
(* the groups and clearing the marks, or the message to that group failed  *)
(* and the message to another one did not.  Nothing else loses an update.  *)
SentOrMarked ==
  \A g \in Groups : \A p \in group[g].items :
    \/ modified[p]
    \/ version[p] = 0
    \/ ghost.sent[g][p] = version[p]
    \/ <<g, p>> \in ghost.excused

(* The same for a client: when its subscription was in effect before the   *)
(* Digger read the group for it, and it has received all there is, it has  *)
(* got the last value of every point that is not marked.  Opening the SUB  *)
(* socket before the request is what makes this true.                      *)
NothingElseMissed ==
  \A c \in ghost.initialised \cap ghost.inTime :
    LET g == client[c].want
    IN  news[c] = <<>> /\ reply[c] = <<>> /\ ~group[g].orphan =>
          \A p \in group[g].items :
            \/ modified[p]
            \/ ghost.newest[c][p] = version[p]
            \/ <<g, p>> \in ghost.excused

(* The mark of a point in a group is cleared in the end: the poller, its   *)
(* rounds and the failures of a round leave none behind.                   *)
MarksAreCleared ==
  \A g \in Groups, p \in Points :
    (poller.phase # "off" /\ p \in group[g].items /\ modified[p]) ~> ~modified[p]

(* A client that has got its initial values and waits for updates gets a   *)
(* value written now, or a later one, unless the mark is cleared for one   *)
(* of the reasons above: a failed message is sent again.                   *)
UpdatesAreDelivered ==
  \A c \in Clients, p \in Points, v \in Version :
    ( /\ c \in ghost.initialised \cap ghost.inTime
      /\ p \in group[client[c].want].items
      /\ ~group[client[c].want].orphan
      /\ version[p] = v )
    ~> (ghost.newest[c][p] >= v \/ <<client[c].want, p>> \in ghost.excused)

=============================================================================
