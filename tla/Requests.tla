------------------------------ MODULE Requests ------------------------------
(***************************************************************************)
(* How the Digger answers requests.  Its workers (threads "DiggerWorker")  *)
(* take requests from the queue of the proxy; the items of a request are   *)
(* read or written one by one, each in a transaction of its own, and one   *)
(* reply is sent.  A thread of its own (DiggerPoller) queries for changes. *)
(*                                                                         *)
(* All of them have connections of their own to the same DatabaseRtapImpl, *)
(* and that keeps the last error in one member.  An operation sets it when *)
(* it begins, when something fails and when it ends; the connection copies *)
(* it after that.                                                          *)
(*                                                                         *)
(* What the requests do to the points is in Points and Validity: here an   *)
(* operation has an outcome, and none of them is ruled out.                *)
(***************************************************************************)
EXTENDS Integers, FiniteSets

CONSTANTS
  Workers,   \* the threads of the Digger
  MaxItems,  \* bound on the items of a request
  Kinds      \* the kinds of requests that clients send

Poller == "poller"

ASSUME RequestsAssumption ==
  /\ Poller \notin Workers
  /\ MaxItems \in Nat \ {0}
  /\ Kinds \subseteq {"read", "write", "group", "other"}

Actors == Workers \cup {Poller}

Errors ==
  {"NONE", "RUNTIME_ERROR", "RUNTIME_WARNING", "ILLEGAL_PARAMETER_VALUE",
   "POINT_NOT_FOUND", "ATTR_NOT_FOUND", "ILLEGAL_TAG_NAME"}

\* The bits of the code of an error, which writes are accumulated by.
Bits(error) ==
  CASE error = "NONE" -> {}
    [] error = "RUNTIME_ERROR" -> {4}
    [] error = "RUNTIME_WARNING" -> {4, 0}
    [] error = "ILLEGAL_PARAMETER_VALUE" -> {4, 3, 1}
    [] error = "POINT_NOT_FOUND" -> {4, 3, 1, 0}
    [] error = "ATTR_NOT_FOUND" -> {4, 3, 2}
    [] error = "ILLEGAL_TAG_NAME" -> {4, 3, 2, 0}

VARIABLES
  lastError,  \* DatabaseImpl::m_last_error, one for all
  task,       \* actor |-> what it is doing
  reply,      \* worker |-> what it sent last
  disturbed   \* the actors that another one met in an operation of their request
              \* (a history variable)

vars == <<lastError, task, reply, disturbed>>

\* A task: the kind of request, the items that are left, the operation that
\* is being done and how far it is, what it came to and what became of its
\* item (history fields), the quality of the item; what was gathered for the
\* reply: the bits, and for each item read whether it is good and what became
\* of it; whether an operation failed (a history field).  The quality is the
\* client's own at first.
Idle ==
  [kind |-> "none", left |-> 0, at |-> "idle", op |-> "none", outcome |-> "NONE",
   item |-> "waits", quality |-> "ATTR_ERROR", status |-> {}, failed |-> FALSE, items |-> {}]

NoReply == [kind |-> "none", status |-> {}, last |-> "NONE", failed |-> FALSE, items |-> {}]

Init ==
  /\ lastError = "NONE"
  /\ task = [a \in Actors |-> Idle]
  /\ reply = [w \in Workers |-> NoReply]
  /\ disturbed = {}

At(a, place) == task[a].at = place

\* In an operation: from the first use of the last error to its copy.
InOperation == {a \in Actors : task[a].at \in {"inside", "clearing", "returning"}}

\* An operation of the request: the two of "group" are the control of the
\* group, whose result is overwritten, and the reading of its points.
OperationOf(t) ==
  CASE t.kind = "group" -> IF t.left = 2 THEN "config" ELSE "points"
    [] OTHER -> t.kind

-----------------------------------------------------------------------------
(* The operations.                                                         *)

\* A worker takes a request.
Receive(w, kind, n) ==
  /\ At(w, "idle")
  /\ task' = [task EXCEPT ![w] = [Idle EXCEPT
       !.kind = kind, !.left = IF kind = "group" THEN 2 ELSE n,
       !.at = IF kind = "other" THEN "ignored" ELSE "ready"]]
  /\ reply' = [reply EXCEPT ![w] = NoReply]
  /\ disturbed' = disturbed \ {w}
  /\ UNCHANGED lastError

\* The poller queries by itself, one query after the other.
Poll ==
  /\ At(Poller, "idle")
  /\ task' = [task EXCEPT ![Poller] = [Idle EXCEPT !.kind = "query", !.left = 1, !.at = "ready"]]
  /\ disturbed' = disturbed \ {Poller}
  /\ UNCHANGED <<lastError, reply>>

\* What an operation begins with.
First(op) == IF op \in {"query", "config"} THEN "NONE" ELSE "RUNTIME_ERROR"

\* The quality of an item whose reading was committed; as what it begins
\* with, a mutant.
LastQuality(t) == IF t.kind = "read" THEN "ATTR_OK" ELSE t.quality

\* The quality that the reading of an item begins with.
FirstQuality(t) == IF t.kind = "read" THEN "ATTR_NOT_FOUND" ELSE t.quality

\* Query() and Config() begin without error, the others with one.
Begin(a) ==
  LET op == OperationOf(task[a]) IN
  /\ At(a, "ready")
  /\ task[a].left > 0
  /\ lastError' = First(op)
  /\ task' = [task EXCEPT ![a] =
       [@ EXCEPT !.at = "inside", !.op = op, !.quality = FirstQuality(task[a])]]
  /\ disturbed' = IF InOperation = {} THEN disturbed ELSE disturbed \cup InOperation \cup {a}
  /\ UNCHANGED reply

\* The transaction, or what comes instead of it.
Ends(a, outcome) ==
  task' = [task EXCEPT ![a] =
    [@ EXCEPT !.at = "returning", !.outcome = outcome,
              !.item = IF outcome = "NONE" THEN "served" ELSE "failed"]]

\* A failure leaves the last error that was set last: at its beginning, or
\* for the failure.
Fail(a, error) == lastError' = error /\ Ends(a, error)

\* Where the last error is left as it is.
FailSilently(a, error) == UNCHANGED lastError /\ Ends(a, error)

\* The transaction is committed, after an error that does not count.
Commits(a, item, error) ==
  /\ lastError' = error
  /\ task' = [task EXCEPT ![a] =
       [@ EXCEPT !.at = "clearing", !.outcome = "NONE", !.item = item]]

\* An attribute without a function is skipped, which is no failure in the end.
ReadOrWrite(a) ==
  /\ task[a].op \in {"read", "write"}
  /\ \/ \E error \in {"POINT_NOT_FOUND", "ILLEGAL_PARAMETER_VALUE"} : Fail(a, error)
     \/ FailSilently(a, "RUNTIME_ERROR")
     \/ Fail(a, "ATTR_NOT_FOUND")
     \/ task[a].op = "read" /\ Fail(a, "ILLEGAL_TAG_NAME")
     \/ Commits(a, "served", lastError)
     \/ Commits(a, "skipped", "ATTR_NOT_FOUND")

\* A point of the group that cannot be read ends the loop, and is no failure
\* if nothing else fails.
ReadPoints(a) ==
  /\ task[a].op = "points"
  /\ \/ FailSilently(a, "RUNTIME_ERROR")
     \/ Fail(a, "ILLEGAL_PARAMETER_VALUE")
     \/ \E error \in {lastError, "ILLEGAL_PARAMETER_VALUE"} : Commits(a, "served", error)

Query(a) ==
  /\ task[a].op = "query"
  /\ Fail(a, "RUNTIME_ERROR") \/ FailSilently(a, "NONE")

Config(a) ==
  /\ task[a].op = "config"
  /\ Fail(a, "RUNTIME_WARNING") \/ FailSilently(a, "NONE")

Transact(a) ==
  /\ At(a, "inside")
  /\ ReadOrWrite(a) \/ ReadPoints(a) \/ Query(a) \/ Config(a)
  /\ UNCHANGED <<reply, disturbed>>

\* A mutant: the error is not cleared after success.
KeepError(a) ==
  /\ At(a, "clearing")
  /\ task' = [task EXCEPT ![a].at = "returning"]
  /\ UNCHANGED <<lastError, reply, disturbed>>

\* What was read, or skipped, is good.
Clear(a) ==
  /\ At(a, "clearing")
  /\ lastError' = "NONE"
  /\ task' = [task EXCEPT ![a] =
       [@ EXCEPT !.at = "returning", !.quality = LastQuality(task[a])]]
  /\ UNCHANGED <<reply, disturbed>>

-----------------------------------------------------------------------------
(* What the handlers make of the result.                                   *)

\* An item is put into the reply with the quality that read() gave it, if no
\* error is seen; otherwise the client's own is sent back.
Delivered(seen, t) ==
  [quality |-> IF seen = "NONE" THEN t.quality ELSE Idle.quality, was |-> t.item]

\* A mutant: the first error of a request is reported.
StatusOfFirst(status, error) == IF status = {} THEN Bits(error) ELSE status

\* A success resets what had been accumulated.
StatusAfter(status, error) == IF error = "NONE" THEN {} ELSE status \cup Bits(error)

Return(a) ==
  LET t == task[a] IN
  /\ At(a, "returning")
  /\ task' = [task EXCEPT ![a] =
       [t EXCEPT !.left = @ - 1, !.at = "ready",
          !.status = CASE t.kind = "write" -> StatusAfter(@, lastError)
                       [] t.kind = "group" -> Bits(lastError)
                       [] OTHER -> @,
          !.failed = @ \/ t.outcome # "NONE",
          !.items = IF t.kind = "read" THEN @ \cup {Delivered(lastError, t)} ELSE @,
          !.item = "waits", !.quality = Idle.quality]]
  /\ UNCHANGED <<lastError, reply, disturbed>>

Done(a) == At(a, "ready") /\ task[a].left = 0

\* The reply to a reading has its items, that to a writing the status.  A
\* group is sent if no error is seen; nothing is sent otherwise.
Send(w) ==
  LET t == task[w] IN
  /\ Done(w)
  /\ reply' = IF t.kind = "group" /\ t.status # {} THEN reply
              ELSE [reply EXCEPT ![w] =
                     [kind |-> t.kind, status |-> IF t.kind = "write" THEN t.status ELSE {},
                      last |-> t.outcome, failed |-> t.failed, items |-> t.items]]
  /\ task' = [task EXCEPT ![w] = Idle]
  /\ UNCHANGED <<lastError, disturbed>>

\* An unsupported or invalid letter, or an unsupported control of a group.
Ignore(w) ==
  /\ At(w, "ignored")
  /\ task' = [task EXCEPT ![w] = Idle]
  /\ UNCHANGED <<lastError, reply, disturbed>>

EndPoll ==
  /\ Done(Poller)
  /\ task' = [task EXCEPT ![Poller] = Idle]
  /\ UNCHANGED <<lastError, reply, disturbed>>

Operate(a) == Begin(a) \/ Transact(a) \/ Clear(a) \/ Return(a)

Serve(w) == Operate(w) \/ Send(w) \/ Ignore(w)

ReceiveAny(w) == \E kind \in Kinds, n \in 1..MaxItems : Receive(w, kind, n)

Next ==
  \/ \E w \in Workers : ReceiveAny(w) \/ Serve(w)
  \/ Poll
  \/ Operate(Poller)
  \/ EndPoll

Spec == Init /\ [][Next]_vars

-----------------------------------------------------------------------------
(* Properties.                                                             *)

Qualities == {"ATTR_ERROR", "ATTR_NOT_FOUND", "ATTR_OK"}

Fates == {"waits", "served", "skipped", "failed"}

ItemType == [quality : Qualities, was : Fates]

TaskType ==
  [kind : {"none", "read", "write", "group", "other", "query"},
   left : Nat,
   at : {"idle", "ready", "inside", "clearing", "returning", "ignored"},
   op : {"none", "read", "write", "config", "points", "query"},
   outcome : Errors,
   item : Fates,
   quality : Qualities,
   status : SUBSET (0..4),
   failed : BOOLEAN,
   items : SUBSET ItemType]

ReplyType ==
  [kind : {"none", "read", "write", "group"}, status : SUBSET (0..4), last : Errors,
   failed : BOOLEAN, items : SUBSET ItemType]

(* The variables have their types.  Only the workers answer, and the bits  *)
(* that are accumulated stay within those of the codes.                    *)
TypeOK ==
  /\ lastError \in Errors
  /\ task \in [Actors -> TaskType]
  /\ reply \in [Workers -> ReplyType]
  /\ disturbed \subseteq Actors

(* When no other thread was in an operation of the database in the         *)
(* meantime, the error that read(), write(), Query() and Config() return,  *)
(* and the connection copies, is the outcome of that operation.            *)
OwnResultWhenAlone ==
  \A a \in Actors : At(a, "returning") /\ a \notin disturbed => lastError = task[a].outcome

(* Whatever the other threads do to the last error, handle_read() sends no *)
(* item as good whose reading failed; and if no other thread interfered,   *)
(* every one as good whose reading did not, which includes attributes that *)
(* read() has no function for.                                             *)
ReadIsTold ==
  \A w \in Workers : \A item \in task[w].items \cup reply[w].items :
    /\ item.quality = "ATTR_OK" => item.was # "failed"
    /\ w \notin disturbed /\ item.was # "failed" => item.quality = "ATTR_OK"

(* The reply that handle_write() sends tells whether the last item was     *)
(* written, and has the code of its error, if no other thread interfered   *)
(* with the request.                                                       *)
LastWriteIsTold ==
  \A w \in Workers :
    reply[w].kind = "write" /\ w \notin disturbed =>
      /\ reply[w].status = {} <=> reply[w].last = "NONE"
      /\ Bits(reply[w].last) \subseteq reply[w].status

(* handle_write() calls its status "accumulating error code"               *)
(* (src/worker/wdigger.cpp:608): no error is reported only if every item   *)
(* was written.  Not so: the next item that is written resets it.          *)
WriteReplyIsTrue ==
  \A w \in Workers :
    reply[w].kind = "write" /\ w \notin disturbed /\ reply[w].status = {} => ~reply[w].failed

=============================================================================
