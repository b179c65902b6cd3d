--------------------------- MODULE RequestsProofs ---------------------------
(***************************************************************************)
(* Proofs about Requests, for any number of workers, any bound on the      *)
(* items of a request and any kinds of them.                               *)
(***************************************************************************)
EXTENDS Requests, TLAPS

-----------------------------------------------------------------------------
(* The inductive invariant.                                                *)

Inside == {"inside", "clearing", "returning"}

(* An operation is one of a request that is not done, and is of its kind.  *)
Ordered(a, t) ==
  /\ t.at \in Inside => t.left > 0 /\ t.op = OperationOf(t)
  /\ t.at \in Inside \cup {"ready"} =>
       t.kind \in IF a = Poller THEN {"query"} ELSE {"read", "write", "group"}

InOrder == \A a \in Actors : Ordered(a, task[a])

(* Two actors in an operation at the same time are both disturbed.         *)
TogetherDisturbed ==
  \A a, b \in Actors :
    a # b /\ task[a].at \in Inside /\ task[b].at \in Inside => a \in disturbed

(* The last error while an undisturbed operation goes on.                  *)
OwnErrorSoFar ==
  \A a \in Actors \ disturbed :
    /\ task[a].at = "inside" => lastError = First(task[a].op)
    /\ task[a].at = "clearing" => task[a].outcome = "NONE"

(* What is known of an item that is read: its quality is good from the     *)
(* commit on, and an outcome without error is that of an item that did not *)
(* fail.                                                                   *)
Told(t) ==
  t.kind = "read" =>
    /\ t.at = "inside" => t.quality = "ATTR_NOT_FOUND"
    /\ t.at = "clearing" => t.item # "failed" /\ t.outcome = "NONE"
    /\ t.at = "returning" =>
         /\ t.item = "failed" <=> t.outcome # "NONE"
         /\ t.quality = IF t.item = "failed" THEN "ATTR_NOT_FOUND" ELSE "ATTR_OK"

ItemsKnown == \A a \in Actors : Told(task[a])

(* What the quality of an item says of its reading, disturbed or alone.    *)
TruthOf(item, alone) ==
  /\ item.quality = "ATTR_OK" => item.was # "failed"
  /\ alone /\ item.was # "failed" => item.quality = "ATTR_OK"

Tells(status, error) ==
  /\ status = {} <=> error = "NONE"
  /\ Bits(error) \subseteq status

(* What handle_write() knows of the last item between two of them.         *)
StatusTellsLast ==
  \A w \in Workers \ disturbed :
    task[w].kind = "write" /\ task[w].at = "ready" => Tells(task[w].status, task[w].outcome)

IInv ==
  /\ TypeOK
  /\ InOrder
  /\ TogetherDisturbed
  /\ OwnErrorSoFar
  /\ OwnResultWhenAlone
  /\ ItemsKnown
  /\ ReadIsTold
  /\ StatusTellsLast
  /\ LastWriteIsTold


-----------------------------------------------------------------------------
LEMMA WorkersAct == Workers \subseteq Actors /\ Poller \in Actors
BY DEF Actors

LEMMA KindOfOperation ==
  ASSUME TypeOK, NEW a \in Actors,
         task[a].kind \in {"read", "write", "group", "query"}
  PROVE  OperationOf(task[a]) \in {"read", "write", "config", "points", "query"}
BY DEF OperationOf

LEMMA BitsType ==
  ASSUME NEW error \in Errors
  PROVE  Bits(error) \in SUBSET (0..4) /\ (Bits(error) = {} <=> error = "NONE")
BY DEF Errors, Bits

LEMMA InitHolds == Init => IInv
<1> SUFFICES ASSUME Init PROVE IInv
  OBVIOUS
<1>1. TypeOK
  BY DEF Init, TypeOK, TaskType, ReplyType, ItemType, Idle, NoReply, Errors, Fates, Qualities
<1> QED
  BY <1>1, WorkersAct
     DEF Init, IInv, Inside, InOrder, Ordered, TogetherDisturbed, OwnErrorSoFar,
         OwnResultWhenAlone, ItemsKnown, Told, ReadIsTold, StatusTellsLast,
         LastWriteIsTold, Idle, NoReply, At

(* A worker that takes a request is alone with it, and its reply is gone.  *)
LEMMA ReceiveStep ==
  ASSUME IInv, NEW w \in Workers, NEW kind \in Kinds, NEW n \in 1..MaxItems,
         Receive(w, kind, n)
  PROVE  IInv'
<1>0. /\ TypeOK /\ InOrder /\ TogetherDisturbed /\ OwnErrorSoFar
      /\ OwnResultWhenAlone /\ ItemsKnown /\ ReadIsTold /\ StatusTellsLast
      /\ LastWriteIsTold /\ w \in Actors /\ w # Poller
  BY WorkersAct, RequestsAssumption DEF IInv
<1>k. kind \in {"read", "write", "group", "other"}
  BY RequestsAssumption
<1>1. /\ task' = [task EXCEPT ![w] = [Idle EXCEPT
            !.kind = kind, !.left = IF kind = "group" THEN 2 ELSE n,
            !.at = IF kind = "other" THEN "ignored" ELSE "ready"]]
      /\ reply' = [reply EXCEPT ![w] = NoReply]
      /\ disturbed' = disturbed \ {w} /\ lastError' = lastError
      /\ task[w].at = "idle"
  BY DEF Receive, At
<1>2. /\ task'[w].kind = kind /\ task'[w].status = {} /\ task'[w].outcome = "NONE"
      /\ task'[w].at = IF kind = "other" THEN "ignored" ELSE "ready"
      /\ task'[w].items = {} /\ task'[w] \in TaskType
  <2>1. task'[w] = [Idle EXCEPT
            !.kind = kind, !.left = IF kind = "group" THEN 2 ELSE n,
            !.at = IF kind = "other" THEN "ignored" ELSE "ready"]
    BY <1>0, <1>1 DEF TypeOK
  <2>2. (IF kind = "group" THEN 2 ELSE n) \in Nat
    BY RequestsAssumption
  <2>3. Idle \in TaskType
    BY DEF Idle, TaskType, Errors, Fates, Qualities
  <2>4. task'[w] \in TaskType
    BY <2>1, <2>2, <2>3, <1>k DEF TaskType
  <2> QED
    BY <2>1, <2>4, <1>k DEF Idle
<1>3. /\ \A b \in Actors \ {w} : task'[b] = task[b]
      /\ \A v \in Workers \ {w} : reply'[v] = reply[v]
      /\ reply'[w] = NoReply
  BY <1>0, <1>1 DEF TypeOK
<1>4. TypeOK'
  BY <1>0, <1>1, <1>2, <1>3 DEF TypeOK, ReplyType, NoReply, Errors
<1>5. InOrder'
  BY <1>0, <1>2, <1>3, <1>k DEF InOrder, Ordered, Inside, OperationOf
<1>6. TogetherDisturbed'
  BY <1>0, <1>1, <1>2, <1>3 DEF TogetherDisturbed, Inside
<1>7. OwnErrorSoFar' /\ OwnResultWhenAlone'
  BY <1>0, <1>1, <1>2, <1>3 DEF OwnErrorSoFar, OwnResultWhenAlone, At
<1>8. ItemsKnown' /\ ReadIsTold'
  BY <1>0, <1>1, <1>2, <1>3, WorkersAct DEF ItemsKnown, Told, ReadIsTold, NoReply
<1>9. StatusTellsLast'
  <2>1. Bits("NONE") = {}
    BY BitsType DEF Errors
  <2> QED
    BY <2>1, <1>0, <1>1, <1>2, <1>3, WorkersAct DEF StatusTellsLast, Tells
<1>10. LastWriteIsTold'
  BY <1>0, <1>1, <1>3, WorkersAct DEF LastWriteIsTold, NoReply
<1> QED
  BY <1>4, <1>5, <1>6, <1>7, <1>8, <1>9, <1>10 DEF IInv

LEMMA PollStep ==
  ASSUME IInv, Poll
  PROVE  IInv'
<1>0. /\ TypeOK /\ InOrder /\ TogetherDisturbed /\ OwnErrorSoFar
      /\ OwnResultWhenAlone /\ ItemsKnown /\ ReadIsTold /\ StatusTellsLast
      /\ LastWriteIsTold /\ Poller \in Actors /\ Poller \notin Workers
  BY WorkersAct, RequestsAssumption DEF IInv
<1>1. /\ task' = [task EXCEPT ![Poller] =
            [Idle EXCEPT !.kind = "query", !.left = 1, !.at = "ready"]]
      /\ disturbed' = disturbed \ {Poller}
      /\ lastError' = lastError /\ reply' = reply
  BY DEF Poll
<1>2. /\ task'[Poller].kind = "query" /\ task'[Poller].at = "ready"
      /\ task'[Poller] \in TaskType
  BY <1>0, <1>1 DEF TypeOK, Idle, TaskType, Errors, Fates, Qualities
<1>3. \A b \in Actors \ {Poller} : task'[b] = task[b]
  BY <1>0, <1>1 DEF TypeOK
<1>4. TypeOK'
  BY <1>0, <1>1, <1>2, <1>3 DEF TypeOK
<1>5. InOrder'
  BY <1>0, <1>2, <1>3 DEF InOrder, Ordered, Inside, OperationOf
<1>6. TogetherDisturbed'
  BY <1>0, <1>1, <1>2, <1>3 DEF TogetherDisturbed, Inside
<1>7. OwnErrorSoFar' /\ OwnResultWhenAlone'
  BY <1>0, <1>1, <1>2, <1>3 DEF OwnErrorSoFar, OwnResultWhenAlone, At
<1>8. ItemsKnown' /\ ReadIsTold' /\ StatusTellsLast' /\ LastWriteIsTold'
  BY <1>0, <1>1, <1>2, <1>3, WorkersAct
     DEF ItemsKnown, Told, ReadIsTold, StatusTellsLast, LastWriteIsTold, At
<1> QED
  BY <1>4, <1>5, <1>6, <1>7, <1>8 DEF IInv

(* Who begins while another is in an operation disturbs it and is          *)
(* disturbed; who begins alone sets the error that its kind begins with.   *)
LEMMA BeginStep ==
  ASSUME IInv, NEW a \in Actors, Begin(a)
  PROVE  IInv'
<1>0. /\ TypeOK /\ InOrder /\ TogetherDisturbed /\ OwnErrorSoFar
      /\ OwnResultWhenAlone /\ ItemsKnown /\ ReadIsTold /\ StatusTellsLast
      /\ LastWriteIsTold
  BY DEF IInv
<1>1. /\ task[a].at = "ready" /\ task[a].left > 0
      /\ lastError' = First(OperationOf(task[a]))
      /\ task' = [task EXCEPT ![a] = [task[a] EXCEPT
            !.at = "inside", !.op = OperationOf(task[a]), !.quality = FirstQuality(task[a])]]
      /\ disturbed' = IF InOperation = {} THEN disturbed
                      ELSE disturbed \cup InOperation \cup {a}
      /\ reply' = reply
  BY DEF Begin, At
<1>2. InOperation = {b \in Actors : task[b].at \in Inside}
  BY DEF InOperation, Inside
<1>3. /\ task[a].kind \in {"read", "write", "group", "query"}
      /\ OperationOf(task[a]) \in {"read", "write", "config", "points", "query"}
  BY <1>0, <1>1, KindOfOperation DEF InOrder, Ordered
<1>4. /\ task'[a] = [task[a] EXCEPT
            !.at = "inside", !.op = OperationOf(task[a]), !.quality = FirstQuality(task[a])]
      /\ \A b \in Actors \ {a} : task'[b] = task[b]
  BY <1>0, <1>1 DEF TypeOK
<1>5. /\ task'[a].at = "inside" /\ task'[a].op = OperationOf(task[a])
      /\ task'[a].kind = task[a].kind /\ task'[a].left = task[a].left
      /\ task'[a].items = task[a].items /\ task'[a] \in TaskType
      /\ task'[a].quality = FirstQuality(task[a])
      /\ OperationOf(task'[a]) = OperationOf(task[a])
  <2>1. task'[a].kind = task[a].kind /\ task'[a].left = task[a].left
    BY <1>0, <1>4 DEF TypeOK, TaskType
  <2>2. OperationOf(task'[a]) = OperationOf(task[a])
    BY <2>1 DEF OperationOf
  <2>3. task[a] \in TaskType /\ FirstQuality(task[a]) \in Qualities
    BY <1>0 DEF TypeOK, TaskType, FirstQuality, Qualities
  <2> QED
    BY <2>1, <2>2, <2>3, <1>3, <1>4 DEF TaskType
<1>6. TypeOK'
  <2>1. lastError' \in Errors /\ disturbed' \subseteq Actors
    BY <1>0, <1>1, <1>2 DEF TypeOK, First, Errors
  <2> QED
    BY <2>1, <1>0, <1>1, <1>4, <1>5 DEF TypeOK
<1>7. InOrder'
  <2> SUFFICES ASSUME NEW b \in Actors PROVE Ordered(b, task'[b])
    BY DEF InOrder, Ordered, Inside, OperationOf
  <2>1. CASE b = a
    BY <2>1, <1>0, <1>1, <1>5 DEF InOrder, Ordered
  <2>2. CASE b # a
    BY <2>2, <1>0, <1>4 DEF InOrder
  <2> QED
    BY <2>1, <2>2
<1>8. TogetherDisturbed'
  BY <1>0, <1>1, <1>2, <1>4, <1>5 DEF TogetherDisturbed
<1>9. OwnErrorSoFar' /\ OwnResultWhenAlone'
  <2>1. \A b \in Actors \ disturbed' : b # a => task'[b].at \notin Inside
    BY <1>1, <1>2, <1>4
  <2>2. lastError' = First(task'[a].op) /\ task'[a].at = "inside"
    BY <1>1, <1>5
  <2> QED
    BY <2>1, <2>2 DEF OwnErrorSoFar, OwnResultWhenAlone, At, Inside
<1>10. ItemsKnown'
  BY <1>0, <1>4, <1>5 DEF ItemsKnown, Told, FirstQuality
<1>11. ReadIsTold' /\ StatusTellsLast' /\ LastWriteIsTold'
  <2>1. disturbed \subseteq disturbed'
    BY <1>1
  <2>2. ReadIsTold'
    BY <2>1, <1>0, <1>1, <1>4, <1>5, WorkersAct DEF ReadIsTold
  <2>3. StatusTellsLast'
    BY <2>1, <1>0, <1>4, <1>5, WorkersAct DEF StatusTellsLast
  <2>4. LastWriteIsTold'
    BY <2>1, <1>0, <1>1 DEF LastWriteIsTold
  <2> QED
    BY <2>2, <2>3, <2>4
<1> QED
  BY <1>6, <1>7, <1>8, <1>9, <1>10, <1>11 DEF IInv

(* What a transaction does: the operation goes on with an outcome, and     *)
(* nothing of the request changes but that.                                *)
LEMMA TransactEffect ==
  ASSUME TypeOK, NEW a \in Actors, Transact(a)
  PROVE  /\ task[a].at = "inside" /\ UNCHANGED <<reply, disturbed>>
         /\ lastError' \in Errors
         /\ \E outcome \in Errors, place \in {"returning", "clearing"}, item \in Fates :
              /\ task' = [task EXCEPT ![a] =
                   [task[a] EXCEPT !.at = place, !.outcome = outcome, !.item = item]]
              /\ place = "returning" /\ lastError = First(task[a].op) => lastError' = outcome
              /\ place = "clearing" => outcome = "NONE"
              /\ outcome = "NONE" <=> item # "failed"
              /\ outcome = "NONE" /\ place = "returning" => task[a].op \in {"query", "config"}
<1>1. task[a].at = "inside" /\ UNCHANGED <<reply, disturbed>>
  BY DEF Transact, At
<1> DEFINE Effect ==
             /\ lastError' \in Errors
             /\ \E outcome \in Errors, place \in {"returning", "clearing"}, item \in Fates :
                  /\ task' = [task EXCEPT ![a] =
                       [task[a] EXCEPT !.at = place, !.outcome = outcome, !.item = item]]
                  /\ place = "returning" /\ lastError = First(task[a].op) => lastError' = outcome
                  /\ place = "clearing" => outcome = "NONE"
                  /\ outcome = "NONE" <=> item # "failed"
                  /\ outcome = "NONE" /\ place = "returning" =>
                       task[a].op \in {"query", "config"}
<1>2. ASSUME NEW outcome \in Errors, Ends(a, outcome), lastError' \in Errors,
             lastError = First(task[a].op) => lastError' = outcome,
             outcome = "NONE" => task[a].op \in {"query", "config"}
      PROVE  Effect
  <2>1. PICK item \in Fates :
          /\ task' = [task EXCEPT ![a] =
               [task[a] EXCEPT !.at = "returning", !.outcome = outcome, !.item = item]]
          /\ outcome = "NONE" <=> item # "failed"
    BY <1>2 DEF Ends, Fates
  <2> QED
    BY <1>2, <2>1
<1>3. ASSUME NEW item \in {"served", "skipped"}, NEW error \in Errors, Commits(a, item, error)
      PROVE  Effect
  BY <1>3 DEF Commits, Fates, Errors
<1> HIDE DEF Effect
<1>4. lastError \in Errors
  BY DEF TypeOK
<1>5. ASSUME ReadOrWrite(a) PROVE Effect
  <2>1. First(task[a].op) = "RUNTIME_ERROR"
    BY <1>5 DEF ReadOrWrite, First
  <2>2. ASSUME NEW error \in Errors \ {"NONE"}, Fail(a, error) PROVE Effect
    BY <1>2, <2>2 DEF Fail
  <2>3. ASSUME FailSilently(a, "RUNTIME_ERROR") PROVE Effect
    BY <1>2, <1>4, <2>1, <2>3 DEF FailSilently, Errors
  <2> QED
    BY <1>3, <1>4, <1>5, <2>2, <2>3 DEF ReadOrWrite, Errors
<1>6. ASSUME ReadPoints(a) PROVE Effect
  <2>1. First(task[a].op) = "RUNTIME_ERROR"
    BY <1>6 DEF ReadPoints, First
  <2>2. ASSUME FailSilently(a, "RUNTIME_ERROR") PROVE Effect
    BY <1>2, <1>4, <2>1, <2>2 DEF FailSilently, Errors
  <2>3. ASSUME Fail(a, "ILLEGAL_PARAMETER_VALUE") PROVE Effect
    BY <1>2, <2>3 DEF Fail, Errors
  <2>4. ASSUME NEW error \in {lastError, "ILLEGAL_PARAMETER_VALUE"}, Commits(a, "served", error)
        PROVE  Effect
    BY <1>3, <1>4, <2>4 DEF Errors
  <2> QED
    BY <1>6, <2>2, <2>3, <2>4 DEF ReadPoints
<1>7. ASSUME Query(a) \/ Config(a) PROVE Effect
  <2>1. First(task[a].op) = "NONE" /\ task[a].op \in {"query", "config"}
    BY <1>7 DEF Query, Config, First
  <2>2. ASSUME NEW error \in {"RUNTIME_ERROR", "RUNTIME_WARNING"}, Fail(a, error) PROVE Effect
    BY <1>2, <2>2 DEF Fail, Errors
  <2>3. ASSUME FailSilently(a, "NONE") PROVE Effect
    BY <1>2, <1>4, <2>1, <2>3 DEF FailSilently, Errors
  <2> QED
    BY <1>7, <2>2, <2>3 DEF Query, Config
<1>8. Effect
  BY <1>5, <1>6, <1>7 DEF Transact
<1> QED
  BY <1>1, <1>8 DEF Effect

LEMMA TransactStep ==
  ASSUME IInv, NEW a \in Actors, Transact(a)
  PROVE  IInv'
<1>0. /\ TypeOK /\ InOrder /\ TogetherDisturbed /\ OwnErrorSoFar
      /\ OwnResultWhenAlone /\ ItemsKnown /\ ReadIsTold /\ StatusTellsLast
      /\ LastWriteIsTold
  BY DEF IInv
<1>1. PICK outcome \in Errors, place \in {"returning", "clearing"}, item \in Fates :
        /\ task' = [task EXCEPT ![a] =
             [task[a] EXCEPT !.at = place, !.outcome = outcome, !.item = item]]
        /\ place = "returning" /\ lastError = First(task[a].op) => lastError' = outcome
        /\ place = "clearing" => outcome = "NONE"
        /\ outcome = "NONE" <=> item # "failed"
        /\ outcome = "NONE" /\ place = "returning" => task[a].op \in {"query", "config"}
  BY <1>0, TransactEffect
<1>2. /\ task[a].at = "inside" /\ reply' = reply /\ disturbed' = disturbed
      /\ lastError' \in Errors
  BY <1>0, TransactEffect
<1>3. /\ task'[a] = [task[a] EXCEPT !.at = place, !.outcome = outcome, !.item = item]
      /\ \A b \in Actors \ {a} : task'[b] = task[b]
  BY <1>0, <1>1 DEF TypeOK
<1>4. /\ task'[a].at = place /\ task'[a].outcome = outcome
      /\ task'[a].kind = task[a].kind /\ task'[a].left = task[a].left
      /\ task'[a].op = task[a].op /\ task'[a].items = task[a].items
      /\ task'[a].item = item /\ task'[a].quality = task[a].quality
      /\ task'[a] \in TaskType
      /\ OperationOf(task'[a]) = OperationOf(task[a])
  <2>1. task'[a].kind = task[a].kind /\ task'[a].left = task[a].left
    BY <1>0, <1>3 DEF TypeOK, TaskType
  <2>2. OperationOf(task'[a]) = OperationOf(task[a])
    BY <2>1 DEF OperationOf
  <2>3. task[a] \in TaskType
    BY <1>0 DEF TypeOK
  <2> QED
    BY <2>1, <2>2, <2>3, <1>3 DEF TaskType
<1>5. TypeOK'
  BY <1>0, <1>1, <1>2, <1>3, <1>4 DEF TypeOK
<1>6. InOrder'
  <2> SUFFICES ASSUME NEW b \in Actors PROVE Ordered(b, task'[b])
    BY DEF InOrder, Ordered, Inside, OperationOf
  <2>1. CASE b = a
    BY <2>1, <1>0, <1>2, <1>4 DEF InOrder, Ordered, Inside
  <2>2. CASE b # a
    BY <2>2, <1>0, <1>3 DEF InOrder
  <2> QED
    BY <2>1, <2>2
<1>7. TogetherDisturbed'
  BY <1>0, <1>2, <1>3, <1>4 DEF TogetherDisturbed, Inside
<1>8. \A b \in Actors \ disturbed : b # a => task[b].at \notin Inside
  BY <1>0, <1>2 DEF TogetherDisturbed, Inside
<1>9. OwnErrorSoFar' /\ OwnResultWhenAlone'
  <2>1. \A b \in Actors \ disturbed' : b # a => task'[b].at \notin Inside
    BY <1>2, <1>3, <1>8
  <2>2. a \notin disturbed => lastError = First(task[a].op)
    BY <1>0, <1>2 DEF OwnErrorSoFar
  <2>3. a \notin disturbed /\ place = "returning" => lastError' = outcome
    BY <2>2, <1>1
  <2> QED
    BY <2>1, <2>3, <1>1, <1>2, <1>4 DEF OwnErrorSoFar, OwnResultWhenAlone, At, Inside
<1>10. ItemsKnown'
  <2>1. ASSUME task[a].kind = "read"
        PROVE  task[a].op = "read" /\ task[a].quality = "ATTR_NOT_FOUND"
    BY <2>1, <1>0, <1>2 DEF ItemsKnown, Told, InOrder, Ordered, Inside, OperationOf
  <2>2. Told(task'[a])
    BY <2>1, <1>1, <1>4 DEF Told
  <2>3. \A b \in Actors : Told(task'[b])
    BY <2>2, <1>0, <1>3 DEF ItemsKnown
  <2> QED
    BY <2>3 DEF ItemsKnown, Told
<1>11. ReadIsTold' /\ StatusTellsLast' /\ LastWriteIsTold'
  <2>1. ReadIsTold'
    <3>1. \A w \in Workers : task'[w].items = task[w].items
      BY <1>3, <1>4, WorkersAct
    <3> QED
      BY <3>1, <1>0, <1>2 DEF ReadIsTold
  <2>2. StatusTellsLast'
    BY <1>0, <1>2, <1>3, <1>4, WorkersAct DEF StatusTellsLast
  <2>3. LastWriteIsTold'
    BY <1>0, <1>2 DEF LastWriteIsTold
  <2> QED
    BY <2>1, <2>2, <2>3
<1> QED
  BY <1>5, <1>6, <1>7, <1>9, <1>10, <1>11 DEF IInv

LEMMA ClearStep ==
  ASSUME IInv, NEW a \in Actors, Clear(a)
  PROVE  IInv'
<1>0. /\ TypeOK /\ InOrder /\ TogetherDisturbed /\ OwnErrorSoFar
      /\ OwnResultWhenAlone /\ ItemsKnown /\ ReadIsTold /\ StatusTellsLast
      /\ LastWriteIsTold
  BY DEF IInv
<1>1. /\ task[a].at = "clearing" /\ lastError' = "NONE"
      /\ task' = [task EXCEPT ![a] =
           [task[a] EXCEPT !.at = "returning", !.quality = LastQuality(task[a])]]
      /\ reply' = reply /\ disturbed' = disturbed
  BY DEF Clear, At
<1>2. /\ task'[a] = [task[a] EXCEPT !.at = "returning", !.quality = LastQuality(task[a])]
      /\ \A b \in Actors \ {a} : task'[b] = task[b]
  BY <1>0, <1>1 DEF TypeOK
<1>3. /\ task'[a].at = "returning" /\ task'[a].outcome = task[a].outcome
      /\ task'[a].kind = task[a].kind /\ task'[a].left = task[a].left
      /\ task'[a].op = task[a].op /\ task'[a].items = task[a].items
      /\ task'[a].item = task[a].item /\ task'[a].quality = LastQuality(task[a])
      /\ task'[a] \in TaskType
      /\ OperationOf(task'[a]) = OperationOf(task[a])
  <2>1. LastQuality(task[a]) \in Qualities /\ task[a] \in TaskType
    BY <1>0 DEF TypeOK, TaskType, LastQuality, Qualities
  <2> QED
    BY <1>2, <2>1 DEF TaskType, OperationOf
<1>4. TypeOK'
  BY <1>0, <1>1, <1>2, <1>3 DEF TypeOK, Errors
<1>5. InOrder'
  <2> SUFFICES ASSUME NEW b \in Actors PROVE Ordered(b, task'[b])
    BY DEF InOrder, Ordered, Inside, OperationOf
  <2>1. CASE b = a
    BY <2>1, <1>0, <1>1, <1>3 DEF InOrder, Ordered, Inside
  <2>2. CASE b # a
    BY <2>2, <1>0, <1>2 DEF InOrder
  <2> QED
    BY <2>1, <2>2
<1>6. TogetherDisturbed'
  BY <1>0, <1>1, <1>2, <1>3 DEF TogetherDisturbed, Inside
<1>7. \A b \in Actors \ disturbed : b # a => task[b].at \notin Inside
  BY <1>0, <1>1 DEF TogetherDisturbed, Inside
<1>8. OwnErrorSoFar' /\ OwnResultWhenAlone'
  BY <1>0, <1>1, <1>2, <1>3, <1>7
     DEF OwnErrorSoFar, OwnResultWhenAlone, At, Inside
<1>9. ItemsKnown'
  BY <1>0, <1>1, <1>2, <1>3 DEF ItemsKnown, Told, LastQuality
<1>10. ReadIsTold' /\ StatusTellsLast' /\ LastWriteIsTold'
  BY <1>0, <1>1, <1>2, <1>3, WorkersAct
     DEF ReadIsTold, StatusTellsLast, LastWriteIsTold, At
<1> QED
  BY <1>4, <1>5, <1>6, <1>8, <1>9, <1>10 DEF IInv

(* The handler takes the error that it sees for that of the operation: so  *)
(* it is for an undisturbed one.                                           *)
LEMMA ReturnStep ==
  ASSUME IInv, NEW a \in Actors, Return(a)
  PROVE  IInv'
<1>0. /\ TypeOK /\ InOrder /\ TogetherDisturbed /\ OwnErrorSoFar
      /\ OwnResultWhenAlone /\ ItemsKnown /\ ReadIsTold /\ StatusTellsLast
      /\ LastWriteIsTold
  BY DEF IInv
<1> DEFINE t == task[a]
           status == CASE t.kind = "write" -> StatusAfter(t.status, lastError)
                       [] t.kind = "group" -> Bits(lastError)
                       [] OTHER -> t.status
           items == IF t.kind = "read"
                      THEN t.items \cup {Delivered(lastError, t)} ELSE t.items
<1>1. /\ t.at = "returning"
      /\ task' = [task EXCEPT ![a] =
           [t EXCEPT !.left = t.left - 1, !.at = "ready", !.status = status,
              !.failed = t.failed \/ t.outcome # "NONE", !.items = items,
              !.item = "waits", !.quality = Idle.quality]]
      /\ lastError' = lastError /\ reply' = reply /\ disturbed' = disturbed
  BY DEF Return, At
<1>2. /\ t \in TaskType /\ t.left - 1 \in Nat /\ lastError \in Errors
      /\ t.kind \in IF a = Poller THEN {"query"} ELSE {"read", "write", "group"}
  BY <1>0, <1>1 DEF TypeOK, TaskType, InOrder, Ordered, Inside
<1>3. status \in SUBSET (0..4)
  BY <1>2, BitsType DEF StatusAfter, TaskType
<1>4. items \in SUBSET ItemType
  <2>1. t.items \in SUBSET ItemType
    BY <1>2 DEF TaskType
  <2>2. Delivered(lastError, t) \in ItemType
    BY <1>2 DEF Delivered, ItemType, TaskType, Idle, Qualities
  <2> QED
    BY <2>1, <2>2
<1> HIDE DEF status, items
<1>5. /\ task'[a] = [t EXCEPT !.left = t.left - 1, !.at = "ready", !.status = status,
                       !.failed = t.failed \/ t.outcome # "NONE", !.items = items,
                       !.item = "waits", !.quality = Idle.quality]
      /\ \A b \in Actors \ {a} : task'[b] = task[b]
  BY <1>0, <1>1 DEF TypeOK
<1>6. /\ task'[a].at = "ready" /\ task'[a].kind = t.kind /\ task'[a].items = items
      /\ task'[a].outcome = t.outcome /\ task'[a].status = status
      /\ task'[a] \in TaskType
  BY <1>2, <1>3, <1>4, <1>5 DEF TaskType, Fates, Qualities, Idle
<1>7. TypeOK'
  BY <1>0, <1>1, <1>5, <1>6 DEF TypeOK
<1>8. InOrder'
  <2> SUFFICES ASSUME NEW b \in Actors PROVE Ordered(b, task'[b])
    BY DEF InOrder, Ordered, Inside, OperationOf
  <2>1. CASE b = a
    BY <2>1, <1>2, <1>6 DEF Ordered, Inside
  <2>2. CASE b # a
    BY <2>2, <1>0, <1>5 DEF InOrder
  <2> QED
    BY <2>1, <2>2
<1>9. TogetherDisturbed'
  BY <1>0, <1>1, <1>5, <1>6 DEF TogetherDisturbed, Inside
<1>10. OwnErrorSoFar' /\ OwnResultWhenAlone'
  BY <1>0, <1>1, <1>5, <1>6 DEF OwnErrorSoFar, OwnResultWhenAlone, At
<1>11. ItemsKnown' /\ ReadIsTold'
  <2>1. ItemsKnown'
    <3>1. Told(task'[a])
      BY <1>6 DEF Told
    <3>2. \A b \in Actors : Told(task'[b])
      BY <3>1, <1>0, <1>5 DEF ItemsKnown
    <3> QED
      BY <3>2 DEF ItemsKnown, Told
  <2>2. ASSUME t.kind = "read"
        PROVE  TruthOf(Delivered(lastError, t), a \notin disturbed)
    <3>1. /\ t.item = "failed" <=> t.outcome # "NONE"
          /\ t.quality = IF t.item = "failed" THEN "ATTR_NOT_FOUND" ELSE "ATTR_OK"
      BY <2>2, <1>0, <1>1 DEF ItemsKnown, Told
    <3>2. a \notin disturbed => lastError = t.outcome
      BY <1>0, <1>1 DEF OwnResultWhenAlone, At
    <3> QED
      BY <3>1, <3>2 DEF TruthOf, Delivered, Idle
  <2>3. \A item \in items \ t.items : TruthOf(item, a \notin disturbed)
    BY <2>2 DEF items
  <2>4. ReadIsTold'
    BY <2>3, <1>0, <1>1, <1>5, <1>6, WorkersAct DEF ReadIsTold, TruthOf
  <2> QED
    BY <2>1, <2>4
<1>12. StatusTellsLast'
  <2>1. ASSUME a \notin disturbed, t.kind = "write"
        PROVE  Tells(status, t.outcome)
    <3>1. lastError = t.outcome
      BY <2>1, <1>0, <1>1 DEF OwnResultWhenAlone, At
    <3>2. status = StatusAfter(t.status, t.outcome)
      BY <2>1, <3>1 DEF status
    <3>3. Bits(t.outcome) = {} <=> t.outcome = "NONE"
      BY <3>1, <1>2, BitsType
    <3> QED
      BY <3>2, <3>3 DEF StatusAfter, Tells
  <2> QED
    BY <2>1, <1>0, <1>1, <1>5, <1>6, WorkersAct DEF StatusTellsLast
<1>13. LastWriteIsTold'
  BY <1>0, <1>1, <1>5, <1>6, WorkersAct DEF LastWriteIsTold
<1> QED
  BY <1>7, <1>8, <1>9, <1>10, <1>11, <1>12, <1>13 DEF IInv

(* The end of a request, with a reply or without.                          *)
LEMMA EndStep ==
  ASSUME IInv, NEW a \in Actors,
         task' = [task EXCEPT ![a] = Idle], UNCHANGED <<lastError, disturbed>>,
         reply' \in [Workers -> ReplyType],
         \A w \in Workers \ {a} : reply'[w] = reply[w],
         a \in Workers => \A item \in reply'[a].items : TruthOf(item, a \notin disturbed),
         a \in Workers \ disturbed /\ reply'[a].kind = "write" =>
           Tells(reply'[a].status, reply'[a].last)
  PROVE  IInv'
<1>0. /\ TypeOK /\ InOrder /\ TogetherDisturbed /\ OwnErrorSoFar
      /\ OwnResultWhenAlone /\ ItemsKnown /\ ReadIsTold /\ StatusTellsLast
      /\ LastWriteIsTold
  BY DEF IInv
<1>1. /\ task'[a] = Idle
      /\ \A b \in Actors \ {a} : task'[b] = task[b]
      /\ lastError' = lastError /\ disturbed' = disturbed
  BY <1>0 DEF TypeOK
<1>2. Idle \in TaskType /\ Idle.at = "idle" /\ Idle.items = {} /\ Idle.kind = "none"
  BY DEF Idle, TaskType, Errors, Fates, Qualities
<1>3. TypeOK'
  BY <1>0, <1>1, <1>2 DEF TypeOK
<1>4. InOrder'
  <2> SUFFICES ASSUME NEW b \in Actors PROVE Ordered(b, task'[b])
    BY DEF InOrder, Ordered, Inside, OperationOf
  <2>1. CASE b = a
    BY <2>1, <1>1, <1>2 DEF Ordered, Inside
  <2>2. CASE b # a
    BY <2>2, <1>0, <1>1 DEF InOrder
  <2> QED
    BY <2>1, <2>2
<1>5. TogetherDisturbed'
  BY <1>0, <1>1, <1>2 DEF TogetherDisturbed, Inside
<1>6. OwnErrorSoFar' /\ OwnResultWhenAlone'
  BY <1>0, <1>1, <1>2 DEF OwnErrorSoFar, OwnResultWhenAlone, At
<1>7. ItemsKnown' /\ ReadIsTold'
  BY <1>0, <1>1, <1>2, WorkersAct DEF ItemsKnown, Told, ReadIsTold, TruthOf
<1>8. StatusTellsLast'
  BY <1>0, <1>1, <1>2, WorkersAct DEF StatusTellsLast
<1>9. LastWriteIsTold'
  BY <1>0, <1>1, <1>2, WorkersAct DEF LastWriteIsTold, Tells
<1> QED
  BY <1>3, <1>4, <1>5, <1>6, <1>7, <1>8, <1>9 DEF IInv

LEMMA SendStep ==
  ASSUME IInv, NEW w \in Workers, Send(w)
  PROVE  IInv'
<1>0. /\ TypeOK /\ InOrder /\ ReadIsTold /\ StatusTellsLast
      /\ LastWriteIsTold /\ w \in Actors /\ w # Poller
  BY WorkersAct, RequestsAssumption DEF IInv
<1> DEFINE t == task[w]
           told == [kind |-> t.kind, status |-> IF t.kind = "write" THEN t.status ELSE {},
                    last |-> t.outcome, failed |-> t.failed, items |-> t.items]
<1>1. /\ t.at = "ready"
      /\ task' = [task EXCEPT ![w] = Idle] /\ UNCHANGED <<lastError, disturbed>>
      /\ \/ reply' = reply /\ t.kind = "group"
         \/ reply' = [reply EXCEPT ![w] = told]
  BY DEF Send, Done, At
<1>2. told \in ReplyType
  BY <1>0, <1>1 DEF TypeOK, TaskType, InOrder, Ordered, ReplyType
<1>3. CASE reply' = [reply EXCEPT ![w] = told]
  <2>1. reply' \in [Workers -> ReplyType] /\ reply'[w] = told
        /\ \A v \in Workers \ {w} : reply'[v] = reply[v]
    BY <1>0, <1>2, <1>3 DEF TypeOK
  <2>2. w \notin disturbed /\ t.kind = "write" => Tells(t.status, t.outcome)
    BY <1>0, <1>1 DEF StatusTellsLast
  <2>3. \A item \in t.items : TruthOf(item, w \notin disturbed)
    BY <1>0 DEF ReadIsTold, TruthOf
  <2> QED
    <3> HIDE DEF told
    <3>1. \A item \in reply'[w].items : TruthOf(item, w \notin disturbed)
      BY <2>1, <2>3 DEF told
    <3>2. w \in Workers \ disturbed /\ reply'[w].kind = "write" =>
            Tells(reply'[w].status, reply'[w].last)
      BY <2>1, <2>2 DEF told
    <3> QED
      BY <2>1, <3>1, <3>2, <1>0, <1>1, EndStep
<1>4. CASE reply' = reply /\ t.kind = "group"
  <2>1. ASSUME w \notin disturbed, reply[w].kind = "write"
        PROVE  Tells(reply[w].status, reply[w].last)
    BY <2>1, <1>0 DEF LastWriteIsTold, Tells
  <2> QED
    BY <2>1, <1>0, <1>1, <1>4, EndStep DEF TypeOK, ReadIsTold, TruthOf
<1> QED
  BY <1>1, <1>3, <1>4

LEMMA IgnoreStep ==
  ASSUME IInv, NEW a \in Actors,
         task' = [task EXCEPT ![a] = Idle], UNCHANGED <<lastError, reply, disturbed>>
  PROVE  IInv'
<1>1. TypeOK /\ ReadIsTold /\ LastWriteIsTold
  BY DEF IInv
<1>2. reply' \in [Workers -> ReplyType]
  BY <1>1 DEF TypeOK
<1>3. a \in Workers => \A item \in reply'[a].items : TruthOf(item, a \notin disturbed)
  BY <1>1 DEF ReadIsTold, TruthOf
<1>4. a \in Workers \ disturbed /\ reply'[a].kind = "write" =>
        Tells(reply'[a].status, reply'[a].last)
  BY <1>1 DEF LastWriteIsTold, Tells
<1> QED
  BY <1>2, <1>3, <1>4, EndStep

LEMMA OperateStep ==
  ASSUME IInv, NEW a \in Actors, Operate(a)
  PROVE  IInv'
BY BeginStep, TransactStep, ClearStep, ReturnStep DEF Operate

LEMMA IInvariant == Spec => []IInv
<1>1. Init => IInv
  BY InitHolds
<1>2. ASSUME IInv, [Next]_vars PROVE IInv'
  <2>1. ASSUME NEW w \in Workers, ReceiveAny(w) PROVE IInv'
    BY <1>2, <2>1, ReceiveStep DEF ReceiveAny
  <2>2. ASSUME NEW w \in Workers, Operate(w) PROVE IInv'
    BY <1>2, <2>2, OperateStep, WorkersAct
  <2>3. ASSUME NEW w \in Workers, Send(w) PROVE IInv'
    BY <1>2, <2>3, SendStep
  <2>4. ASSUME NEW w \in Workers, Ignore(w) PROVE IInv'
    BY <1>2, <2>4, IgnoreStep, WorkersAct DEF Ignore
  <2>5. CASE Poll
    BY <1>2, <2>5, PollStep
  <2>6. CASE Operate(Poller)
    BY <1>2, <2>6, OperateStep, WorkersAct
  <2>7. CASE EndPoll
    BY <1>2, <2>7, IgnoreStep, WorkersAct DEF EndPoll
  <2>8. CASE UNCHANGED vars
    BY <1>2, <2>8
       DEF vars, IInv, TypeOK, InOrder, Ordered, OperationOf, TogetherDisturbed, OwnErrorSoFar,
           OwnResultWhenAlone, ItemsKnown, Told, ReadIsTold, StatusTellsLast, LastWriteIsTold, At
  <2> QED
    BY <1>2, <2>1, <2>2, <2>3, <2>4, <2>5, <2>6, <2>7, <2>8 DEF Next, Serve
<1> QED
  BY <1>1, <1>2, PTL DEF Spec

-----------------------------------------------------------------------------
(* The theorems.                                                           *)

(* The state of the workers, the poller and the shared last error keeps    *)
(* its type: no operation is begun for an item that the request has not,   *)
(* and only a request that has a reply is answered.                        *)
THEOREM TypeCorrect == Spec => []TypeOK
<1>1. IInv => TypeOK
  BY DEF IInv
<1> QED
  BY <1>1, IInvariant, PTL

(* An operation of DatabaseRtapImpl that no other thread met returns its   *)
(* own outcome, although m_last_error is one for all.                      *)
THEOREM OwnResult == Spec => []OwnResultWhenAlone
<1>1. IInv => OwnResultWhenAlone
  BY DEF IInv
<1> QED
  BY <1>1, IInvariant, PTL

(* handle_read() sends no item as good whose reading failed, whatever      *)
(* other threads make of the last error, and every item as good whose      *)
(* reading did not, when none interfered.                                  *)
THEOREM ReadTold == Spec => []ReadIsTold
<1>1. IInv => ReadIsTold
  BY DEF IInv
<1> QED
  BY <1>1, IInvariant, PTL

(* The reply of handle_write() tells of its last item, when no other       *)
(* thread interfered.                                                      *)
THEOREM LastIsTold == Spec => []LastWriteIsTold
<1>1. IInv => LastWriteIsTold
  BY DEF IInv
<1> QED
  BY <1>1, IInvariant, PTL

=============================================================================
