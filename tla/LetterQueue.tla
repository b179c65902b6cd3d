----------------------------- MODULE LetterQueue -----------------------------
(***************************************************************************)
(* What the broker promises of the requests of clients, to whoever knows   *)
(* nothing of its tables, periods and indexes.  A request that is accepted *)
(* waits for a worker of its service; it is sent to one worker, once, and  *)
(* belongs to it from then on; a worker has one request at a time; it is   *)
(* taken away by nothing but the report of its worker, and the report is   *)
(* passed on, once.  A worker is of one service for ever.                  *)
(*                                                                         *)
(* When a request is given to a worker is left open, so that it may wait   *)
(* for ever, and whether a worker is there to work on it.                  *)
(***************************************************************************)
EXTENDS Integers, Sequences

CONSTANTS Services, Workers, Clients, Bodies, NoService

VARIABLES
  letters,  \* the requests that were accepted and not yet reported, by number
  serves,   \* the service of each worker, NoService before it has one
  last,     \* the last number that was given out
  sent      \* what was sent in this turn
vars == <<letters, serves, last, sent>>

Init ==
  /\ letters = [l \in {} |-> 0]
  /\ serves = [w \in Workers |-> NoService]
  /\ last = 0
  /\ sent = <<>>

Letter(c, s, body) == [service |-> s, client |-> c, body |-> body, holders |-> {}]

(* A worker with nothing to do among the letters q.                        *)
Idle(q, w) == \A l \in DOMAIN q : w \notin q[l].holders

(* What is sent to workers and what is sent to clients.                    *)
Orders == {i \in DOMAIN sent' : sent'[i].cmd = "REQUEST"}
Answers == {i \in DOMAIN sent' : sent'[i].cmd \in {"REPORT", "NAK"}}

Silent == Answers = {}
Says(m) == \E i \in DOMAIN sent' : Answers = {i} /\ sent'[i] = m

(* Letter l of the letters q is given to worker w.                         *)
GivenTo(q, l, w) ==
  /\ q[l].holders = {} /\ Idle(q, w) /\ serves'[w] = q[l].service
  /\ letters'[l] = [q[l] EXCEPT !.holders = {w}]
  /\ \E i \in Orders :
       sent'[i] = [to |-> w, cmd |-> "REQUEST", letter |-> l,
                   client |-> q[l].client, body |-> q[l].body]

(* Some of the letters q are given to workers, one to each, and each order *)
(* that is sent is for one of them.                                        *)
Give(q) ==
  /\ DOMAIN letters' = DOMAIN q
  /\ \A l \in DOMAIN q : letters'[l] = q[l] \/ \E w \in Workers : GivenTo(q, l, w)
  /\ \A k, l \in DOMAIN q : k # l => letters'[k].holders \cap letters'[l].holders = {}
  /\ \A i \in Orders : /\ sent'[i].letter \in DOMAIN q
                       /\ letters'[sent'[i].letter] # q[sent'[i].letter]
  /\ \A i, j \in Orders : sent'[i].letter = sent'[j].letter => i = j

Register(w, s) ==
  /\ serves[w] = NoService
  /\ serves' = [serves EXCEPT ![w] = s]
  /\ last' = last + 1
  /\ Give(letters) /\ Silent

Accept(c, s, body) ==
  /\ last' = last + 1
  /\ Give([l \in DOMAIN letters \cup {last'} |->
             IF l = last' THEN Letter(c, s, body) ELSE letters[l]])
  /\ Silent
  /\ UNCHANGED serves

Refuse(c) ==
  /\ Give(letters)
  /\ Says([to |-> c, cmd |-> "NAK"])
  /\ UNCHANGED <<serves, last>>

Finish(w, c, body) ==
  /\ serves[w] # NoService
  /\ Give([l \in {k \in DOMAIN letters : w \notin letters[k].holders} |-> letters[l]])
  /\ Says([to |-> c, cmd |-> "REPORT", service |-> serves[w], body |-> body])
  /\ UNCHANGED <<serves, last>>

Deal ==
  /\ Give(letters) /\ Silent
  /\ UNCHANGED <<serves, last>>

Next ==
  \/ \E w \in Workers, s \in Services : Register(w, s)
  \/ \E c \in Clients, s \in Services, body \in Bodies : Accept(c, s, body)
  \/ \E c \in Clients : Refuse(c)
  \/ \E w \in Workers, c \in Clients, body \in Bodies : Finish(w, c, body)
  \/ Deal

Spec == Init /\ [][Next]_vars

-----------------------------------------------------------------------------
(* A queue whose broker may be stopped and started again: the requests and *)
(* the services of the workers are forgotten, numbers go on.               *)
Forget ==
  /\ letters' = [l \in {} |-> 0]
  /\ serves' = [w \in Workers |-> NoService]
  /\ sent' = <<>>
  /\ UNCHANGED last

===============================================================================
