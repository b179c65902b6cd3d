------------------------ MODULE DiggerThreadsProofs ------------------------
(***************************************************************************)
(* Proofs about DiggerThreads, for any number of workers, any periods and  *)
(* any exceptions: the types, that no thread outlives the environment, and *)
(* that no worker of a pool that is probed in time leaves it.              *)
(*                                                                         *)
(* What main knows when it deletes the environment it knows by a chain of  *)
(* joins, which JoinChain states for each thread of the chain: which       *)
(* threads have ended when it has come so far.  Why a worker stays is a    *)
(* matter of time, counted from the last PROBE to the next: PoolInv.       *)
(***************************************************************************)
EXTENDS DiggerThreads, TLAPS

(* run() starts the proxy, which starts the probe after the workers and    *)
(* the poller; until it starts the workers there are none.                 *)
StartOrder ==
  /\ main.phase = "constructed" => proxy = "none"
  /\ proxy \in {"none", "setup", "pool", "probe"} => probe.phase = "none"
  /\ proxy \in {"none", "setup", "closing", "done"} /\ probe.phase = "none" =>
       poller = "none" /\ \A t \in Threads : worker[t].phase = "none"

JoinChain ==
  /\ main.joined => main.phase \in {"left", "deleted", "gone"} /\ proxy = "done"
  /\ main.phase \in {"left", "deleted", "gone"} /\ ~Orphaned => main.joined
  /\ proxy \in {"closing", "done"} /\ ~Orphaned => probe.phase \in {"none", "done"}
  /\ probe.phase \in {"terminate", "joining", "done"} /\ ~Orphaned => poller = "done"
  /\ probe.phase = "done" /\ ~Orphaned => \A t \in Threads : HasEnded(worker[t])

IInv == TypeOK /\ StartOrder /\ JoinChain

-----------------------------------------------------------------------------
(* Types.                                                                  *)

(* An exception of a kind that leaves nobody unjoined changes nothing about*)
(* Orphaned, the others make it true, and it stays true.                   *)
LEMMA FailsLemma ==
  ASSUME TypeOK, NEW kind, Fails(kind)
  PROVE  /\ failed' \in Seq(MayFail)
         /\ Orphaned' <=> Orphaned \/ kind \in {"main", "pool", "probe"}
<1>1. failed \in Seq(MayFail) /\ kind \in MayFail /\ failed' = Append(failed, kind)
  BY DEF TypeOK, Fails
<1>2. failed' \in Seq(MayFail) /\ Len(failed') = Len(failed) + 1
  BY <1>1
<1>3. /\ \A i \in DOMAIN failed : failed'[i] = failed[i] /\ i \in DOMAIN failed'
      /\ Len(failed') \in DOMAIN failed' /\ failed'[Len(failed')] = kind
      /\ \A i \in DOMAIN failed' : i \in DOMAIN failed \/ i = Len(failed')
  BY <1>1
<1> QED
  BY <1>2, <1>3 DEF Orphaned

(* The worker records keep their type when one of them changes to w.       *)
WorkerType(w) ==
  /\ w \in Worker
  /\ w.phase \in {"none", "created"} => w.commands = <<>> /\ w.queue = 0
  /\ w.revent => w.phase = "busy" /\ w.commands # <<>>

LEMMA WorkersType ==
  TypeOK <=> /\ interrupt \in [worker: BOOLEAN, probe: BOOLEAN, poller: BOOLEAN]
             /\ main \in Main
             /\ proxy \in Proxy
             /\ control \in [heard: BOOLEAN, terminate: BOOLEAN]
             /\ probe \in Probe
             /\ poller \in Poller
             /\ worker \in [Threads -> Worker]
             /\ failed \in Seq(MayFail)
             /\ \A t \in Threads : WorkerType(worker[t])
BY DEF TypeOK, WorkerType

LEMMA PublishedType ==
  ASSUME NEW w, WorkerType(w), Listening(w), NEW command \in {"PROBE", "TERMINATE"}
  PROVE  WorkerType([w EXCEPT !.commands = Append(@, command)])
<1>1. /\ w \in Worker /\ w.commands \in Seq({"PROBE", "TERMINATE"})
      /\ w.phase \in {"poll", "busy"}
  BY DEF WorkerType, Worker, Listening
<1>2. /\ Append(w.commands, command) \in Seq({"PROBE", "TERMINATE"})
      /\ Append(w.commands, command) # <<>>
  BY <1>1
<1> QED
  BY <1>1, <1>2 DEF WorkerType, Worker

LEMMA ObeyedType ==
  ASSUME NEW w, WorkerType(w), w.phase \in {"poll", "busy"}, ~w.revent, w.commands # <<>>
  PROVE  WorkerType(Obeyed(w))
<1>1. w \in Worker /\ w.commands \in Seq({"PROBE", "TERMINATE"})
  BY DEF WorkerType, Worker
<1>2. Tail(w.commands) \in Seq({"PROBE", "TERMINATE"})
  BY <1>1
<1> QED
  BY <1>1, <1>2 DEF WorkerType, Worker, Obeyed

LEMMA AgeCheckedType ==
  ASSUME NEW w, WorkerType(w), w.phase \in {"poll", "busy"}, ~w.revent
  PROVE  WorkerType(AgeChecked(w))
BY DEF WorkerType, Worker, AgeChecked

LEMMA AgedType ==
  ASSUME NEW w, WorkerType(w)
  PROVE  WorkerType(Aged(w))
<1>1. w \in Worker /\ w.age \in Nat /\ w.busy \in Nat
  BY DEF WorkerType, Worker
<1>2. Older(w.age) \in Nat
  BY <1>1, DiggerAssumption DEF Older
<1>3. /\ (IF Listening(w) THEN Older(w.age) ELSE w.age) \in Nat
      /\ (IF w.phase = "busy" THEN w.busy + 1 ELSE w.busy) \in Nat
  BY <1>1, <1>2
<1> DEFINE age == IF Listening(w) THEN Older(w.age) ELSE w.age
           busy == IF w.phase = "busy" THEN w.busy + 1 ELSE w.busy
<1>4. Aged(w) = [w EXCEPT !.age = age, !.busy = busy]
  BY DEF Aged
<1>5. age \in Nat /\ busy \in Nat
  BY <1>3
<1> HIDE DEF age, busy
<1>6. [w EXCEPT !.age = age, !.busy = busy] \in Worker
  BY <1>1, <1>5 DEF Worker
<1>7. /\ Aged(w).phase = w.phase /\ Aged(w).commands = w.commands
      /\ Aged(w).queue = w.queue /\ Aged(w).revent = w.revent
  BY <1>1, <1>4 DEF Worker
<1> QED
  BY <1>4, <1>6, <1>7 DEF WorkerType

LEMMA InitType == Init => TypeOK
BY DEF Init, TypeOK, Main, Proxy, Probe, Poller, Worker, NotStarted

LEMMA MainType ==
  TypeOK /\ (MainStep \/ MainFails \/ Signal \/ ControlHeard) => TypeOK'
<1> SUFFICES ASSUME TypeOK, MainStep \/ MainFails \/ Signal \/ ControlHeard
             PROVE  TypeOK'
  OBVIOUS
<1>1. CASE Signal
  BY <1>1 DEF TypeOK, Signal
<1>2. CASE ControlHeard
  BY <1>2 DEF TypeOK, ControlHeard
<1>3. CASE MainFails
  <2>1. failed' \in Seq(MayFail)
    BY <1>3, FailsLemma DEF MainFails
  <2> QED
    BY <1>3, <2>1 DEF TypeOK, MainFails, Main
<1>4. CASE Run
  BY <1>4 DEF TypeOK, Run, Main, Proxy
<1>5. CASE BindControl
  BY <1>5 DEF TypeOK, BindControl, Main
<1>6. CASE Cleanup
  BY <1>6 DEF TypeOK, Cleanup, Main
<1>7. CASE JoinProxy
  BY <1>7 DEF TypeOK, JoinProxy, Main
<1>8. CASE DeleteEnvironment
  BY <1>8 DEF TypeOK, DeleteEnvironment, Main
<1>9. CASE Abort
  <2> DEFINE e == [NotStarted EXCEPT !.phase = "ended"]
  <2>1. WorkerType(e)
    <3>1. <<>> \in Seq({"PROBE", "TERMINATE"})
      OBVIOUS
    <3>2. NotStarted \in Worker /\ NotStarted.commands = <<>> /\ ~NotStarted.revent
      BY <3>1 DEF NotStarted, Worker
    <3> QED
      BY <3>2 DEF WorkerType, Worker
  <2>2. worker' \in [Threads -> Worker] /\ \A t \in Threads : WorkerType(worker'[t])
    BY <1>9, <2>1 DEF Abort, WorkerType
  <2>3. main' \in Main /\ proxy' \in Proxy /\ probe' \in Probe /\ poller' \in Poller
    BY <1>9 DEF TypeOK, Abort, Main, Proxy, Probe, Poller
  <2> QED
    BY <1>9, <2>2, <2>3 DEF TypeOK, Abort, WorkerType
<1>10. CASE CloseContext
  BY <1>10 DEF TypeOK, CloseContext, Main
<1> QED
  BY <1>1, <1>2, <1>3, <1>4, <1>5, <1>6, <1>7, <1>8, <1>9, <1>10 DEF MainStep

LEMMA ProxyType ==
  TypeOK /\ (ProxyStep \/ StartFails \/ ProxyFails) => TypeOK'
<1> SUFFICES ASSUME TypeOK, ProxyStep \/ StartFails \/ ProxyFails
             PROVE  TypeOK'
  OBVIOUS
<1>1. CASE SetUp
  <2>1. failed' \in Seq(MayFail)
    BY <1>1, FailsLemma DEF SetUp, TypeOK
  <2> QED
    BY <1>1, <2>1 DEF TypeOK, SetUp, Proxy
<1>2. ASSUME NEW t \in Threads, StartWorker(t) PROVE TypeOK'
  BY <1>2 DEF TypeOK, StartWorker, Worker
<1>3. CASE StartPoller
  BY <1>3 DEF TypeOK, StartPoller, Proxy, Poller
<1>4. CASE StartProbe
  BY <1>4 DEF TypeOK, StartProbe, Proxy, Probe
<1>5. CASE StartFails
  <2>1. failed' \in Seq(MayFail)
    BY <1>5, FailsLemma DEF StartFails
  <2> QED
    BY <1>5, <2>1 DEF TypeOK, StartFails, Proxy, Probe
<1>6. CASE ProxyTerminated
  BY <1>6 DEF TypeOK, ProxyTerminated, StopProbe, Proxy
<1>7. CASE ProxyFails
  <2>1. failed' \in Seq(MayFail)
    BY <1>7, FailsLemma DEF ProxyFails
  <2> QED
    BY <1>7, <2>1 DEF TypeOK, ProxyFails, StopProbe, Proxy
<1>8. CASE JoinProbe
  BY <1>8 DEF TypeOK, JoinProbe, Proxy
<1>9. CASE CloseProxy
  BY <1>9 DEF TypeOK, CloseProxy, Told, Proxy
<1> QED
  BY <1>1, <1>2, <1>3, <1>4, <1>5, <1>6, <1>7, <1>8, <1>9 DEF ProxyStep

LEMMA SentType ==
  ASSUME TypeOK, NEW command \in {"PROBE", "TERMINATE"}, worker' = Published(command)
  PROVE  worker' \in [Threads -> Worker] /\ \A t \in Threads : WorkerType(worker'[t])
<1>1. \A t \in Threads : WorkerType(worker[t])
  BY WorkersType
<1>2. \A t \in Threads : WorkerType(worker'[t])
  BY <1>1, PublishedType DEF Published
<1> QED
  BY <1>2 DEF WorkerType, Published

LEMMA ProbeType ==
  TypeOK /\ (ProbeStep \/ PollerEnds \/ PollerFails) => TypeOK'
<1> SUFFICES ASSUME TypeOK, ProbeStep \/ PollerEnds \/ PollerFails
             PROVE  TypeOK'
  OBVIOUS
<1>1. CASE EnterProbe
  <2>1. failed' \in Seq(MayFail)
    BY <1>1, FailsLemma DEF EnterProbe, TypeOK
  <2> QED
    BY <1>1, <2>1 DEF TypeOK, EnterProbe, Probe
<1>2. CASE SendProbe
  <2>1. worker' \in [Threads -> Worker] /\ \A t \in Threads : WorkerType(worker'[t])
    BY <1>2, SentType DEF SendProbe
  <2>2. probe' \in Probe
    BY <1>2, DiggerAssumption DEF TypeOK, SendProbe, Probe
  <2> QED
    BY <1>2, <2>1, <2>2 DEF TypeOK, SendProbe, WorkerType
<1>3. CASE LeaveProbeLoop
  <2>1. probe' \in Probe
    BY <1>3 DEF LeaveProbeLoop, Probe
  <2>2. interrupt' \in [worker: BOOLEAN, probe: BOOLEAN, poller: BOOLEAN]
    BY <1>3 DEF LeaveProbeLoop, TypeOK
  <2> QED
    BY <1>3, <2>1, <2>2 DEF TypeOK, LeaveProbeLoop
<1>4. CASE JoinPoller
  BY <1>4 DEF TypeOK, JoinPoller, Probe
<1>5. CASE SendTerminate
  <2>1. worker' \in [Threads -> Worker] /\ \A t \in Threads : WorkerType(worker'[t])
    BY <1>5, SentType DEF SendTerminate
  <2>2. probe' \in Probe
    BY <1>5 DEF TypeOK, SendTerminate, Probe
  <2> QED
    BY <1>5, <2>1, <2>2 DEF TypeOK, SendTerminate, WorkerType
<1>6. CASE JoinWorkers
  BY <1>6 DEF TypeOK, JoinWorkers, Probe
<1>7. CASE PollerEnds
  BY <1>7 DEF TypeOK, PollerEnds, Poller
<1>8. CASE PollerFails
  <2>1. failed' \in Seq(MayFail)
    BY <1>8, FailsLemma DEF PollerFails
  <2> QED
    BY <1>8, <2>1 DEF TypeOK, PollerFails, Poller
<1> QED
  BY <1>1, <1>2, <1>3, <1>4, <1>5, <1>6, <1>7, <1>8 DEF ProbeStep

(* The worker t becomes w, the others stay as they are.                    *)
LEMMA OneWorkerType ==
  ASSUME TypeOK, NEW t \in Threads, NEW w, WorkerType(w),
         worker' = [worker EXCEPT ![t] = w]
  PROVE  worker' \in [Threads -> Worker] /\ \A s \in Threads : WorkerType(worker'[s])
<1>1. worker \in [Threads -> Worker] /\ \A s \in Threads : WorkerType(worker[s])
  BY WorkersType
<1> QED
  BY <1>1 DEF WorkerType

LEMMA WorkerStepType ==
  ASSUME TypeOK, NEW t \in Threads, WorkerStep(t) \/ Request(t) \/ WorkerFails(t)
  PROVE  TypeOK'
<1> DEFINE w == worker[t]
<1>1. WorkerType(w) /\ w \in Worker /\ w.queue \in Nat
  BY WorkersType DEF WorkerType, Worker
<1>2. CASE Connect(t)
  <2>1. WorkerType([w EXCEPT !.phase = "poll"])
    BY <1>1, <1>2 DEF WorkerType, Worker, Connect
  <2> QED
    BY <1>2, <2>1, OneWorkerType DEF TypeOK, Connect, WorkerType
<1>3. CASE Request(t)
  <2>1. WorkerType([w EXCEPT !.queue = @ + 1])
    BY <1>1, <1>3 DEF WorkerType, Worker, Request, Listening
  <2> QED
    BY <1>3, <2>1, OneWorkerType DEF TypeOK, Request, WorkerType
<1>4. CASE Poll(t)
  <2>1. WorkerType(worker'[t]) /\ worker' = [worker EXCEPT ![t] = worker'[t]]
    <3>1. ~w.revent /\ w.phase = "poll"
      BY <1>1, <1>4 DEF Poll, WorkerType
    <3>2. CASE w.queue > 0
      <4>1. /\ worker' = [worker EXCEPT ![t] =
                 [w EXCEPT !.phase = "busy", !.queue = @ - 1, !.busy = 0,
                           !.revent = w.commands # <<>>]]
        BY <1>4, <3>2 DEF Poll
      <4>2. WorkerType([w EXCEPT !.phase = "busy", !.queue = @ - 1, !.busy = 0,
                                 !.revent = w.commands # <<>>])
        <5>1. w.queue - 1 \in Nat /\ w.commands \in Seq({"PROBE", "TERMINATE"})
          BY <1>1, <3>2 DEF Worker
        <5>2. CASE w.commands = <<>>
          <6>1. (w.commands # <<>>) = FALSE
            BY <5>2
          <6> QED
            BY <1>1, <5>1, <6>1 DEF WorkerType, Worker
        <5>3. CASE w.commands # <<>>
          <6>1. (w.commands # <<>>) = TRUE
            BY <5>3
          <6> QED
            BY <1>1, <5>1, <5>3, <6>1 DEF WorkerType, Worker
        <5> QED
          BY <5>2, <5>3
      <4> QED
        BY <4>1, <4>2 DEF TypeOK
    <3>3. CASE ~(w.queue > 0) /\ w.commands # <<>>
      <4>1. worker' = [worker EXCEPT ![t] = Obeyed(w)]
        BY <1>4, <3>3 DEF Poll
      <4> QED
        BY <1>1, <3>1, <3>3, <4>1, ObeyedType DEF TypeOK
    <3>4. CASE ~(w.queue > 0) /\ w.commands = <<>>
      <4>1. worker' = [worker EXCEPT ![t] = AgeChecked(w)]
        BY <1>4, <3>4 DEF Poll
      <4> QED
        BY <1>1, <3>1, <4>1, AgeCheckedType DEF TypeOK
    <3> QED
      BY <3>2, <3>3, <3>4
  <2> QED
    BY <1>4, <2>1, OneWorkerType DEF TypeOK, Poll, WorkerType
<1>5. CASE Reply(t)
  <2> DEFINE v == [w EXCEPT !.busy = 0, !.revent = FALSE]
  <2>1. WorkerType(v) /\ v.phase = "busy" /\ ~v.revent /\ v.commands = w.commands
    BY <1>1, <1>5 DEF WorkerType, Worker, Reply
  <2>2. w.revent => w.commands # <<>>
    BY <1>1 DEF WorkerType
  <2>3. worker' = [worker EXCEPT ![t] = IF w.revent THEN Obeyed(v) ELSE AgeChecked(v)]
    BY <1>5 DEF Reply
  <2> HIDE DEF v
  <2>4. WorkerType(IF w.revent THEN Obeyed(v) ELSE AgeChecked(v))
    BY <2>1, <2>2, ObeyedType, AgeCheckedType
  <2> QED
    BY <1>5, <2>3, <2>4, OneWorkerType DEF TypeOK, Reply, WorkerType
<1>6. CASE WorkerFails(t)
  <2>1. failed' \in Seq(MayFail)
    BY <1>6, FailsLemma DEF WorkerFails
  <2>2. WorkerType([w EXCEPT !.phase = "ended", !.busy = 0, !.revent = FALSE])
    BY <1>1 DEF WorkerType, Worker
  <2> QED
    BY <1>6, <2>1, <2>2, OneWorkerType DEF TypeOK, WorkerFails, WorkerType
<1> QED
  BY <1>2, <1>3, <1>4, <1>5, <1>6 DEF WorkerStep

LEMMA TickType == TypeOK /\ Tick => TypeOK'
<1> SUFFICES ASSUME TypeOK, Tick PROVE TypeOK'
  OBVIOUS
<1>1. \A t \in Threads : WorkerType(worker[t])
  BY WorkersType
<1>2. \A t \in Threads : WorkerType(worker'[t])
  BY <1>1, AgedType DEF Tick
<1>3. worker' \in [Threads -> Worker]
  BY <1>2 DEF Tick, WorkerType
<1>4. probe' \in Probe
  BY DEF TypeOK, Tick, Probe
<1> QED
  BY <1>2, <1>3, <1>4 DEF TypeOK, Tick, WorkerType

LEMMA NextType == TypeOK /\ [Next]_vars => TypeOK'
<1> SUFFICES ASSUME TypeOK, [Next]_vars PROVE TypeOK'
  OBVIOUS
<1>1. CASE UNCHANGED vars
  BY <1>1 DEF TypeOK, vars
<1> QED
  BY <1>1, MainType, ProxyType, ProbeType, WorkerStepType, TickType DEF Next

(* The variables have their types, for any workers, bounds and exceptions. *)
THEOREM TypeCorrect == Spec => []TypeOK
BY InitType, NextType, PTL DEF Spec
-----------------------------------------------------------------------------
(* The chain of joins.                                                     *)

LEMMA InitChain == Init => StartOrder /\ JoinChain
BY DEF Init, StartOrder, JoinChain, NotStarted, Orphaned

LEMMA MainChain ==
  IInv /\ (MainStep \/ MainFails \/ Signal \/ ControlHeard) => (StartOrder /\ JoinChain)'
<1> SUFFICES ASSUME IInv, MainStep \/ MainFails \/ Signal \/ ControlHeard
             PROVE  (StartOrder /\ JoinChain)'
  OBVIOUS
<1>1. /\ main \in Main /\ StartOrder /\ JoinChain
  BY DEF IInv, TypeOK
<1>2. failed' = failed => (Orphaned' <=> Orphaned)
  BY DEF Orphaned
<1>3. CASE Signal
  BY <1>1, <1>2, <1>3 DEF StartOrder, JoinChain, Signal
<1>4. CASE ControlHeard
  BY <1>1, <1>2, <1>4 DEF StartOrder, JoinChain, ControlHeard
<1>5. CASE MainFails
  <2>1. Orphaned'
    BY <1>5, FailsLemma DEF MainFails, IInv
  <2>2. ~main.joined /\ main'.joined = main.joined /\ main'.phase = "left"
    BY <1>1, <1>5 DEF MainFails, JoinChain, Main
  <2> QED
    BY <1>1, <1>5, <2>1, <2>2 DEF StartOrder, JoinChain, MainFails
<1>6. CASE Run
  <2>1. ~main.joined /\ main'.joined = main.joined /\ main'.phase = "heating"
    BY <1>1, <1>6 DEF Run, JoinChain, Main
  <2> QED
    BY <1>1, <1>2, <1>6, <2>1 DEF StartOrder, JoinChain, Run
<1>7. CASE BindControl \/ Cleanup
  <2>1. /\ ~main.joined /\ main'.joined = main.joined
        /\ main'.phase \in {"loop", "joining"}
    BY <1>1, <1>7 DEF BindControl, Cleanup, JoinChain, Main
  <2> QED
    BY <1>1, <1>2, <1>7, <2>1 DEF StartOrder, JoinChain, BindControl, Cleanup
<1>8. CASE JoinProxy
  BY <1>1, <1>2, <1>8 DEF StartOrder, JoinChain, JoinProxy
<1>9. CASE DeleteEnvironment \/ CloseContext
  <2>1. /\ main'.joined = main.joined /\ main.phase \in {"left", "deleted"}
        /\ main'.phase \in {"deleted", "gone"}
    BY <1>1, <1>9 DEF DeleteEnvironment, CloseContext, Main
  <2> QED
    BY <1>1, <1>2, <1>9, <2>1 DEF StartOrder, JoinChain, DeleteEnvironment, CloseContext
<1>10. CASE Abort
  <2>1. /\ ~main'.joined /\ main'.phase = "aborted"
        /\ probe'.phase = "done" /\ proxy' = "done" /\ poller' = "done"
    BY <1>1, <1>10 DEF Abort, Main
  <2>2. \A t \in Threads : worker'[t].phase = "ended"
    BY <1>10 DEF Abort, NotStarted
  <2> QED
    BY <2>1, <2>2 DEF StartOrder, JoinChain, HasEnded
<1> QED
  BY <1>3, <1>4, <1>5, <1>6, <1>7, <1>8, <1>9, <1>10 DEF MainStep

LEMMA ProxyChain ==
  IInv /\ (ProxyStep \/ StartFails \/ ProxyFails) => (StartOrder /\ JoinChain)'
<1> SUFFICES ASSUME IInv, ProxyStep \/ StartFails \/ ProxyFails
             PROVE  (StartOrder /\ JoinChain)'
  OBVIOUS
<1>1. /\ TypeOK /\ StartOrder /\ JoinChain
  BY DEF IInv
<1>2. failed' = failed => (Orphaned' <=> Orphaned)
  BY DEF Orphaned
<1>3. CASE SetUp
  <2>1. Orphaned' <=> Orphaned
    BY <1>1, <1>2, <1>3, FailsLemma DEF SetUp
  <2> QED
    BY <1>1, <1>3, <2>1 DEF StartOrder, JoinChain, SetUp
<1>4. ASSUME NEW t \in Threads, StartWorker(t) PROVE (StartOrder /\ JoinChain)'
  BY <1>1, <1>2, <1>4 DEF StartOrder, JoinChain, StartWorker
<1>5. CASE StartPoller
  BY <1>1, <1>2, <1>5 DEF StartOrder, JoinChain, StartPoller
<1>6. CASE StartProbe
  BY <1>1, <1>2, <1>6 DEF StartOrder, JoinChain, StartProbe
<1>7. CASE StartFails
  <2>1. Orphaned'
    BY <1>1, <1>7, FailsLemma DEF StartFails
  <2> QED
    BY <1>1, <1>7, <2>1 DEF StartOrder, JoinChain, StartFails
<1>8. CASE ProxyTerminated
  BY <1>1, <1>2, <1>8 DEF StartOrder, JoinChain, ProxyTerminated, StopProbe
<1>9. CASE ProxyFails
  <2>1. Orphaned' <=> Orphaned
    BY <1>1, <1>9, FailsLemma DEF ProxyFails
  <2> QED
    BY <1>1, <1>9, <2>1 DEF StartOrder, JoinChain, ProxyFails, StopProbe
<1>10. CASE JoinProbe
  BY <1>1, <1>2, <1>10 DEF StartOrder, JoinChain, JoinProbe
<1>11. CASE CloseProxy
  BY <1>1, <1>2, <1>11 DEF StartOrder, JoinChain, CloseProxy
<1> QED
  BY <1>3, <1>4, <1>5, <1>6, <1>7, <1>8, <1>9, <1>10, <1>11 DEF ProxyStep

(* Nobody but the proxy starts a worker, and none comes back.              *)
NoneComesBack ==
  \A t \in Threads : /\ worker[t].phase = "none" => worker'[t].phase = "none"
                     /\ HasEnded(worker[t]) => HasEnded(worker'[t])

(* A step of workers only, whatever it does to those that still run.       *)
LEMMA WorkersChain ==
  ASSUME StartOrder, JoinChain, NoneComesBack, Orphaned' <=> Orphaned,
         UNCHANGED <<main, proxy, poller>>, probe'.phase = probe.phase
  PROVE  (StartOrder /\ JoinChain)'
BY DEF StartOrder, JoinChain, NoneComesBack

LEMMA PublishedPhases ==
  ASSUME TypeOK, NEW command, worker' = Published(command)
  PROVE  NoneComesBack
<1>1. \A t \in Threads : worker[t] \in Worker
  BY DEF TypeOK
<1>2. \A t \in Threads : worker'[t].phase = worker[t].phase
  BY <1>1 DEF Published, Worker
<1> QED
  BY <1>2 DEF NoneComesBack, HasEnded

LEMMA ProbeChain ==
  IInv /\ (ProbeStep \/ PollerEnds \/ PollerFails) => (StartOrder /\ JoinChain)'
<1> SUFFICES ASSUME IInv, ProbeStep \/ PollerEnds \/ PollerFails
             PROVE  (StartOrder /\ JoinChain)'
  OBVIOUS
<1>1. /\ TypeOK /\ StartOrder /\ JoinChain /\ probe \in Probe
  BY DEF IInv, TypeOK
<1>2. failed' = failed => (Orphaned' <=> Orphaned)
  BY DEF Orphaned
<1>3. CASE EnterProbe
  <2>1. CASE probe' = [probe EXCEPT !.phase = "loop"] /\ UNCHANGED failed
    <3>1. probe.phase = "start" /\ probe'.phase = "loop"
      BY <1>1, <1>3, <2>1 DEF EnterProbe, Probe
    <3> QED
      BY <1>1, <1>2, <1>3, <2>1, <3>1 DEF StartOrder, JoinChain, EnterProbe
  <2>2. CASE probe' = [probe EXCEPT !.phase = "done"] /\ Fails("probe")
    <3>1. probe.phase = "start" /\ probe'.phase = "done" /\ Orphaned'
      BY <1>1, <1>3, <2>2, FailsLemma DEF EnterProbe, Probe
    <3> QED
      BY <1>1, <1>3, <3>1 DEF StartOrder, JoinChain, EnterProbe
  <2> QED
    BY <1>3, <2>1, <2>2 DEF EnterProbe
<1>4. CASE SendProbe
  <2>1. NoneComesBack
    BY <1>1, <1>4, PublishedPhases DEF SendProbe
  <2>2. probe'.phase = probe.phase
    BY <1>1, <1>4 DEF SendProbe, Probe
  <2> QED
    BY <1>1, <1>2, <1>4, <2>1, <2>2, WorkersChain DEF SendProbe
<1>5. CASE LeaveProbeLoop
  BY <1>1, <1>2, <1>5 DEF StartOrder, JoinChain, LeaveProbeLoop
<1>6. CASE JoinPoller
  <2>1. probe'.phase = "terminate"
    BY <1>1, <1>6 DEF JoinPoller, Probe
  <2> QED
    BY <1>1, <1>2, <1>6, <2>1 DEF StartOrder, JoinChain, JoinPoller
<1>7. CASE SendTerminate
  <2>1. NoneComesBack
    BY <1>1, <1>7, PublishedPhases DEF SendTerminate
  <2>2. probe.phase = "terminate" /\ probe'.phase = "joining"
    BY <1>1, <1>7 DEF SendTerminate, Probe
  <2> QED
    BY <1>1, <1>2, <1>7, <2>1, <2>2 DEF StartOrder, JoinChain, SendTerminate
<1>8. CASE JoinWorkers
  <2>1. probe.phase = "joining" /\ probe'.phase = "done"
    BY <1>1, <1>8 DEF JoinWorkers, Probe
  <2> QED
    BY <1>1, <1>2, <1>8, <2>1 DEF StartOrder, JoinChain, JoinWorkers, Joined
<1>9. CASE PollerEnds
  BY <1>1, <1>2, <1>9 DEF StartOrder, JoinChain, PollerEnds
<1>10. CASE PollerFails
  <2>1. Orphaned' <=> Orphaned
    BY <1>1, <1>10, FailsLemma DEF PollerFails
  <2> QED
    BY <1>1, <1>10, <2>1 DEF StartOrder, JoinChain, PollerFails
<1> QED
  BY <1>3, <1>4, <1>5, <1>6, <1>7, <1>8, <1>9, <1>10 DEF ProbeStep

LEMMA WorkerStepChain ==
  ASSUME IInv, NEW t \in Threads, WorkerStep(t) \/ Request(t) \/ WorkerFails(t)
  PROVE  (StartOrder /\ JoinChain)'
<1>1. /\ TypeOK /\ StartOrder /\ JoinChain
  BY DEF IInv
<1>2. Orphaned' <=> Orphaned
  <2>1. CASE WorkerFails(t)
    BY <1>1, <2>1, FailsLemma DEF WorkerFails
  <2> QED
    BY <2>1 DEF WorkerStep, Connect, Poll, Reply, Request, Orphaned
<1>3. ~HasEnded(worker[t])
  BY DEF WorkerStep, Connect, Poll, Reply, Request, WorkerFails, Listening, HasEnded
<1>4. \A s \in Threads \ {t} : worker'[s] = worker[s]
  BY <1>1 DEF WorkerStep, Connect, Poll, Reply, Request, WorkerFails, TypeOK
<1>5. NoneComesBack
  BY <1>3, <1>4 DEF NoneComesBack, HasEnded
<1> QED
  BY <1>1, <1>2, <1>5, WorkersChain
  DEF WorkerStep, Connect, Poll, Reply, Request, WorkerFails

LEMMA TickChain == IInv /\ Tick => (StartOrder /\ JoinChain)'
<1> SUFFICES ASSUME IInv, Tick PROVE (StartOrder /\ JoinChain)'
  OBVIOUS
<1>1. /\ StartOrder /\ JoinChain /\ probe \in Probe /\ \A t \in Threads : worker[t] \in Worker
  BY DEF IInv, TypeOK
<1>2. probe'.phase = probe.phase
  BY <1>1 DEF Tick, Probe
<1>3. \A t \in Threads : worker'[t].phase = worker[t].phase
  BY <1>1 DEF Tick, Aged, Worker
<1>4. NoneComesBack
  BY <1>3 DEF NoneComesBack, HasEnded
<1>5. Orphaned' <=> Orphaned
  BY DEF Tick, Orphaned
<1> QED
  BY <1>1, <1>2, <1>4, <1>5, WorkersChain DEF Tick

LEMMA NextChain == IInv /\ [Next]_vars => IInv'
<1> SUFFICES ASSUME IInv, [Next]_vars PROVE IInv'
  OBVIOUS
<1>1. TypeOK'
  BY NextType DEF IInv
<1>2. (StartOrder /\ JoinChain)'
  <2>1. CASE UNCHANGED vars
    BY <2>1 DEF IInv, StartOrder, JoinChain, vars, Orphaned
  <2> QED
    BY <2>1, MainChain, ProxyChain, ProbeChain, WorkerStepChain, TickChain DEF Next
<1> QED
  BY <1>1, <1>2 DEF IInv

LEMMA ChainHolds == IInv => EnvironmentOutlivesThreads
<1> SUFFICES ASSUME IInv, main.phase \in {"deleted", "gone"}, ~Orphaned
             PROVE  /\ proxy = "done"
                    /\ probe.phase \in {"none", "done"}
                    /\ poller # "running"
                    /\ \A t \in Threads : HasEnded(worker[t])
  BY DEF EnvironmentOutlivesThreads
<1>1. proxy = "done" /\ probe.phase \in {"none", "done"}
  BY DEF IInv, JoinChain
<1>2. CASE probe.phase = "none"
  BY <1>1, <1>2 DEF IInv, StartOrder, HasEnded
<1>3. CASE probe.phase = "done"
  BY <1>1, <1>3 DEF IInv, JoinChain
<1> QED
  BY <1>1, <1>2, <1>3

(* No thread uses the environment after main has deleted it, whatever was  *)
(* thrown by workers, the poller and the proxy (wdigger.cpp: ~Digger(),    *)
(* cleanup(), wait_probe_stop(), shutdown_workers()).                      *)
THEOREM EnvironmentHeld == Spec => []EnvironmentOutlivesThreads
<1>1. Init => IInv
  BY InitType, InitChain DEF IInv
<1> QED
  BY <1>1, NextChain, ChainHolds, PTL DEF Spec

-----------------------------------------------------------------------------
(* The pool.                                                               *)
(*                                                                         *)
(* A worker takes itself for forsaken when more than two periods have gone *)
(* by since it read a PROBE.  That none does while the probe thread runs   *)
(* is about time: the age of a worker is at most the time since the last   *)
(* PROBE was sent, and while a request that it works on hides the next one *)
(* from it, at most that of a late PROBE and of the request.               *)

(* What the periods of the code are for: a PROBE that comes late, and is   *)
(* found after a request, is there before two periods are over.            *)
Timely == Lateness + MaxBusy <= ProbePeriod

Stopped == interrupt.probe \/ Orphaned

Young(w) ==
  /\ w.phase \in {"none", "created"} => w.age = 0
  /\ w.phase = "busy" => w.busy <= MaxBusy

Awaits(w, sleep) ==
  /\ Listening(w) /\ w.commands = <<>> => w.age <= ProbePeriod - sleep
  /\ w.phase = "busy" /\ ~w.revent => w.age <= ProbePeriod + Lateness + w.busy

ProbeInTime ==
  /\ probe.phase \in {"none", "start", "loop"}
  /\ probe.phase = "none" => proxy \notin {"proxying", "joining"}
  /\ probe.phase # "loop" => probe.sleep = 0
  /\ probe.phase = "loop" => probe.sleep \in -Lateness .. ProbePeriod

(* The same of each worker, w, when the probe is as in p.                  *)
Cared(w, p) ==
  /\ w.phase # "forsaken"
  /\ p.phase # "loop" /\ Listening(w) => w.age = 0
  /\ p.phase = "loop" => Awaits(w, p.sleep)

Watched == ProbeInTime /\ \A t \in Threads : Cared(worker[t], probe)

PoolInv == (\A t \in Threads : Young(worker[t])) /\ (Stopped \/ Watched)

(* Nobody takes back the order to stop, or an exception.                   *)
LEMMA StoppedStays ==
  ASSUME TypeOK, [Next]_vars, Stopped PROVE Stopped'
<1>1. interrupt \in [worker: BOOLEAN, probe: BOOLEAN, poller: BOOLEAN]
  BY DEF TypeOK
<1>2. interrupt.probe => interrupt'.probe
  <2>1. interrupt' = interrupt \/ (\E v \in BOOLEAN : interrupt' = [interrupt EXCEPT !.worker = v])
          \/ interrupt' = [interrupt EXCEPT !.probe = TRUE]
          \/ interrupt' = [interrupt EXCEPT !.poller = TRUE]
    BY DEF vars, Next, Signal, ControlHeard, Tick, MainStep, Run, BindControl, Cleanup, JoinProxy,
           DeleteEnvironment, Abort, CloseContext, ProxyStep, SetUp, StartWorker, StartPoller,
           StartProbe, ProxyTerminated, StopProbe, JoinProbe, CloseProxy, Told, ProbeStep,
           EnterProbe, SendProbe, LeaveProbeLoop, JoinPoller, SendTerminate, JoinWorkers,
           PollerEnds, MainFails, StartFails, ProxyFails, PollerFails, WorkerStep, Connect, Poll,
           Reply, Request, WorkerFails
  <2> QED
    BY <1>1, <2>1
<1>3. Orphaned => Orphaned'
  <2>1. failed' = failed \/ \E kind \in FailureKinds : Fails(kind)
    BY DEF vars, Next, Signal, ControlHeard, Tick, MainStep, Run, BindControl, Cleanup, JoinProxy,
           DeleteEnvironment, Abort, CloseContext, ProxyStep, SetUp, StartWorker, StartPoller,
           StartProbe, ProxyTerminated, StopProbe, JoinProbe, CloseProxy, ProbeStep,
           EnterProbe, SendProbe, LeaveProbeLoop, JoinPoller, SendTerminate, JoinWorkers,
           PollerEnds, MainFails, StartFails, ProxyFails, PollerFails, WorkerStep, Connect, Poll,
           Reply, Request, WorkerFails, FailureKinds
  <2> QED
    BY <2>1, FailsLemma DEF Orphaned
<1> QED
  BY <1>2, <1>3 DEF Stopped

(* What a worker becomes by each step of its own.                          *)
Grown(w, v) ==
  \/ w.phase = "created" /\ v = [w EXCEPT !.phase = "poll"]
  \/ Listening(w) /\ v = [w EXCEPT !.queue = @ + 1]
  \/ w.phase = "poll" /\ v.phase = "busy" /\ v.commands = w.commands /\ v.age = w.age
       /\ v.busy = 0 /\ (w.commands # <<>> => v.revent)
  \/ w.phase = "poll" /\ w.commands # <<>> /\ v = Obeyed(w)
  \/ w.phase = "poll" /\ w.commands = <<>> /\ v = AgeChecked(w)
  \/ w.phase = "busy" /\ w.revent /\ v = Obeyed([w EXCEPT !.busy = 0, !.revent = FALSE])
  \/ w.phase = "busy" /\ ~w.revent /\ v = AgeChecked([w EXCEPT !.busy = 0, !.revent = FALSE])
  \/ w.phase \in {"created", "poll", "busy"} /\ v.phase = "ended"

LEMMA GrowsStep ==
  ASSUME TypeOK, NEW t \in Threads, WorkerStep(t) \/ Request(t) \/ WorkerFails(t)
  PROVE  /\ Grown(worker[t], worker'[t])
         /\ \A s \in Threads \ {t} : worker'[s] = worker[s]
         /\ UNCHANGED <<probe, proxy>>
<1> DEFINE w == worker[t]
<1>1. /\ WorkerType(w) /\ w \in Worker /\ worker \in [Threads -> Worker]
  BY WorkersType DEF WorkerType
<1>2. CASE Connect(t)
  BY <1>1, <1>2 DEF Connect, Grown
<1>3. CASE Request(t)
  BY <1>1, <1>3 DEF Request, Grown
<1>4. CASE Poll(t)
  <2>1. CASE w.queue > 0
    <3>1. worker' = [worker EXCEPT ![t] =
            [w EXCEPT !.phase = "busy", !.queue = @ - 1, !.busy = 0,
                      !.revent = w.commands # <<>>]]
      BY <1>4, <2>1 DEF Poll
    <3> DEFINE v == worker'[t]
    <3>2. /\ v.phase = "busy" /\ v.commands = w.commands /\ v.age = w.age /\ v.busy = 0
          /\ v.revent = (w.commands # <<>>)
      BY <1>1, <3>1 DEF Worker
    <3>3. w.phase = "poll"
      BY <1>4 DEF Poll
    <3> QED
      BY <1>1, <1>4, <3>1, <3>2, <3>3 DEF Poll, Grown
  <2>2. CASE ~(w.queue > 0)
    BY <1>1, <1>4, <2>2 DEF Poll, Grown
  <2> QED
    BY <2>1, <2>2
<1>5. CASE Reply(t)
  BY <1>1, <1>5 DEF Reply, Grown
<1>6. CASE WorkerFails(t)
  BY <1>1, <1>6 DEF WorkerFails, Grown, Worker
<1> QED
  BY <1>2, <1>3, <1>4, <1>5, <1>6 DEF WorkerStep

LEMMA AgeCheckedFields ==
  ASSUME NEW w \in Worker
  PROVE  /\ AgeChecked(w).phase = IF Forsaken(w) THEN "forsaken" ELSE "poll"
         /\ AgeChecked(w).commands = w.commands
         /\ AgeChecked(w).age = w.age
BY DEF AgeChecked, Worker

LEMMA ObeyedFields ==
  ASSUME NEW w \in Worker
  PROVE  \/ Obeyed(w).phase = "ended"
         \/ Obeyed(w).phase = "poll" /\ Obeyed(w).age = 0
BY DEF Obeyed, Worker

(* One worker and a probe in time: no step of it makes it forsaken.        *)
LEMMA GrownCared ==
  ASSUME Timely, NEW w, WorkerType(w), Young(w), NEW v, Grown(w, v)
  PROVE  /\ Young(v)
         /\ ProbeInTime /\ Cared(w, probe) => Cared(v, probe)
<1>1. /\ w \in Worker /\ w.age \in Nat /\ w.busy \in Nat /\ w.phase # "none"
      /\ w.revent => w.commands # <<>>
  BY DEF WorkerType, Worker, Grown, Listening
<1>2. /\ ProbePeriod \in Nat /\ Lateness \in Nat /\ MaxBusy \in Nat
      /\ Lateness + MaxBusy <= ProbePeriod
  BY DiggerAssumption DEF Timely
<1>3. ProbeInTime => /\ probe.phase = "loop" => probe.sleep \in -Lateness .. ProbePeriod
                     /\ probe.phase # "loop" => probe.sleep = 0
  BY DEF ProbeInTime
<1>4. CASE w.phase = "created" /\ v = [w EXCEPT !.phase = "poll"]
  <2>1. w.age = 0 /\ v.age = 0 /\ v.phase = "poll"
    BY <1>1, <1>4 DEF Young, Worker
  <2> QED
    BY <1>2, <1>3, <2>1 DEF Young, Cared, Awaits, Listening
<1>5. CASE Listening(w) /\ v = [w EXCEPT !.queue = @ + 1]
  <2>1. /\ v.phase = w.phase /\ v.age = w.age /\ v.busy = w.busy
        /\ v.revent = w.revent /\ v.commands = w.commands
    BY <1>1, <1>5 DEF Worker
  <2> QED
    BY <2>1 DEF Young, Cared, Awaits, Listening
<1>6. CASE /\ w.phase = "poll" /\ v.phase = "busy" /\ v.commands = w.commands /\ v.age = w.age
           /\ v.busy = 0 /\ (w.commands # <<>> => v.revent)
  <2>1. Young(v)
    BY <1>2, <1>6 DEF Young
  <2>2. ASSUME ProbeInTime, Cared(w, probe), probe.phase = "loop", ~v.revent
        PROVE  v.age <= ProbePeriod + Lateness + v.busy
    <3>1. w.age <= ProbePeriod - probe.sleep
      BY <1>6, <2>2 DEF Cared, Awaits, Listening
    <3> QED
      BY <1>1, <1>2, <1>3, <1>6, <2>2, <3>1
  <2> QED
    BY <1>6, <2>1, <2>2 DEF Cared, Awaits, Listening
<1>7. ASSUME NEW u \in Worker, v = Obeyed(u) PROVE Young(v) /\ (ProbeInTime => Cared(v, probe))
  BY <1>2, <1>3, <1>7, ObeyedFields DEF Young, Cared, Awaits, Listening
<1>8. CASE w.phase = "poll" /\ w.commands = <<>> /\ v = AgeChecked(w)
  <2>1. /\ v.phase = IF Forsaken(w) THEN "forsaken" ELSE "poll"
        /\ v.commands = <<>> /\ v.age = w.age
    BY <1>1, <1>8, AgeCheckedFields
  <2>2. ASSUME ProbeInTime, Cared(w, probe) PROVE ~Forsaken(w)
    <3>1. w.age = 0 \/ (probe.phase = "loop" /\ w.age <= ProbePeriod - probe.sleep)
      <4>1. w.phase = "poll" /\ w.commands = <<>> /\ Cared(w, probe)
        BY <1>8, <2>2
      <4> QED
        BY <4>1 DEF Cared, Awaits, Listening
    <3> QED
      BY <1>1, <1>2, <1>3, <2>2, <3>1 DEF Forsaken
  <2> QED
    BY <1>8, <2>1, <2>2 DEF Young, Cared, Awaits, Listening
<1>9. CASE w.phase = "busy" /\ ~w.revent /\ v = AgeChecked([w EXCEPT !.busy = 0, !.revent = FALSE])
  <2> DEFINE u == [w EXCEPT !.busy = 0, !.revent = FALSE]
  <2>1. u \in Worker /\ u.age = w.age /\ u.commands = w.commands
    BY <1>1 DEF Worker
  <2> HIDE DEF u
  <2>2. /\ v.phase = IF Forsaken(u) THEN "forsaken" ELSE "poll"
        /\ v.commands = w.commands /\ v.age = w.age
    BY <1>9, <2>1, AgeCheckedFields DEF u
  <2>3. ASSUME ProbeInTime, Cared(w, probe) PROVE ~Forsaken(u)
    <3>1. w.age = 0 \/ w.age <= ProbePeriod + Lateness + w.busy
      <4>1. w.phase = "busy" /\ ~w.revent /\ Cared(w, probe)
        BY <1>9, <2>3
      <4> QED
        BY <4>1 DEF Cared, Awaits, Listening
    <3>2. w.busy <= MaxBusy
      BY <1>9 DEF Young
    <3> QED
      BY <1>1, <1>2, <2>1, <3>1, <3>2 DEF Forsaken
  <2> QED
    BY <1>9, <2>2, <2>3 DEF Young, Cared, Awaits, Listening
<1>10. CASE v.phase = "ended"
  BY <1>10 DEF Young, Cared, Awaits, Listening
<1>11. [w EXCEPT !.busy = 0, !.revent = FALSE] \in Worker
  BY <1>1 DEF Worker
<1> QED
  BY <1>1, <1>4, <1>5, <1>6, <1>7, <1>8, <1>9, <1>10, <1>11 DEF Grown

LEMMA WorkerStepPool ==
  ASSUME Timely, TypeOK, PoolInv, ~Stopped', ~Stopped,
         NEW t \in Threads, WorkerStep(t) \/ Request(t) \/ WorkerFails(t)
  PROVE  (ProbeInTime /\ \A s \in Threads : Young(worker[s]) /\ Cared(worker[s], probe))'
<1>1. \A s \in Threads : WorkerType(worker[s]) /\ Young(worker[s]) /\ Cared(worker[s], probe)
  BY WorkersType DEF PoolInv, Watched
<1>2. ProbeInTime
  BY DEF PoolInv, Watched
<1>3. /\ Grown(worker[t], worker'[t])
      /\ \A s \in Threads \ {t} : worker'[s] = worker[s]
      /\ UNCHANGED <<probe, proxy>>
  BY GrowsStep
<1>4. Young(worker'[t]) /\ Cared(worker'[t], probe)
  BY <1>1, <1>2, <1>3, GrownCared
<1>5. ProbeInTime'
  BY <1>2, <1>3 DEF ProbeInTime
<1>6. \A s \in Threads : Young(worker'[s]) /\ Cared(worker'[s], probe')
  BY <1>1, <1>3, <1>4
<1> QED
  BY <1>5, <1>6 DEF Young, Cared, Awaits, Listening

(* Where neither the probe nor the workers are touched nothing is lost.    *)
LEMMA Untouched ==
  ASSUME ProbeInTime, \A t \in Threads : Young(worker[t]) /\ Cared(worker[t], probe),
         UNCHANGED <<probe, worker>>, ~interrupt'.probe,
         proxy' = proxy \/ proxy' \notin {"proxying", "joining"}
  PROVE  ProbeInTime' /\ \A t \in Threads : Young(worker'[t]) /\ Cared(worker'[t], probe')
BY DEF ProbeInTime

LEMMA MainPool ==
  ASSUME IInv, PoolInv, ~Stopped, ~Stopped',
         MainStep \/ MainFails \/ Signal \/ ControlHeard
  PROVE  ProbeInTime' /\ \A t \in Threads : Young(worker'[t]) /\ Cared(worker'[t], probe')
<1>1. ProbeInTime /\ \A t \in Threads : Young(worker[t]) /\ Cared(worker[t], probe)
  BY DEF PoolInv, Watched
<1>2. ~interrupt'.probe /\ ~Orphaned /\ ~Orphaned'
  BY DEF Stopped
<1>3. ~Abort
  <2>1. main.phase = "deleted" => main.joined
    BY <1>2 DEF IInv, JoinChain
  <2> QED
    BY <2>1 DEF Abort
<1>4. ~MainFails
  BY <1>2, FailsLemma DEF MainFails, IInv
<1>5. UNCHANGED <<probe, worker>> /\ (proxy' = proxy \/ proxy' = "setup")
  BY <1>3, <1>4 DEF MainStep, Signal, ControlHeard, Run, BindControl, Cleanup, JoinProxy,
                    DeleteEnvironment, CloseContext
<1> QED
  BY <1>1, <1>2, <1>5, Untouched

LEMMA ProxyPool ==
  ASSUME IInv, PoolInv, ~Stopped, ~Stopped', ProxyStep \/ StartFails \/ ProxyFails
  PROVE  ProbeInTime' /\ \A t \in Threads : Young(worker'[t]) /\ Cared(worker'[t], probe')
<1>1. ProbeInTime /\ \A t \in Threads : Young(worker[t]) /\ Cared(worker[t], probe)
  BY DEF PoolInv, Watched
<1>2. /\ interrupt \in [worker: BOOLEAN, probe: BOOLEAN, poller: BOOLEAN]
      /\ ~interrupt'.probe /\ ~Orphaned /\ ~Orphaned' /\ worker \in [Threads -> Worker]
      /\ \A t \in Threads : worker[t] \in Worker
  BY DEF Stopped, IInv, TypeOK
<1>3. ~StartFails
  BY <1>2, FailsLemma DEF StartFails, IInv
<1>4. ~StopProbe
  BY <1>2 DEF StopProbe
<1>5. CASE SetUp \/ JoinProbe \/ CloseProxy
  <2>1. UNCHANGED <<probe, worker>> /\ proxy' \notin {"proxying", "joining"}
    BY <1>5 DEF SetUp, JoinProbe, CloseProxy
  <2> QED
    BY <1>1, <1>2, <2>1, Untouched
<1>6. ASSUME NEW t \in Threads, StartWorker(t)
      PROVE  ProbeInTime' /\ \A s \in Threads : Young(worker'[s]) /\ Cared(worker'[s], probe')
  <2>1. /\ UNCHANGED <<probe, proxy>> /\ \A s \in Threads \ {t} : worker'[s] = worker[s]
        /\ worker[t].phase = "none"
        /\ worker'[t].phase = "created" /\ worker'[t].age = worker[t].age
    BY <1>2, <1>6 DEF StartWorker, Worker
  <2>2. Young(worker'[t]) /\ Cared(worker'[t], probe')
    BY <1>1, <2>1 DEF Young, Cared, Awaits, Listening
  <2> QED
    BY <1>1, <2>1, <2>2 DEF ProbeInTime
<1>7. CASE StartPoller
  <2>1. UNCHANGED <<probe, worker>> /\ proxy' \notin {"proxying", "joining"}
    BY <1>7 DEF StartPoller
  <2> QED
    BY <1>1, <1>2, <2>1, Untouched
<1>8. CASE StartProbe
  <2>1. probe.phase = "none" /\ UNCHANGED worker /\ probe' = [phase |-> "start", sleep |-> 0]
    BY <1>8 DEF StartProbe, IInv, StartOrder
  <2> QED
    BY <1>1, <2>1 DEF ProbeInTime, Cared
<1> QED
  BY <1>3, <1>4, <1>5, <1>6, <1>7, <1>8 DEF ProxyStep, ProxyTerminated, ProxyFails

LEMMA ProbePool ==
  ASSUME Timely, IInv, PoolInv, ~Stopped, ~Stopped', ProbeStep \/ PollerEnds \/ PollerFails
  PROVE  ProbeInTime' /\ \A t \in Threads : Young(worker'[t]) /\ Cared(worker'[t], probe')
<1>1. ProbeInTime /\ \A t \in Threads : Young(worker[t]) /\ Cared(worker[t], probe)
  BY DEF PoolInv, Watched
<1>2. /\ ~interrupt.probe /\ ~interrupt'.probe /\ ~Orphaned /\ ~Orphaned'
      /\ probe \in Probe
      /\ \A t \in Threads : WorkerType(worker[t]) /\ worker[t] \in Worker
  BY WorkersType DEF Stopped, IInv, TypeOK
<1>3. /\ ProbePeriod \in Nat /\ Lateness \in Nat /\ MaxBusy \in Nat
      /\ Lateness + MaxBusy <= ProbePeriod
  BY DiggerAssumption DEF Timely
<1>4. CASE PollerEnds \/ PollerFails
  BY <1>1, <1>2, <1>4, Untouched DEF PollerEnds, PollerFails
<1>5. CASE EnterProbe
  <2>1. probe.phase = "start" /\ UNCHANGED <<worker, proxy>>
    BY <1>5 DEF EnterProbe
  <2>2. probe' = [probe EXCEPT !.phase = "loop"]
    BY <1>2, <1>5, FailsLemma DEF EnterProbe, IInv
  <2>3. probe'.phase = "loop" /\ probe'.sleep = 0
    BY <1>1, <1>2, <2>1, <2>2 DEF Probe, ProbeInTime
  <2>4. ProbeInTime'
    BY <1>3, <2>3 DEF ProbeInTime
  <2>5. ASSUME NEW t \in Threads PROVE Cared(worker[t], probe')
    <3>1. worker[t].phase # "forsaken" /\ (Listening(worker[t]) => worker[t].age = 0)
      BY <1>1, <2>1 DEF Cared
    <3>2. worker[t].busy \in Nat
      BY <1>2 DEF Worker
    <3> QED
      BY <1>3, <2>3, <3>1, <3>2 DEF Cared, Awaits, Listening
  <2> QED
    BY <1>1, <2>1, <2>4, <2>5
<1>6. CASE SendProbe
  <2>1. /\ probe.phase = "loop" /\ UNCHANGED proxy
        /\ probe' = [probe EXCEPT !.sleep = ProbePeriod]
        /\ worker' = Published("PROBE")
    BY <1>6 DEF SendProbe
  <2>2. probe'.phase = "loop" /\ probe'.sleep = ProbePeriod
    BY <1>2, <2>1 DEF Probe
  <2>3. ProbeInTime'
    BY <1>3, <2>2 DEF ProbeInTime
  <2>4. ASSUME NEW t \in Threads PROVE Young(worker'[t]) /\ Cared(worker'[t], probe')
    <3> DEFINE w == worker[t]
               v == worker'[t]
    <3>1. w.commands \in Seq({"PROBE", "TERMINATE"}) /\ w.busy \in Nat /\ w.age \in Nat
      BY <1>2 DEF Worker
    <3>2. CASE Listening(w)
      <4>1. v = [w EXCEPT !.commands = Append(@, "PROBE")]
        BY <2>1, <3>2 DEF Published
      <4>2. /\ v.commands = Append(w.commands, "PROBE")
            /\ v.phase = w.phase /\ v.age = w.age /\ v.busy = w.busy /\ v.revent = w.revent
        BY <1>2, <4>1 DEF Worker
      <4>3. v.commands # <<>>
        BY <3>1, <4>2
      <4>4. ASSUME w.phase = "busy", ~w.revent
            PROVE  w.age <= ProbePeriod + Lateness + w.busy
        BY <1>1, <2>1, <4>4 DEF Cared, Awaits
      <4> QED
        BY <1>1, <2>2, <4>2, <4>3, <4>4 DEF Young, Cared, Awaits
    <3>3. CASE ~Listening(w)
      <4>1. v = w
        BY <2>1, <3>3 DEF Published
      <4> QED
        BY <1>1, <2>2, <3>3, <4>1 DEF Young, Cared, Awaits, Listening
    <3> QED
      BY <3>2, <3>3
  <2> QED
    BY <2>3, <2>4
<1>7. ~(LeaveProbeLoop \/ JoinPoller \/ SendTerminate \/ JoinWorkers)
  BY <1>1, <1>2 DEF LeaveProbeLoop, JoinPoller, SendTerminate, JoinWorkers, ProbeInTime
<1> QED
  BY <1>4, <1>5, <1>6, <1>7 DEF ProbeStep

LEMMA TickPool ==
  ASSUME Timely, IInv, PoolInv, ~Stopped, ~Stopped', Tick
  PROVE  ProbeInTime' /\ \A t \in Threads : Young(worker'[t]) /\ Cared(worker'[t], probe')
<1>1. ProbeInTime /\ \A t \in Threads : Young(worker[t]) /\ Cared(worker[t], probe)
  BY DEF PoolInv, Watched
<1>2. /\ probe \in Probe /\ probe.sleep \in Int
      /\ \A t \in Threads : WorkerType(worker[t]) /\ worker[t] \in Worker
  BY WorkersType DEF IInv, TypeOK, Probe
<1>3. /\ ProbePeriod \in Nat /\ Lateness \in Nat /\ MaxBusy \in Nat
  BY DiggerAssumption
<1>4. /\ probe'.phase = probe.phase /\ proxy' = proxy
      /\ probe'.sleep = IF probe.phase = "loop" THEN probe.sleep - 1 ELSE probe.sleep
      /\ probe.phase # "start"
      /\ probe.phase = "loop" => probe.sleep > -Lateness
      /\ proxy \notin {"pool", "probe"}
  BY <1>2 DEF Tick, Prompt, Probe
<1>5. ProbeInTime'
  BY <1>1, <1>2, <1>3, <1>4 DEF ProbeInTime
<1>6. probe.phase # "loop" => \A t \in Threads : worker[t].phase = "none"
  BY <1>1, <1>4 DEF ProbeInTime, IInv, StartOrder, TypeOK, Proxy
<1>7. ASSUME NEW t \in Threads PROVE Young(worker'[t]) /\ Cared(worker'[t], probe')
  <2> DEFINE w == worker[t]
             v == worker'[t]
  <2>1. w \in Worker /\ w.age \in Nat /\ w.busy \in Nat
    BY <1>2 DEF Worker
  <2>2. /\ v.phase = w.phase /\ v.commands = w.commands /\ v.revent = w.revent
        /\ v.age = IF Listening(w) THEN Older(w.age) ELSE w.age
        /\ v.busy = IF w.phase = "busy" THEN w.busy + 1 ELSE w.busy
    BY <2>1 DEF Tick, Aged, Worker
  <2>3. Older(w.age) <= w.age + 1 /\ Older(w.age) \in Nat
    BY <1>3, <2>1 DEF Older
  <2>4. w.phase = "busy" => w.busy < MaxBusy
    BY DEF Tick, Prompt
  <2> HIDE DEF v
  <2>5. Young(v)
    BY <1>1, <1>3, <2>1, <2>2, <2>4 DEF Young, Listening
  <2>6. ASSUME probe.phase # "loop" PROVE Cared(v, probe')
    BY <1>4, <1>6, <2>2, <2>6 DEF Cared, Listening
  <2>7. ASSUME probe.phase = "loop" PROVE Cared(v, probe')
    <3>1. w.phase # "forsaken" /\ Awaits(w, probe.sleep)
      BY <1>1, <2>7 DEF Cared
    <3>2. Awaits(v, probe.sleep - 1)
      BY <1>2, <1>3, <2>1, <2>2, <2>3, <3>1 DEF Awaits, Listening
    <3> QED
      BY <1>4, <2>2, <2>7, <3>1, <3>2 DEF Cared
  <2> QED
    BY <2>5, <2>6, <2>7 DEF v
<1> QED
  BY <1>5, <1>7

(* A worker keeps its age and the time of its request in bounds also when  *)
(* the probe has been stopped.                                             *)
LEMMA YoungStays ==
  ASSUME Timely, TypeOK, \A t \in Threads : Young(worker[t]), [Next]_vars
  PROVE  \A t \in Threads : Young(worker'[t])
<1>1. \A t \in Threads : WorkerType(worker[t]) /\ worker[t] \in Worker
  BY WorkersType DEF WorkerType
<1>2. ASSUME NEW t \in Threads, WorkerStep(t) \/ Request(t) \/ WorkerFails(t)
      PROVE  \A s \in Threads : Young(worker'[s])
  BY <1>1, <1>2, GrowsStep, GrownCared
<1>3. CASE Tick
  <2> SUFFICES ASSUME NEW t \in Threads PROVE Young(worker'[t])
    OBVIOUS
  <2> DEFINE w == worker[t]
             v == worker'[t]
  <2>1. w \in Worker /\ w.age \in Nat /\ w.busy \in Nat /\ Young(w)
    BY <1>1 DEF Worker
  <2>2. /\ v.phase = w.phase
        /\ v.age = IF Listening(w) THEN Older(w.age) ELSE w.age
        /\ v.busy = IF w.phase = "busy" THEN w.busy + 1 ELSE w.busy
    BY <1>3, <2>1 DEF Tick, Aged, Worker
  <2>3. (w.phase = "busy" => w.busy < MaxBusy) /\ MaxBusy \in Nat
    BY <1>3, DiggerAssumption DEF Tick, Prompt
  <2> QED
    BY <2>1, <2>2, <2>3 DEF Young, Listening
<1>4. ASSUME NEW t \in Threads, StartWorker(t) PROVE \A s \in Threads : Young(worker'[s])
  <2>1. /\ \A s \in Threads \ {t} : worker'[s] = worker[s]
        /\ worker[t].phase = "none"
        /\ worker'[t].phase = "created" /\ worker'[t].age = worker[t].age
    BY <1>1, <1>4 DEF StartWorker, Worker, TypeOK
  <2>2. Young(worker'[t])
    BY <2>1 DEF Young
  <2> QED
    BY <2>1, <2>2
<1>5. ASSUME NEW command \in {"PROBE", "TERMINATE"}, worker' = Published(command)
      PROVE  \A t \in Threads : Young(worker'[t])
  <2>1. \A t \in Threads : /\ worker'[t].phase = worker[t].phase
                           /\ worker'[t].age = worker[t].age
                           /\ worker'[t].busy = worker[t].busy
    BY <1>1, <1>5 DEF Published, Worker
  <2> QED
    BY <2>1 DEF Young
<1>6. CASE Abort
  <2>1. \A t \in Threads : worker'[t].phase = "ended"
    BY <1>6 DEF Abort, NotStarted
  <2> QED
    BY <2>1 DEF Young
<1>7. CASE SendProbe \/ SendTerminate
  BY <1>5, <1>7 DEF SendProbe, SendTerminate
<1>8. CASE UNCHANGED worker
  BY <1>8
<1> QED
  BY <1>2, <1>3, <1>4, <1>6, <1>7, <1>8
  DEF vars, Next, Signal, ControlHeard, MainStep, Run, BindControl, Cleanup, JoinProxy,
      DeleteEnvironment, CloseContext, ProxyStep, SetUp, StartPoller,
      StartProbe, ProxyTerminated, StopProbe, JoinProbe, CloseProxy, ProbeStep,
      EnterProbe, LeaveProbeLoop, JoinPoller, JoinWorkers,
      PollerEnds, MainFails, StartFails, ProxyFails, PollerFails

LEMMA InitPool == Init => PoolInv
BY DEF Init, PoolInv, Young, Watched, ProbeInTime, Cared, NotStarted, Listening

LEMMA NextPool ==
  ASSUME Timely, IInv, PoolInv, [Next]_vars PROVE PoolInv'
<1>1. TypeOK
  BY DEF IInv
<1>2. \A t \in Threads : Young(worker'[t])
  BY <1>1, YoungStays DEF PoolInv
<1>3. ASSUME ~Stopped' PROVE Watched'
  <2>1. ~Stopped
    BY <1>1, <1>3, StoppedStays
  <2>2. CASE UNCHANGED vars
    BY <2>1, <2>2 DEF PoolInv, Watched, ProbeInTime, vars
  <2>3. CASE Next
    <3>1. ProbeInTime' /\ \A t \in Threads : Cared(worker'[t], probe')
      BY <1>1, <1>3, <2>1, <2>3, MainPool, ProxyPool, ProbePool, TickPool, WorkerStepPool DEF Next
    <3> QED
      BY <3>1 DEF Watched
  <2> QED
    BY <2>2, <2>3
<1> QED
  BY <1>2, <1>3 DEF PoolInv

(* No worker takes itself for forsaken while the probe thread runs, however*)
(* late PROBE comes within Lateness and behind a request of MaxBusy        *)
(* (DiggerWorker::work(), DiggerProbe::work()).                            *)
THEOREM PoolWhole == Timely => (Spec => []PoolStaysWhole)
<1> SUFFICES ASSUME Timely PROVE Spec => []PoolStaysWhole
  OBVIOUS
<1>1. Init => IInv /\ PoolInv
  BY InitType, InitChain, InitPool DEF IInv
<1>2. IInv /\ PoolInv /\ [Next]_vars => (IInv /\ PoolInv)'
  BY NextChain, NextPool
<1>3. PoolInv => PoolStaysWhole
  BY DEF PoolInv, Watched, Cared, Stopped, PoolStaysWhole
<1> QED
  BY <1>1, <1>2, <1>3, PTL DEF Spec

=============================================================================
