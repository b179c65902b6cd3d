---------------------------- MODULE DiggerThreads ----------------------------
(***************************************************************************)
(* The threads of a Digger process (src/worker/wdigger.cpp): how they are  *)
(* started, watch over each other, and end.                                *)
(*                                                                         *)
(*   main    Digger::run(), then ~Digger()                                 *)
(*   proxy   DiggerProxy::run(): starts the others, then forwards requests *)
(*   probe   DiggerProbe::work(): PROBE every period, joins poller and     *)
(*           workers in the end                                            *)
(*   poller  DiggerPoller::work() (what it does is module Subscription)    *)
(*   worker  DiggerWorker::work(), kMaxWorkerThreads of them               *)
(*                                                                         *)
(* They talk by static flags and by PUB sockets, whose messages reach only *)
(* those that have subscribed by then.  Every thread but main and proxy    *)
(* uses the database environment, which ~Digger() deletes.                 *)
(*                                                                         *)
(* Time goes by in seconds (Tick); the properties need to know how late a  *)
(* thread may be, see Prompt.                                              *)
(***************************************************************************)
EXTENDS Integers, Sequences

CONSTANTS
  Threads,      \* the DiggerWorkers, kMaxWorkerThreads of them
  ProbePeriod,  \* POLLING_PROBE_PERIOD, in seconds
  Lateness,     \* how late, in seconds, the probe thread may wake up
  MaxBusy,      \* how many seconds a request takes at most
  MaxQueue,     \* bound: requests waiting for one worker
  MayFail,      \* the kinds of exceptions that may happen
  MaxFailures   \* bound: how many exceptions

FailureKinds == {"main", "proxy", "pool", "probe", "poller", "worker"}

ASSUME DiggerAssumption ==
  /\ ProbePeriod \in Nat \ {0}
  /\ Lateness \in Nat /\ MaxBusy \in Nat /\ MaxQueue \in Nat /\ MaxFailures \in Nat
  /\ MayFail \subseteq FailureKinds

VARIABLES
  interrupt,  \* interrupt_worker, and m_interrupt of DiggerProbe and DiggerPoller
  main,
  proxy,
  control,    \* the subscription of m_control and the TERMINATE it has got
  probe,
  poller,
  worker,
  failed      \* the exceptions so far

vars == <<interrupt, main, proxy, control, probe, poller, worker, failed>>

(* m_proxy_thread, m_probe and the poller exist from the phase after       *)
(* "none"; a probe is "leaked" when run() leaves its object and its socket *)
(* behind.                                                                 *)
Main ==
  [phase: {"constructed", "heating", "loop", "joining", "left", "deleted", "gone", "aborted"},
   joined: BOOLEAN]
Proxy == {"none", "setup", "pool", "probe", "proxying", "joining", "closing", "done"}
Probe ==
  [phase: {"none", "start", "loop", "poller", "terminate", "joining", "done", "leaked"},
   sleep: Int]       \* seconds until sleep() returns, negative when late
Poller == {"none", "running", "done"}
Worker ==
  [phase: {"none", "created", "poll", "busy", "ended", "forsaken"},
   commands: Seq({"PROBE", "TERMINATE"}),   \* to be read from m_commands
   queue: Nat,                              \* requests to be read from m_worker
   revent: BOOLEAN,                         \* socket_items[1].revents of the last poll
   age: Nat,                                \* cur_time - last_probe_time
   busy: Nat]                               \* seconds spent on the request in hand

NotStarted == [phase |-> "none", commands |-> <<>>, queue |-> 0, revent |-> FALSE,
               age |-> 0, busy |-> 0]

Init ==
  /\ interrupt = [worker |-> FALSE, probe |-> FALSE, poller |-> FALSE]
  /\ main = [phase |-> "constructed", joined |-> FALSE]
  /\ proxy = "none"
  /\ control = [heard |-> FALSE, terminate |-> FALSE]
  /\ probe = [phase |-> "none", sleep |-> 0]
  /\ poller = "none"
  /\ worker = [t \in Threads |-> NotStarted]
  /\ failed = <<>>

Fails(kind) ==
  /\ kind \in MayFail
  /\ Len(failed) < MaxFailures
  /\ failed' = Append(failed, kind)

-----------------------------------------------------------------------------
(* Main.                                                                   *)

(* SIGINT, SIGTERM or SIGUSR1: the handler is there since the constructor. *)
Signal ==
  /\ interrupt' = [interrupt EXCEPT !.worker = TRUE]
  /\ UNCHANGED <<main, proxy, control, probe, poller, worker, failed>>

(* run() forgets a signal that came before it.                             *)
Run ==
  /\ main.phase = "constructed"
  /\ interrupt' = [interrupt EXCEPT !.worker = FALSE]
  /\ main' = [main EXCEPT !.phase = "heating"]
  /\ proxy' = "setup"
  /\ UNCHANGED <<control, probe, poller, worker, failed>>

(* After a second of sleep the socket the proxy listens to is bound.       *)
BindControl ==
  /\ main.phase = "heating"
  /\ main' = [main EXCEPT !.phase = "loop"]
  /\ UNCHANGED <<interrupt, proxy, control, probe, poller, worker, failed>>

(* The subscription of the proxy arrives at it.                            *)
ControlHeard ==
  /\ main.phase = "loop"
  /\ proxy \in {"pool", "probe", "proxying", "joining"}
  /\ ~control.heard
  /\ control' = [control EXCEPT !.heard = TRUE]
  /\ UNCHANGED <<interrupt, main, proxy, probe, poller, worker, failed>>

(* recv() returns NULL; cleanup() publishes TERMINATE for the proxy.       *)
Cleanup ==
  /\ main.phase = "loop"
  /\ interrupt.worker
  /\ main' = [main EXCEPT !.phase = "joining"]
  /\ control' = [control EXCEPT !.terminate = control.heard]
  /\ UNCHANGED <<interrupt, proxy, probe, poller, worker, failed>>

JoinProxy ==
  /\ main.phase = "joining"
  /\ proxy = "done"
  /\ main' = [phase |-> "left", joined |-> TRUE]
  /\ UNCHANGED <<interrupt, proxy, control, probe, poller, worker, failed>>

(* bind() or the handling of a request throws: run() catches it, sets the  *)
(* flag and returns, without cleanup().                                    *)
MainFails ==
  /\ main.phase \in {"heating", "loop"}
  /\ Fails("main")
  /\ interrupt' = [interrupt EXCEPT !.worker = TRUE]
  /\ main' = [main EXCEPT !.phase = "left"]
  /\ UNCHANGED <<proxy, control, probe, poller, worker>>

(* ~Digger(): the application takes the environment with it ...            *)
DeleteEnvironment ==
  /\ main.phase = "left"
  /\ main' = [main EXCEPT !.phase = "deleted"]
  /\ UNCHANGED <<interrupt, proxy, control, probe, poller, worker, failed>>

HasEnded(w) == w.phase \in {"none", "ended", "forsaken"}

(* ... then the thread of the proxy is destroyed, which aborts the process *)
(* and with it every thread when nobody has joined it ...                  *)
Abort ==
  /\ main.phase = "deleted"
  /\ ~main.joined
  /\ main' = [main EXCEPT !.phase = "aborted"]
  /\ proxy' = "done"
  /\ probe' = [phase |-> "done", sleep |-> 0]
  /\ poller' = "done"
  /\ worker' = [t \in Threads |-> [NotStarted EXCEPT !.phase = "ended"]]
  /\ UNCHANGED <<interrupt, control, failed>>

(* ... and ~mdwrk() closes the context, which waits until every socket is  *)
(* closed.                                                                 *)
CloseContext ==
  /\ main.phase = "deleted"
  /\ main.joined
  /\ proxy = "done"
  /\ probe.phase \in {"none", "done"}
  /\ poller # "running"
  /\ \A t \in Threads : HasEnded(worker[t])
  /\ main' = [main EXCEPT !.phase = "gone"]
  /\ UNCHANGED <<interrupt, proxy, control, probe, poller, worker, failed>>

-----------------------------------------------------------------------------
(* Proxy.                                                                  *)

(* The sockets are bound and m_control connected, or bind() throws.        *)
SetUp ==
  /\ proxy = "setup"
  /\ \/ proxy' = "pool" /\ UNCHANGED failed
     \/ proxy' = "closing" /\ Fails("proxy")
  /\ UNCHANGED <<interrupt, main, control, probe, poller, worker>>

StartWorker(t) ==
  /\ proxy = "pool"
  /\ worker[t].phase = "none"
  /\ worker' = [worker EXCEPT ![t].phase = "created"]
  /\ UNCHANGED <<interrupt, main, proxy, control, probe, poller, failed>>

StartPoller ==
  /\ proxy = "pool"
  /\ \A t \in Threads : worker[t].phase # "none"
  /\ proxy' = "probe"
  /\ poller' = "running"
  /\ UNCHANGED <<interrupt, main, control, probe, worker, failed>>

StartProbe ==
  /\ proxy = "probe"
  /\ proxy' = "proxying"
  /\ probe' = [phase |-> "start", sleep |-> 0]
  /\ UNCHANGED <<interrupt, main, control, poller, worker, failed>>

(* A thread cannot be created: the threads that were are left to           *)
(* themselves, with the object of the probe.                               *)
StartFails ==
  /\ proxy \in {"pool", "probe"}
  /\ Fails("pool")
  /\ proxy' = "closing"
  /\ probe' = [phase |-> "leaked", sleep |-> 0]
  /\ UNCHANGED <<interrupt, main, control, poller, worker>>

(* wait_probe_stop() begins.                                               *)
StopProbe ==
  /\ proxy = "proxying"
  /\ proxy' = "joining"
  /\ interrupt' = [interrupt EXCEPT !.probe = TRUE]
  /\ UNCHANGED <<main, control, probe, poller, worker>>

(* zmq_proxy_steerable() returns on TERMINATE ...                          *)
ProxyTerminated == control.terminate /\ StopProbe /\ UNCHANGED failed

(* ... or because a reply has no client to go to (ZMQ_ROUTER_MANDATORY).   *)
ProxyFails == Fails("proxy") /\ StopProbe

JoinProbe ==
  /\ proxy = "joining"
  /\ probe.phase = "done"
  /\ proxy' = "closing"
  /\ UNCHANGED <<interrupt, main, control, probe, poller, worker, failed>>

(* Mutant of Told: main is not told that the proxy has ended.              *)
ToldNobody == interrupt

Told == [interrupt EXCEPT !.worker = TRUE]

CloseProxy ==
  /\ proxy = "closing"
  /\ proxy' = "done"
  /\ control' = [control EXCEPT !.heard = FALSE]
  /\ interrupt' = Told
  /\ UNCHANGED <<main, probe, poller, worker, failed>>

-----------------------------------------------------------------------------
(* Probe and poller.                                                       *)

Listening(w) == w.phase \in {"poll", "busy"}

Published(command) ==
  [t \in Threads |->
     IF Listening(worker[t]) THEN [worker[t] EXCEPT !.commands = Append(@, command)]
                             ELSE worker[t]]

(* getConnection(), which throws when there is none left: then the socket  *)
(* is closed and the thread ends, and nobody is joined.                    *)
EnterProbe ==
  /\ probe.phase = "start"
  /\ \/ probe' = [probe EXCEPT !.phase = "loop"] /\ UNCHANGED failed
     \/ probe' = [probe EXCEPT !.phase = "done"] /\ Fails("probe")
  /\ UNCHANGED <<interrupt, main, proxy, control, poller, worker>>

SendProbe ==
  /\ probe.phase = "loop"
  /\ probe.sleep <= 0
  /\ ~interrupt.probe
  /\ worker' = Published("PROBE")
  /\ probe' = [probe EXCEPT !.sleep = ProbePeriod]
  /\ UNCHANGED <<interrupt, main, proxy, control, poller, failed>>

(* The flag is looked at between two sleeps only.                          *)
LeaveProbeLoop ==
  /\ probe.phase = "loop"
  /\ probe.sleep <= 0
  /\ interrupt.probe
  /\ probe' = [phase |-> "poller", sleep |-> 0]
  /\ interrupt' = [interrupt EXCEPT !.poller = TRUE]
  /\ UNCHANGED <<main, proxy, control, poller, worker, failed>>

JoinPoller ==
  /\ probe.phase = "poller"
  /\ poller = "done"
  /\ probe' = [probe EXCEPT !.phase = "terminate"]
  /\ UNCHANGED <<interrupt, main, proxy, control, poller, worker, failed>>

(* TERMINATE is sent once for each thread, to all of them; the first copy  *)
(* ends a thread that hears it.                                            *)
SendTerminate ==
  /\ probe.phase = "terminate"
  /\ worker' = Published("TERMINATE")
  /\ probe' = [probe EXCEPT !.phase = "joining"]
  /\ UNCHANGED <<interrupt, main, proxy, control, poller, failed>>

(* Mutant of Joined: the first thread that ends is enough.                 *)
JoinedOne == \E t \in Threads : HasEnded(worker[t])

Joined == \A t \in Threads : HasEnded(worker[t])

JoinWorkers ==
  /\ probe.phase = "joining"
  /\ Joined
  /\ probe' = [probe EXCEPT !.phase = "done"]
  /\ UNCHANGED <<interrupt, main, proxy, control, poller, worker, failed>>

PollerEnds ==
  /\ poller = "running"
  /\ interrupt.poller
  /\ poller' = "done"
  /\ UNCHANGED <<interrupt, main, proxy, control, probe, worker, failed>>

PollerFails ==
  /\ poller = "running"
  /\ Fails("poller")
  /\ poller' = "done"
  /\ UNCHANGED <<interrupt, main, proxy, control, probe, worker>>

-----------------------------------------------------------------------------
(* Workers.                                                                *)

(* Both sockets are connected, TERMINATE and PROBE subscribed to.          *)
Connect(t) ==
  /\ worker[t].phase = "created"
  /\ worker' = [worker EXCEPT ![t].phase = "poll"]
  /\ UNCHANGED <<interrupt, main, proxy, control, probe, poller, failed>>

(* A request of a client; the DEALER socket deals them out in turn.        *)
Request(t) ==
  /\ proxy = "proxying"
  /\ Listening(worker[t])
  /\ worker[t].queue < MaxQueue
  /\ worker' = [worker EXCEPT ![t].queue = @ + 1]
  /\ UNCHANGED <<interrupt, main, proxy, control, probe, poller, failed>>

(* Mutants of Forsaken: one period without PROBE is enough, or none is.    *)
ForsakenEarly(w) == w.age > ProbePeriod
ForsakenNever(w) == FALSE

Forsaken(w) == w.age > 2 * ProbePeriod

(* The end of an iteration without a command.                              *)
AgeChecked(w) == [w EXCEPT !.phase = IF Forsaken(w) THEN "forsaken" ELSE "poll"]

(* The end of an iteration with a command.                                 *)
Obeyed(w) ==
  IF Head(w.commands) = "TERMINATE"
    THEN [w EXCEPT !.phase = "ended", !.commands = Tail(@)]
    ELSE [w EXCEPT !.phase = "poll", !.commands = Tail(@), !.age = 0]

(* poll() returns: a request goes first; whether there is a command is     *)
(* known from this poll() also after the request was processed.            *)
Poll(t) ==
  LET w == worker[t]
  IN  /\ w.phase = "poll"
      /\ worker' = [worker EXCEPT ![t] =
           IF w.queue > 0
             THEN [w EXCEPT !.phase = "busy", !.queue = @ - 1, !.busy = 0,
                            !.revent = w.commands # <<>>]
             ELSE IF w.commands # <<>> THEN Obeyed(w) ELSE AgeChecked(w)]
      /\ UNCHANGED <<interrupt, main, proxy, control, probe, poller, failed>>

(* The request is answered and the iteration goes on.                      *)
Reply(t) ==
  LET w == [worker[t] EXCEPT !.busy = 0, !.revent = FALSE]
  IN  /\ worker[t].phase = "busy"
      /\ worker' = [worker EXCEPT ![t] =
           IF worker[t].revent THEN Obeyed(w) ELSE AgeChecked(w)]
      /\ UNCHANGED <<interrupt, main, proxy, control, probe, poller, failed>>

(* An exception, of getConnection(), of a socket or of the database, ends  *)
(* the thread.  Nobody starts another one.                                 *)
WorkerFails(t) ==
  /\ worker[t].phase \in {"created", "poll", "busy"}
  /\ Fails("worker")
  /\ worker' = [worker EXCEPT ![t] =
       [@ EXCEPT !.phase = "ended", !.busy = 0, !.revent = FALSE]]
  /\ UNCHANGED <<interrupt, main, proxy, control, probe, poller>>

-----------------------------------------------------------------------------
(* How late a thread is: threads are started within a second, a worker     *)
(* takes what poll() can return within a second, a request takes MaxBusy   *)
(* seconds at most, and sleep() of the probe is late by Lateness at most.  *)
Prompt ==
  /\ proxy \notin {"pool", "probe"} /\ probe.phase # "start"
  /\ probe.phase = "loop" => probe.sleep > -Lateness
  /\ \A t \in Threads :
       /\ worker[t].phase = "poll" => worker[t].commands = <<>> /\ worker[t].queue = 0
       /\ worker[t].phase = "busy" => worker[t].busy < MaxBusy

Older(n) == IF n > 2 * ProbePeriod THEN n ELSE n + 1

Aged(w) ==
  [w EXCEPT !.age = IF Listening(w) THEN Older(@) ELSE @,
            !.busy = IF w.phase = "busy" THEN @ + 1 ELSE @]

Tick ==
  /\ Prompt
  /\ probe' = [probe EXCEPT !.sleep = IF probe.phase = "loop" THEN @ - 1 ELSE @]
  /\ worker' = [t \in Threads |-> Aged(worker[t])]
  /\ UNCHANGED <<interrupt, main, proxy, control, poller, failed>>

(* Somebody waits for the time to pass: Tick changes something.            *)
ClockRuns ==
  \/ probe.phase = "loop"
  \/ \E t \in Threads : Listening(worker[t]) /\ Aged(worker[t]) # worker[t]

MainStep ==
  Run \/ BindControl \/ Cleanup \/ JoinProxy \/ DeleteEnvironment \/ Abort \/ CloseContext

ProxyStep ==
  \/ SetUp
  \/ \E t \in Threads : StartWorker(t)
  \/ StartPoller \/ StartProbe \/ ProxyTerminated \/ JoinProbe \/ CloseProxy

ProbeStep ==
  \/ EnterProbe \/ SendProbe \/ LeaveProbeLoop \/ JoinPoller \/ SendTerminate \/ JoinWorkers

WorkerStep(t) == Connect(t) \/ Poll(t) \/ Reply(t)

Next ==
  \/ Signal \/ ControlHeard \/ Tick
  \/ MainStep \/ ProxyStep \/ ProbeStep \/ PollerEnds
  \/ MainFails \/ StartFails \/ ProxyFails \/ PollerFails
  \/ \E t \in Threads : WorkerStep(t) \/ Request(t) \/ WorkerFails(t)

Spec == Init /\ [][Next]_vars

(* Each thread runs when it can, a request is answered in the end, time    *)
(* passes (no second holds endlessly many steps) and subscriptions arrive. *)
(* No signal and no request has to come.                                   *)
LiveSpec ==
  /\ Spec
  /\ WF_vars(MainStep) /\ WF_vars(ProxyStep) /\ WF_vars(ProbeStep) /\ WF_vars(PollerEnds)
  /\ \A t \in Threads : WF_vars(WorkerStep(t))
  /\ (([]<>~ClockRuns) \/ ([]<><<Tick>>_vars))
  /\ WF_vars(ControlHeard)

-----------------------------------------------------------------------------
(* Properties.                                                             *)

(* A thread that does not listen to its sockets is sent nothing; revent    *)
(* and busy belong to a request in hand, whose command is still there.     *)
TypeOK ==
  /\ interrupt \in [worker: BOOLEAN, probe: BOOLEAN, poller: BOOLEAN]
  /\ main \in Main
  /\ proxy \in Proxy
  /\ control \in [heard: BOOLEAN, terminate: BOOLEAN]
  /\ probe \in Probe
  /\ poller \in Poller
  /\ worker \in [Threads -> Worker]
  /\ failed \in Seq(MayFail)
  /\ \A t \in Threads :
       /\ worker[t].phase \in {"none", "created"} =>
            worker[t].commands = <<>> /\ worker[t].queue = 0
       /\ worker[t].revent => worker[t].phase = "busy" /\ worker[t].commands # <<>>

(* An exception after which nobody joins some of the threads.              *)
Orphaned == \E i \in DOMAIN failed : failed[i] \in {"main", "pool", "probe"}

(* No thread is left that uses the environment when ~Digger() deletes it,  *)
(* whatever worker, poller or proxy threw and whenever the signal came:    *)
(* main has joined the proxy, which joined the probe, which joined the     *)
(* poller and the workers.                                                 *)
EnvironmentOutlivesThreads ==
  main.phase \in {"deleted", "gone"} /\ ~Orphaned =>
    /\ proxy = "done"
    /\ probe.phase \in {"none", "done"}
    /\ poller # "running"
    /\ \A t \in Threads : HasEnded(worker[t])

(* "If the main thread has crashed, end by yourself" (wdigger.cpp): a      *)
(* worker takes itself for forsaken only when the probe has been stopped,  *)
(* never because PROBE waits behind requests or comes late.                *)
PoolStaysWhole ==
  \A t \in Threads : worker[t].phase = "forsaken" => interrupt.probe \/ Orphaned

(* A process whose proxy listens ends after a signal: TERMINATE, the flags *)
(* and PROBE's absence reach every thread, in whatever phase each is.      *)
EndsWhenTold ==
  (main.phase = "loop" /\ control.heard /\ interrupt.worker)
    ~> (main.phase = "gone" \/ Orphaned)

(* When the proxy ends by itself, on an error, the whole process does, and *)
(* main, which waits for the broker, is told.                              *)
EndsTogether ==
  (proxy \in {"joining", "closing"}) ~> (main.phase = "gone" \/ Orphaned)

(* The other half of "end by yourself": a worker ends also when the probe  *)
(* has gone, or was never started, and nobody sends it TERMINATE.          *)
OrphansEnd ==
  \A t \in Threads :
    (worker[t].phase \in {"created", "poll", "busy"} /\ probe.phase \in {"done", "leaked"})
      ~> HasEnded(worker[t])

=============================================================================
