-------------------------- MODULE SingleBusExecutor --------------------------
(***************************************************************************)
(* SingleBusExecutor over one EthercatBus: a main thread that brings the   *)
(* bus up, spins the executor, stops it and may destroy the bus; the RT    *)
(* and the service thread the executor starts; and client threads that     *)
(* talk to devices while all of that goes on.                              *)
(***************************************************************************)
EXTENDS BusLifecycle

CONSTANTS
    Main, Rt, Service,  \* the threads of the executor
    ClientCalls         \* entry labels of the calls the clients make

ASSUME ThreadsAssumption ==
    /\ {Main, Rt, Service} \subseteq Threads
    /\ Main # Rt /\ Main # Service /\ Rt # Service
ASSUME ClientCallsAssumption ==
    ClientCalls \subseteq {"mbx.lock", "od.check", "reg.check", "state.set"}

Workers == {Rt, Service}
Clients == Threads \ {Main, Rt, Service}

VARIABLES
    spinning,   \* spinning_
    stopAsked,  \* workers whose stop token has been triggered
    running,    \* workers whose thread function has not returned
    failed      \* workers that ended with an exception (rt_/service_error_ocurred_)

execVars == <<spinning, stopAsked, running, failed>>
allVars == <<vars, execVars>>

ExecutorLabels == {"stop.joinRt", "stop.joinService"}

Init ==
    /\ BusInit
    /\ spinning = FALSE
    /\ stopAsked = {}
    /\ running = {}
    /\ failed = {}

-----------------------------------------------------------------------------
(* The main thread.                                                        *)

\* The lifecycle calls, made only while the executor does not spin, and the
\* destruction of the bus, made only when nobody uses it any more.
MainCalls ==
    /\ ~spinning
    /\ \/ CallInitialize(Main) \/ CallStartup(Main) \/ CallActivate(Main)
       \/ CallShutdown(Main)
       \/ (\A t \in Clients : pc[t] = "idle") /\ CallDestroy(Main)
    /\ UNCHANGED execVars

MainReturns ==
    /\ pc[Main] \in {"ok", "error"}
    /\ Goto(Main, "idle")
    /\ UNCHANGED <<todo, after, busVars, lockVars, slaveVars, execVars>>

MainSteps ==
    /\ LifecycleStep(Main) \/ ShutdownStep(Main)
    /\ UNCHANGED execVars

\* spin() starts both threads, whatever state the bus is in.
Spin ==
    /\ At(Main, "idle")
    /\ ~spinning
    /\ spinning' = TRUE
    /\ running' = Workers
    /\ stopAsked' = {}
    /\ UNCHANGED <<failed, vars>>

\* stop(): ask and join the RT thread, then the service thread, then shut down.
\* Mutant: no request_stop() before the join.
StopAsksNobody ==
    /\ At(Main, "idle")
    /\ spinning
    /\ Goto(Main, "stop.joinRt")
    /\ UNCHANGED <<execVars, todo, after, busVars, lockVars, slaveVars>>

StopBegins ==
    /\ At(Main, "idle")
    /\ spinning
    /\ stopAsked' = stopAsked \cup {Rt}
    /\ Goto(Main, "stop.joinRt")
    /\ UNCHANGED <<spinning, running, failed, todo, after, busVars, lockVars, slaveVars>>

\* Mutant: the RT thread is not joined.
StopSkipsRt ==
    /\ At(Main, "stop.joinRt")
    /\ stopAsked' = stopAsked \cup {Service}
    /\ Goto(Main, "stop.joinService")
    /\ UNCHANGED <<spinning, running, failed, todo, after, busVars, lockVars, slaveVars>>

StopJoinsRt ==
    /\ At(Main, "stop.joinRt")
    /\ Rt \notin running
    /\ stopAsked' = stopAsked \cup {Service}
    /\ Goto(Main, "stop.joinService")
    /\ UNCHANGED <<spinning, running, failed, todo, after, busVars, lockVars, slaveVars>>

\* Mutant: the service thread is not joined.
StopSkipsService ==
    /\ At(Main, "stop.joinService")
    /\ spinning' = FALSE
    /\ Goto(Main, "shutdown.entry")
    /\ UNCHANGED <<stopAsked, running, failed, todo, after, busVars, lockVars, slaveVars>>

StopJoinsService ==
    /\ At(Main, "stop.joinService")
    /\ Service \notin running
    /\ spinning' = FALSE
    /\ Goto(Main, "shutdown.entry")
    /\ UNCHANGED <<stopAsked, running, failed, todo, after, busVars, lockVars, slaveVars>>

-----------------------------------------------------------------------------
(* The worker threads.                                                     *)

Entry(w) == IF w = Rt THEN "rt.check" ELSE "sv.check"

\* The head of the loop: run one update, or leave because of the stop token.
WorkerBegins(w) ==
    /\ At(w, "idle")
    /\ w \in running \ stopAsked
    /\ Goto(w, Entry(w))
    /\ UNCHANGED <<todo, after, busVars, lockVars, slaveVars, execVars>>

WorkerStops(w) ==
    /\ At(w, "idle")
    /\ w \in running \cap stopAsked
    /\ running' = running \ {w}
    /\ UNCHANGED <<vars, spinning, stopAsked, failed>>

WorkerSteps(w) ==
    /\ IF w = Rt THEN RtStep(w) ELSE ServiceStep(w) \/ ShutdownStep(w)
    /\ UNCHANGED execVars

\* The update returned: sleep until the next tick.
WorkerSleeps(w) ==
    /\ At(w, "ok")
    /\ Goto(w, "idle")
    /\ UNCHANGED <<todo, after, busVars, lockVars, slaveVars, execVars>>

\* The bus needs no service thread, or the update threw: the thread ends.
WorkerEnds(w) ==
    /\ pc[w] \in {"stop", "error"}
    /\ Goto(w, "idle")
    /\ running' = running \ {w}
    /\ failed' = IF At(w, "error") THEN failed \cup {w} ELSE failed
    /\ UNCHANGED <<todo, after, busVars, lockVars, slaveVars, spinning, stopAsked>>

Worker(w) ==
    WorkerBegins(w) \/ WorkerStops(w) \/ WorkerSteps(w) \/ WorkerSleeps(w) \/ WorkerEnds(w)

-----------------------------------------------------------------------------
(* The clients; their device pointers are gone once the bus is destroyed.  *)

ClientCallsBus(t) ==
    /\ after[Main] # "destroy"
    /\ pc[Main] # "destroyed"
    /\ \E label \in ClientCalls : Call(t, label)
    /\ UNCHANGED execVars

ClientSteps(t) ==
    /\ ClientStep(t)
    /\ UNCHANGED execVars

ClientReturns(t) ==
    /\ pc[t] \in {"ok", "error"}
    /\ Goto(t, "idle")
    /\ UNCHANGED <<todo, after, busVars, lockVars, slaveVars, execVars>>

Client(t) == ClientCallsBus(t) \/ ClientSteps(t) \/ ClientReturns(t)

-----------------------------------------------------------------------------
\* The bus is destroyed and every thread is done: nothing is left to do.
Terminated ==
    /\ pc[Main] = "destroyed"
    /\ \A t \in Threads \ {Main} : pc[t] = "idle"
    /\ UNCHANGED allVars

Next ==
    \/ MainCalls \/ MainReturns \/ MainSteps
    \/ Spin \/ StopBegins \/ StopJoinsRt \/ StopJoinsService
    \/ \E w \in Workers : Worker(w)
    \/ \E t \in Clients : Client(t)
    \/ Environment /\ UNCHANGED execVars
    \/ Terminated

Spec == Init /\ [][Next]_allVars

\* Every thread is scheduled, a thread that waits for a mutex gets it, time
\* passes.  Nothing makes the main thread stop, a client call, or a slave move.
Fairness ==
    /\ WF_allVars(MainReturns) /\ SF_allVars(MainSteps)
    /\ WF_allVars(StopJoinsRt) /\ WF_allVars(StopJoinsService)
    /\ \A w \in Workers : SF_allVars(Worker(w))
    /\ \A t \in Clients : WF_allVars(ClientSteps(t)) /\ WF_allVars(ClientReturns(t))
    /\ WF_allVars(ActivationTimeElapses /\ UNCHANGED execVars)

FairSpec == Spec /\ Fairness

-----------------------------------------------------------------------------
\* Types: the bus variables, the executor's flags, and each thread at a label
\* of its own operations.
TypeOK ==
    /\ BusTypeOK(BusLabels \cup ExecutorLabels)
    /\ spinning \in BOOLEAN
    /\ stopAsked \subseteq Workers /\ running \subseteq Workers /\ failed \subseteq Workers

-----------------------------------------------------------------------------
(* Safety.                                                                 *)

\* An SDO or FoE transfer of any thread finds the port open, whoever shuts the
\* bus down meanwhile: the state check and the transfer are under the mutex that
\* shutdown() holds while it closes the port.
MailboxIoOnOpenPort == PortOpenAt({"mbx.transfer"})

\* The bring-up, the shutdown (with the pre-shutdown hooks that still talk to
\* their devices) and the service updates only use the wire while the port is
\* open.  None of them holds a mutex across its steps: it is stop() joining the
\* workers before it shuts down that protects them from each other.
BusIoOnOpenPort ==
    PortOpenAt(InitLabels \cup StartupLabels \cup ActivateLabels
               \cup {"shutdown.pre", "shutdown.set", "shutdown.wait", "shutdown.close"}
               \cup (ServiceLabels \ {"sv.check"}))

\* initialize(), startup(), activate() and shutdown() are "not thread safe": the
\* executor never has two threads inside them at once, nor one inside them
\* beside a service update.
LifecycleIsExclusive ==
    \A t, u \in Threads :
        /\ pc[t] \in InitLabels \cup StartupLabels \cup ActivateLabels \cup ShutdownLabels
        /\ pc[u] \in InitLabels \cup StartupLabels \cup ActivateLabels \cup ShutdownLabels
                     \cup ServiceLabels
        => t = u

\* update_rt() works on a live bus: every device its loops still have to visit is
\* owned by the bus, and the frame goes out on an open port.  It holds when only
\* stop() shuts the bus down, after it joined the RT thread.
RtUsesLiveBus ==
    /\ PortOpenAt(RtLabels \ {"rt.check"})
    /\ pc[Rt] \in DeviceLoops => todo[Rt] \subseteq devices

\* The activation timeout is the only reason why update_rt() may not: until it has expired,
\* no lifecycle call of the main thread and no failure comes under the RT thread.
TimedOut == TimeoutEnabled /\ activationStart = "expired"
RtUsesLiveBusUntilTimeout == TimedOut \/ RtUsesLiveBus

\* The bus becomes Operational only when every device it manages has been
\* OPERATIONAL: the check in update_service() is made on states the slaves have
\* reported, never on the states the master has requested.
OperationalIsConfirmed == busState = "Operational" => devices \subseteq reached

\* Whom a thread waits for: the owner of a mutex it needs, or a worker stop() joins.
AwaitedBy(t) ==
    LockOwnersAwaitedBy(t)
    \cup {w \in running : pc[t] = IF w = Rt THEN "stop.joinRt" ELSE "stop.joinService"}

\* No circle of threads waits for each other: nobody waits for the main thread, and only
\* the main thread, in stop(), waits for one that waits itself.
NobodyWaitsInACircle ==
    \A t \in Threads : \A u \in AwaitedBy(t) : u # Main /\ (t = Main \/ AwaitedBy(u) = {})

\* The bus and its executor implement the contract of BusContract.
ImplementsContract == Contract!ContractSpec

-----------------------------------------------------------------------------
(* Liveness, under FairSpec.                                               *)

\* stop() returns, or throws what shutdown() threw: both joins and the locks of
\* the shutdown are always obtained.
StopTerminates == pc[Main] = "stop.joinRt" ~> pc[Main] \in {"ok", "error"}

\* With the timeout enabled a bus does not hang in Activated while its service
\* thread runs: it becomes Operational or is shut down.
ActivationResolves ==
    busState = "Activated" /\ Service \in running
        ~> busState # "Activated" \/ Service \notin running

\* The service thread's failure reaches the RT thread through the bus state.
ServiceFailureStopsRt == Service \in failed /\ Rt \in running ~> Rt \notin running

\* A shutdown that has begun ends in Shutdown, unless the bus object is gone.
ShutdownCompletes ==
    busState = "ShuttingDown" ~> busState = "Shutdown" \/ pc[Main] = "destroyed"

-----------------------------------------------------------------------------
(* What the documentation says and the code does not keep.                 *)

\* "Only perform operations on an initialized bus": every transfer a client makes, of
\* registers, of SDOs and files, or of the object dictionary, finds the port open.
DeviceIoOnOpenPort == PortOpenAt({"reg.io", "od.transfer", "mbx.transfer"})

\* The destructor's shutdown ends in Shutdown, pre-shutdown hooks that use the
\* bus included.
DestroyedBusIsShutdown == pc[Main] = "destroyed" => busState = "Shutdown"

-----------------------------------------------------------------------------
(* The inductive invariant behind the safety properties.                   *)

\* Every thread stays in the operations of its role; only the main thread destroys.
RolesOK ==
    /\ pc[Main] \in {"idle", "ok", "error", "destroyed"} \cup InitLabels \cup StartupLabels
                    \cup ActivateLabels \cup ShutdownLabels \cup ExecutorLabels
    /\ pc[Rt] \in {"idle", "ok", "error"} \cup RtLabels
    /\ pc[Service] \in {"idle"} \cup Results \cup ServiceLabels \cup ShutdownLabels
    /\ after[Service] # "destroy"
    /\ \A t \in Clients :
         pc[t] \in {"idle", "ok", "error"} \cup MailboxLabels \cup OdLabels
                   \cup RegisterLabels \cup StateLabels

\* A mutex is owned exactly by the thread inside a section of it.
LocksOK ==
    \A t \in Threads :
        /\ pdoHolder = t <=> pc[t] \in PdoSections
        /\ mailboxHolder = t <=> pc[t] \in MailboxSections

\* Workers run only while the executor spins, and the main thread is then idle
\* or joining them; a worker that does not run is in no call.
ThreadsOK ==
    /\ spinning => pc[Main] \in {"idle"} \cup ExecutorLabels
    /\ pc[Main] \in ExecutorLabels => spinning
    /\ ~spinning => running = {}
    /\ \A w \in Workers \ running : pc[w] = "idle"
    /\ pc[Main] = "stop.joinService" => Rt \notin running

\* What the bus state is while a thread that drives the lifecycle is at a label.
StateAtLabel ==
    \A t \in {Main, Service} :
        /\ pc[t] = "init.config" => busState = "PreInit" /\ port = "open"
        /\ pc[t] \in {"init.devices", "startup.hooks", "startup.config", "shutdown.init"}
             => busState = "Initialized"
        /\ pc[t] \in {"startup.pdo", "activate.pre", "activate.set", "activate.wait"}
             => busState = "Configured"
        /\ pc[t] = "activate.post" => busState = "Activated"
        /\ pc[t] \in {"sv.set", "sv.read", "sv.verify", "sv.promote"} => busState = "Activated"
        /\ pc[t] \in {"sv.decide", "sv.diag", "sv.ports"}
             => busState \notin {"PreInit", "ShuttingDown", "Shutdown"}
        /\ pc[t] \in {"shutdown.pre", "shutdown.set", "shutdown.wait", "shutdown.close"}
             => busState = "ShuttingDown"

\* The port is open in every state between PreInit and Shutdown, and a mailbox
\* transfer under way has found such a state.
PortOK ==
    /\ busState \notin {"PreInit", "Shutdown"} => port = "open"
    /\ \A t \in Threads : pc[t] = "mbx.transfer" => busState \notin {"PreInit", "Shutdown"}

\* Mutex ownership, the roles of the threads, the liveness of the workers, the
\* bus state at every label and the port agree with each other at every moment.
IInv == TypeOK /\ RolesOK /\ LocksOK /\ ThreadsOK /\ StateAtLabel /\ PortOK

\* Before the timeout only stop() shuts the bus down, so that the RT thread finds
\* the bus up and its devices in place throughout an update.
RtInv ==
    /\ pc[Service] \notin ShutdownLabels
    /\ pc[Rt] \in RtLabels \ {"rt.check"} => busState \in {"Activated", "Operational"}
    /\ pc[Rt] \in DeviceLoops => todo[Rt] \subseteq devices

\* Without change_device_state() calls of clients, the states the service thread
\* verifies are states the slaves have reported.
ConfirmInv ==
    /\ \A d \in Devices : slaveState[d] = "OP" => d \in reached
    /\ \A t \in Clients : pc[t] \notin StateLabels
    /\ pc[Service] = "sv.verify" =>
         /\ todo[Service] \subseteq devices
         /\ devices \ todo[Service] \subseteq reached
         /\ \A d \in devices : cached[d] = "OP" => d \in reached
    /\ pc[Service] = "sv.promote" => devices \subseteq reached
    /\ busState = "Operational" => devices \subseteq reached
    /\ devices \subseteq onBus
    /\ busState = "PreInit" => devices = {}
=============================================================================
