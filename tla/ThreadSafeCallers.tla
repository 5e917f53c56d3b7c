-------------------------- MODULE ThreadSafeCallers --------------------------
(***************************************************************************)
(* The bus without the executor: one thread brings the bus up, any number  *)
(* of threads call update_rt() and update_service() on it, which the       *)
(* thread-safety table of EthercatBus allows ("thread safe") and the demo  *)
(* shows as the alternative to the executor.                               *)
(***************************************************************************)
EXTENDS BusLifecycle

CONSTANTS
    Main,            \* brings the bus up
    RtCallers,       \* threads that call update_rt()
    ServiceCallers   \* threads that call update_service()

ASSUME CallersAssumption ==
    /\ Main \in Threads /\ Main \notin RtCallers \cup ServiceCallers
    /\ RtCallers \cap ServiceCallers = {}
    /\ Threads = {Main} \cup RtCallers \cup ServiceCallers

\* initialize(), startup() and activate(); the bus is shut down by failures only.
MainStep ==
    \/ CallInitialize(Main) \/ CallStartup(Main) \/ CallActivate(Main)
    \/ LifecycleStep(Main) \/ ShutdownStep(Main)

\* An update is called once the bus is activated; a caller may go on with the next
\* one whatever the last returned, and may stop calling at any time.
CallerStep(t, entry) ==
    \/ /\ busState \notin {"PreInit", "Initialized", "Configured"}
       /\ Call(t, entry)
    \/ RtStep(t) \/ ServiceStep(t)
    \/ entry = "sv.check" /\ ShutdownStep(t)

Returns(t) ==
    /\ pc[t] \in Results
    /\ Goto(t, "idle")
    /\ UNCHANGED <<todo, after, busVars, lockVars, slaveVars>>

Next ==
    \/ MainStep
    \/ \E t \in RtCallers : CallerStep(t, "rt.check")
    \/ \E t \in ServiceCallers : CallerStep(t, "sv.check")
    \/ \E t \in Threads : Returns(t)
    \/ Environment

Spec == BusInit /\ [][Next]_vars

-----------------------------------------------------------------------------
\* Any number of threads may call update_rt(): frames are exchanged one at a
\* time, so that a caller never receives the answer to the frame of another.
OneFrameAtATime ==
    \A t, u \in RtCallers :
        pc[t] = "rt.exchange" /\ pc[u] = "rt.exchange" => t = u

\* The bus becomes Operational only when all of its devices have been OPERATIONAL.
OperationalIsConfirmed == busState = "Operational" => devices \subseteq reached

\* The bus keeps what BusContract promises also when it is driven without the executor.
ImplementsContract == Contract!ContractSpec

\* The bring-up, a shutdown and update_service() use the wire on an open port only, although
\* the activation timeout shuts the bus down while other callers go on.  (The hooks after
\* an activate() may already run on the closed port.)
BusIoOnOpenPort ==
    PortOpenAt(InitLabels \cup StartupLabels \cup (ActivateLabels \ {"activate.post"})
               \cup {"shutdown.pre", "shutdown.set", "shutdown.wait", "shutdown.close"}
               \cup (ServiceLabels \ {"sv.check"}))

-----------------------------------------------------------------------------
(* The inductive invariant behind the properties.                          *)

\* Types.
TypeOK == BusTypeOK(BusLabels)

RolesOK ==
    /\ pc[Main] \in {"idle"} \cup Results \cup InitLabels \cup StartupLabels
                    \cup ActivateLabels \cup ShutdownLabels
    /\ \A t \in RtCallers : pc[t] \in {"idle"} \cup Results \cup RtLabels
    /\ \A t \in ServiceCallers :
         pc[t] \in {"idle"} \cup Results \cup ServiceLabels \cup ShutdownLabels
    /\ \A t \in Threads : after[t] # "destroy"

\* A frame is under way exactly while its thread owns pdo_update_mutex_.
FrameOK == \A t \in Threads : pdoHolder = t <=> pc[t] \in PdoSections

EarlyStates == {"PreInit", "Initialized", "Configured"}

\* Where the main thread may change what the service callers rely on.
BringsUpOrDown ==
    pc[Main] \in InitLabels \cup StartupLabels \cup (ActivateLabels \ {"activate.post"})
                \cup ShutdownLabels

\* No update_service() has begun before the bus is Activated, and when the bring-up
\* fails, none gets beyond its check of the bus state.
BringUpIsAlone ==
    /\ busState \in EarlyStates => \A s \in ServiceCallers : pc[s] = "idle"
    /\ BringsUpOrDown =>
         /\ busState \in EarlyStates \cup {"ShuttingDown", "Shutdown"}
         /\ \A s \in ServiceCallers : pc[s] \in {"idle", "sv.check", "error"}
    /\ pc[Main] = "init.config" => busState = "PreInit"
    /\ pc[Main] \in {"init.devices", "startup.hooks", "startup.config"} =>
         busState = "Initialized"
    /\ pc[Main] \in {"startup.pdo", "activate.pre", "activate.set", "activate.wait"} =>
         busState = "Configured"

\* What a service caller verifies are states the slaves have reported.
ConfirmOK ==
    /\ \A d \in Devices : slaveState[d] = "OP" => d \in reached
    /\ \A s \in ServiceCallers :
         /\ pc[s] = "sv.verify" =>
              /\ devices \ todo[s] \subseteq reached
              /\ \A d \in devices : cached[d] = "OP" => d \in reached
         /\ pc[s] = "sv.promote" => devices \subseteq reached
    /\ busState = "Operational" => devices \subseteq reached
    /\ devices \subseteq onBus
    /\ busState = "PreInit" => devices = {}

\* Where a thread relies on the bus state it has found.
StateAtLabel ==
    \A t \in {Main} \cup ServiceCallers :
        /\ pc[t] \in {"sv.decide", "sv.diag", "sv.ports"} => busState \in {"Activated", "Operational"}
        /\ pc[t] \in {"sv.set", "sv.read", "sv.verify", "sv.promote"} => busState = "Activated"
        /\ pc[t] = "shutdown.init" => busState = "Initialized"
        /\ pc[t] \in {"shutdown.pre", "shutdown.set", "shutdown.wait", "shutdown.close"} =>
             busState = "ShuttingDown"

\* The port is open in every state between PreInit and Shutdown.
PortOK ==
    /\ pc[Main] = "init.config" => port = "open"
    /\ busState \notin {"PreInit", "Shutdown"} => port = "open"

\* The roles of the threads, the owner of the frame, the order of bring-up and service
\* updates, what is known of the slaves, the bus state at every label and the port agree
\* with each other at every moment.
IInv ==
    /\ TypeOK /\ RolesOK /\ FrameOK /\ BringUpIsAlone /\ ConfirmOK
    /\ StateAtLabel /\ PortOK
=============================================================================
