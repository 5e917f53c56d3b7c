---------------------------- MODULE BusLifecycle ----------------------------
(***************************************************************************)
(* One EthercatBus object (BackendImpl) driven by any number of threads.   *)
(* Every operation is a chain of steps of the thread that called it; the   *)
(* thread is at pc[t], "idle" between calls, and a call ends at "ok",      *)
(* "stop" (update_service returned false) or "error" (it threw).  A step   *)
(* is what the code does between two points at which another thread can    *)
(* interfere: a look at the atomic state_, a store to it, a section under  *)
(* a mutex, one iteration over devices_, one bus transfer.  Where a        *)
(* condition loads state_ several times in a row, the look is one step;    *)
(* so is the section under all mutexes in which shutdown() closes the port *)
(* and stores Shutdown, one after the other.                               *)
(*                                                                         *)
(* The slaves are part of the environment: they follow state requests in   *)
(* their own time, or drop out of OPERATIONAL, or do not answer a frame.   *)
(***************************************************************************)
EXTENDS FiniteSets

CONSTANTS
    Devices,            \* slaves that may be on the wire
    Threads,            \* threads that may call into the bus
    NoThread,           \* the owner of a free mutex
    TimeoutEnabled,     \* timeout_transition_operational > 0
    HooksMayThrow,      \* a user hook may throw
    HooksCommunicate,   \* the pre-shutdown hooks perform SDO transfers
    EscDiagnostics,     \* diagnostics.esc_diagnostics is enabled
    PortDiagnostics,    \* diagnostics.esc_port_diagnostics is enabled
    MailboxDiagnostics  \* diagnostics.mailbox_diagnostics is enabled

ASSUME DevicesAssumption == IsFiniteSet(Devices) /\ Devices # {}
ASSUME NoThreadAssumption == NoThread \notin Threads
ASSUME OptionsAssumption ==
    /\ TimeoutEnabled \in BOOLEAN
    /\ HooksMayThrow \in BOOLEAN
    /\ HooksCommunicate \in BOOLEAN
    /\ EscDiagnostics \in BOOLEAN
    /\ PortDiagnostics \in BOOLEAN
    /\ MailboxDiagnostics \in BOOLEAN

VARIABLES
    busState,         \* BackendImpl::state_
    port,             \* the network interface of the SOEM context
    onBus,            \* slaves the last ecx_config_init() found
    devices,          \* devices_, the devices the bus manages
    attached,         \* devices whose bus_ pointer is set
    activationStart,  \* activation_start_tp_: unset, running, or too long ago
    pdoHolder,        \* owner of pdo_update_mutex_
    mailboxHolder,    \* owner of mailbox_mutex_
    slaveState,       \* the state a slave is really in
    requested,        \* the state last requested from a slave
    cached,           \* slavelist[d].state, what get_device_state() returns
    reached,          \* history: slaves that have been OPERATIONAL at some time
    pc,               \* the next step of each thread
    todo,             \* devices the current loop of a thread still has to visit
    after             \* what a thread does when the shutdown it runs is over

busVars == <<busState, port, onBus, devices, attached, activationStart>>
lockVars == <<pdoHolder, mailboxHolder>>
slaveVars == <<slaveState, requested, cached, reached>>
callVars == <<pc, todo, after>>
vars == <<busVars, lockVars, slaveVars, callVars>>

Contract == INSTANCE BusContract WITH busState <- busState, port <- port

SlaveStates == {"PRE_OP", "SAFE_OP", "OP"}

-----------------------------------------------------------------------------
(* Labels, by the operation they belong to.                                *)

Results == {"ok", "stop", "error"}
InitLabels == {"init.config", "init.devices"}
StartupLabels == {"startup.hooks", "startup.config", "startup.pdo"}
ActivateLabels == {"activate.pre", "activate.set", "activate.wait", "activate.post"}
ShutdownLabels == {"shutdown.entry", "shutdown.init", "shutdown.pre", "shutdown.set",
                   "shutdown.wait", "shutdown.close", "shutdown.post"}
RtLabels == {"rt.check", "rt.write", "rt.exchange", "rt.read"}
ServiceLabels == {"sv.check", "sv.decide", "sv.set", "sv.read", "sv.verify",
                  "sv.promote", "sv.diag", "sv.ports"}
MailboxLabels == {"mbx.lock", "mbx.check", "mbx.transfer"}
OdLabels == {"od.check", "od.lock", "od.transfer"}
RegisterLabels == {"reg.check", "reg.io"}
StateLabels == {"state.set", "state.wait"}

BusLabels == Results \cup InitLabels \cup StartupLabels \cup ActivateLabels
             \cup ShutdownLabels \cup RtLabels \cup ServiceLabels \cup MailboxLabels
             \cup OdLabels \cup RegisterLabels \cup StateLabels
             \cup {"idle", "destroyed"}

\* Where a thread owns mailbox_mutex_, and where it owns pdo_update_mutex_.
MailboxSections == {"mbx.check", "mbx.transfer", "od.transfer"}
PdoSections == {"rt.exchange"}

\* Where a thread iterates over devices_.
DeviceLoops == {"startup.hooks", "startup.pdo", "activate.pre", "activate.set",
                "activate.wait", "activate.post", "shutdown.pre", "shutdown.post",
                "rt.write", "rt.read", "sv.set", "sv.verify"}

-----------------------------------------------------------------------------
BusInit ==
    /\ busState = "PreInit"
    /\ port = "closed"
    /\ onBus = {}
    /\ devices = {}
    /\ attached = {}
    /\ activationStart = "unset"
    /\ pdoHolder = NoThread
    /\ mailboxHolder = NoThread
    /\ slaveState = [d \in Devices |-> "PRE_OP"]
    /\ requested = [d \in Devices |-> "PRE_OP"]
    /\ cached = [d \in Devices |-> "PRE_OP"]
    /\ reached = {}
    /\ pc = [t \in Threads |-> "idle"]
    /\ todo = [t \in Threads |-> {}]
    /\ after = [t \in Threads |-> "return"]

-----------------------------------------------------------------------------
(* Control flow shared by all operations.                                  *)

At(t, label) == pc[t] = label

Goto(t, label) == pc' = [pc EXCEPT ![t] = label]

Return(t, result) ==
    /\ Goto(t, result)
    /\ todo' = [todo EXCEPT ![t] = {}]
    /\ UNCHANGED after

\* Continue with a loop over devices_ at label.
LoopOverDevices(t, label) ==
    /\ Goto(t, label)
    /\ todo' = [todo EXCEPT ![t] = devices]
    /\ UNCHANGED after

Visit(t, d) ==
    /\ d \in todo[t]
    /\ todo' = [todo EXCEPT ![t] = @ \ {d}]
    /\ UNCHANGED <<pc, after>>

LoopDone(t, label) == At(t, label) /\ todo[t] = {}

\* Mutant: update_service() does not throw after the shutdown of the activation timeout.
LeaveShutdownAndGoOn(t, result) ==
    /\ Goto(t, IF after[t] = "destroy" THEN "destroyed"
               ELSE IF after[t] # "throw" THEN result
               ELSE IF activationStart = "expired" THEN "sv.set" ELSE "error")
    /\ todo' = [todo EXCEPT ![t] = {}]
    /\ after' = [after EXCEPT ![t] = "return"]

\* A shutdown that is over, by returning or by throwing: back in shutdown()'s
\* caller, the rethrow after a failed bring-up, or the destructor, which
\* swallows exceptions.
LeaveShutdown(t, result) ==
    /\ Goto(t, IF after[t] = "destroy" THEN "destroyed"
               ELSE IF after[t] = "throw" THEN "error" ELSE result)
    /\ todo' = [todo EXCEPT ![t] = {}]
    /\ after' = [after EXCEPT ![t] = "return"]

\* A failed bring-up step calls shutdown() and throws afterwards.
ShutdownAndThrow(t) ==
    /\ Goto(t, "shutdown.entry")
    /\ todo' = [todo EXCEPT ![t] = {}]
    /\ after' = [after EXCEPT ![t] = "throw"]

\* A hook of the next device returns.
HookReturns(t, label) ==
    /\ At(t, label)
    /\ \E d \in todo[t] : Visit(t, d)
    /\ UNCHANGED <<busVars, lockVars, slaveVars>>

\* A hook throws: the operation unwinds and leaves the bus as it is.
HookThrows(t, label) ==
    /\ At(t, label)
    /\ HooksMayThrow
    /\ todo[t] # {}
    /\ Return(t, "error")
    /\ UNCHANGED <<busVars, lockVars, slaveVars>>

Hook(t, label) == HookReturns(t, label) \/ HookThrows(t, label)

-----------------------------------------------------------------------------
(* The mutexes.  state_mutex_ is never held from one step to the next.     *)

UnlockedPdo == TRUE  \* mutant: the exchange without pdo_update_mutex_
PdoMutexFree == pdoHolder = NoThread

MailboxMutexFree == mailboxHolder = NoThread

\* std::scoped_lock over all three mutexes.
LocksOnlyPdo == PdoMutexFree  \* mutant: mailbox_mutex_ forgotten in the scoped_lock
LocksOnlyMailbox == MailboxMutexFree  \* mutant: pdo_update_mutex_ forgotten in it
AllMutexesFree == PdoMutexFree /\ MailboxMutexFree

-----------------------------------------------------------------------------
(* State requests and state reads on the slaves; the code does each under  *)
(* state_mutex_, which is never held across two of these steps.            *)

\* ecx_writestate(): the cache takes the new state in any case, the slave only
\* if it answers.
RequestState(d, s, answers) ==
    /\ cached' = [cached EXCEPT ![d] = s]
    /\ requested' = IF answers THEN [requested EXCEPT ![d] = s] ELSE requested
    /\ UNCHANGED <<slaveState, reached>>

\* ecx_statecheck(): the cache takes the state of one slave, if it answers.
CheckState(d) ==
    /\ \E s \in {slaveState[d], "NONE"} : cached' = [cached EXCEPT ![d] = s]
    /\ UNCHANGED <<slaveState, requested, reached>>

\* ecx_readstate(): the cache takes the state of every slave that answers.
ReadStates ==
    /\ \E answering \in SUBSET onBus :
         cached' = [d \in Devices |->
                      IF d \in answering THEN slaveState[d]
                      ELSE IF d \in onBus THEN "NONE" ELSE cached[d]]
    /\ UNCHANGED <<slaveState, requested, reached>>

-----------------------------------------------------------------------------
(* initialize() and the destructor.                                        *)

CallInitialize(t) ==
    /\ At(t, "idle")
    /\ \/ /\ busState = "PreInit"            \* ecx_init() opened the interface
          /\ port' = "open"
          /\ Goto(t, "init.config")
       \/ /\ Goto(t, "error")                \* wrong state, or ecx_init() failed
          /\ UNCHANGED port
    /\ UNCHANGED <<busState, onBus, devices, attached, activationStart, todo, after,
                   lockVars, slaveVars>>

\* ecx_config_init(): finds slaves and brings them to PRE_OP, or finds none.
InitConfig(t) ==
    /\ At(t, "init.config")
    /\ \/ /\ onBus' \in (SUBSET Devices) \ {{}}
          /\ busState' = "Initialized"
          /\ Goto(t, "init.devices")
       \/ /\ Goto(t, "error")
          /\ UNCHANGED <<onBus, busState>>
    /\ UNCHANGED <<port, devices, attached, activationStart, todo, after,
                   lockVars, slaveVars>>

InitDevices(t) ==
    /\ At(t, "init.devices")
    /\ devices' = onBus
    /\ attached' = onBus
    /\ Return(t, "ok")
    /\ UNCHANGED <<busState, port, onBus, activationStart, lockVars, slaveVars>>

\* ~EthercatBus() detaches the managed devices; ~BackendImpl() then shuts down.
CallDestroy(t) ==
    /\ At(t, "idle")
    /\ attached' = attached \ devices
    /\ Goto(t, "shutdown.entry")
    /\ after' = [after EXCEPT ![t] = "destroy"]
    /\ UNCHANGED <<busState, port, onBus, devices, activationStart, todo,
                   lockVars, slaveVars>>

-----------------------------------------------------------------------------
(* startup().                                                              *)

CallStartup(t) ==
    /\ At(t, "idle")
    /\ IF busState = "Initialized"
       THEN LoopOverDevices(t, "startup.hooks")
       ELSE Return(t, "error")
    /\ UNCHANGED <<busVars, lockVars, slaveVars>>

StartupHooks(t) ==
    \/ Hook(t, "startup.hooks")
    \/ /\ LoopDone(t, "startup.hooks")
       /\ Goto(t, "startup.config")
       /\ UNCHANGED <<todo, after, busVars, lockVars, slaveVars>>

\* Too small an IO map, or no slave with distributed clocks, fails the startup.
StartupConfig(t) ==
    /\ At(t, "startup.config")
    /\ \/ /\ busState' = "Configured"
          /\ LoopOverDevices(t, "startup.pdo")
       \/ /\ ShutdownAndThrow(t)
          /\ UNCHANGED busState
    /\ UNCHANGED <<port, onBus, devices, attached, activationStart, lockVars, slaveVars>>

StartupPdo(t) ==
    \/ Hook(t, "startup.pdo")
    \/ /\ LoopDone(t, "startup.pdo")
       /\ Return(t, "ok")
       /\ UNCHANGED <<busVars, lockVars, slaveVars>>

-----------------------------------------------------------------------------
(* activate().                                                             *)

CallActivate(t) ==
    /\ At(t, "idle")
    /\ IF busState = "Configured"
       THEN LoopOverDevices(t, "activate.pre")
       ELSE Return(t, "error")
    /\ UNCHANGED <<busVars, lockVars, slaveVars>>

ActivatePre(t) ==
    \/ Hook(t, "activate.pre")
    \/ /\ LoopDone(t, "activate.pre")
       /\ activationStart' = "unset"
       /\ LoopOverDevices(t, "activate.set")
       /\ UNCHANGED <<busState, port, onBus, devices, attached, lockVars, slaveVars>>

ActivateSet(t) ==
    \/ /\ At(t, "activate.set")
       /\ \E d \in todo[t] :
            \/ RequestState(d, "SAFE_OP", TRUE) /\ Visit(t, d)
            \/ RequestState(d, "SAFE_OP", FALSE) /\ ShutdownAndThrow(t)
       /\ UNCHANGED <<busVars, lockVars>>
    \/ /\ LoopDone(t, "activate.set")
       /\ LoopOverDevices(t, "activate.wait")
       /\ UNCHANGED <<busVars, lockVars, slaveVars>>

ActivateWait(t) ==
    \/ /\ At(t, "activate.wait")
       /\ \E d \in todo[t] :
            /\ CheckState(d)
            /\ IF cached'[d] = "SAFE_OP" THEN Visit(t, d) ELSE ShutdownAndThrow(t)
       /\ UNCHANGED <<busVars, lockVars>>
    \/ /\ LoopDone(t, "activate.wait")
       /\ busState' = "Activated"
       /\ LoopOverDevices(t, "activate.post")
       /\ UNCHANGED <<port, onBus, devices, attached, activationStart, lockVars, slaveVars>>

ActivatePost(t) ==
    \/ Hook(t, "activate.post")
    \/ /\ LoopDone(t, "activate.post")
       /\ Return(t, "ok")
       /\ UNCHANGED <<busVars, lockVars, slaveVars>>

-----------------------------------------------------------------------------
(* shutdown().                                                             *)

CallShutdown(t) ==
    /\ At(t, "idle")
    /\ Goto(t, "shutdown.entry")
    /\ UNCHANGED <<todo, after, busVars, lockVars, slaveVars>>

ShutdownEntry(t) ==
    /\ At(t, "shutdown.entry")
    /\ \/ /\ busState = "Shutdown"
          /\ LeaveShutdown(t, "ok")
          /\ UNCHANGED busState
       \/ /\ busState = "PreInit"
          /\ busState' = "Shutdown"
          /\ LeaveShutdown(t, "ok")
       \/ /\ busState = "Initialized"
          /\ Goto(t, "shutdown.init")
          /\ UNCHANGED <<busState, todo, after>>
       \/ /\ busState \in Contract!UpStates
          /\ busState' = "ShuttingDown"
          /\ LoopOverDevices(t, "shutdown.pre")
       \/ /\ busState = "ShuttingDown"       \* "dont know what to do"
          /\ LeaveShutdown(t, "error")
          /\ UNCHANGED busState
    /\ UNCHANGED <<port, onBus, devices, attached, activationStart, lockVars, slaveVars>>

\* Under all mutexes; the code stores Shutdown before it closes the port here.
ShutdownInitialized(t) ==
    /\ At(t, "shutdown.init")
    /\ AllMutexesFree
    /\ devices' = {}
    /\ busState' = "Shutdown"
    /\ port' = "closed"
    /\ LeaveShutdown(t, "ok")
    /\ UNCHANGED <<onBus, attached, activationStart, lockVars, slaveVars>>

\* A pre-shutdown hook that talks to its device needs the mailbox, and throws
\* when the device has lost its bus.
ShutdownPre(t) ==
    \/ /\ At(t, "shutdown.pre")
       /\ \E d \in todo[t] :
            \/ /\ HooksCommunicate => d \in attached /\ MailboxMutexFree
               /\ Visit(t, d)
            \/ /\ HooksMayThrow \/ (HooksCommunicate /\ d \notin attached)
               /\ LeaveShutdown(t, "error")
       /\ UNCHANGED <<busVars, lockVars, slaveVars>>
    \/ /\ LoopDone(t, "shutdown.pre")
       /\ Goto(t, "shutdown.set")
       /\ UNCHANGED <<todo, after, busVars, lockVars, slaveVars>>

\* Device id 0 addresses every slave; the results are ignored.  Each slave may
\* miss the broadcast.
ShutdownSet(t) ==
    /\ At(t, "shutdown.set")
    /\ \E answering \in SUBSET onBus :
         requested' = [d \in Devices |->
                         IF d \in answering THEN "PRE_OP" ELSE requested[d]]
    /\ Goto(t, "shutdown.wait")
    /\ UNCHANGED <<todo, after, busVars, lockVars, slaveState, cached, reached>>

ShutdownWait(t) ==
    /\ At(t, "shutdown.wait")
    /\ Goto(t, "shutdown.close")
    /\ UNCHANGED <<todo, after, busVars, lockVars, slaveVars>>

\* Under all mutexes; the code closes the port before it stores Shutdown here.
ShutdownClose(t) ==
    /\ At(t, "shutdown.close")
    /\ AllMutexesFree
    /\ port' = "closed"
    /\ busState' = "Shutdown"
    /\ LoopOverDevices(t, "shutdown.post")
    /\ UNCHANGED <<onBus, devices, attached, activationStart, lockVars, slaveVars>>

ShutdownPost(t) ==
    \/ HookReturns(t, "shutdown.post")
    \/ /\ At(t, "shutdown.post")
       /\ HooksMayThrow
       /\ todo[t] # {}
       /\ LeaveShutdown(t, "error")
       /\ UNCHANGED <<busVars, lockVars, slaveVars>>
    \/ /\ LoopDone(t, "shutdown.post")
       /\ devices' = {}
       /\ LeaveShutdown(t, "ok")
       /\ UNCHANGED <<busState, port, onBus, attached, activationStart, lockVars, slaveVars>>

-----------------------------------------------------------------------------
(* update_rt().                                                            *)

RunsUnlessPreInit == busState # "PreInit"  \* mutant: update_rt() on a dead bus
RtMayRun == busState \in {"Activated", "Operational"}

RtCheck(t) ==
    /\ At(t, "rt.check")
    /\ IF RtMayRun
       THEN LoopOverDevices(t, "rt.write")
       ELSE Return(t, "error")
    /\ UNCHANGED <<busVars, lockVars, slaveVars>>

\* The update of a device throws: its own code, or the PDO accessor it calls, which looks at
\* the bus state and the size of the data before it takes a mutex.
UpdateThrows(t, label) ==
    /\ At(t, label)
    /\ todo[t] # {}
    /\ Return(t, "error")
    /\ UNCHANGED <<busVars, lockVars, slaveVars>>

\* dispatch_device_update_write(): a copy into the IO map under pdo_update_mutex_.
RtWrite(t) ==
    \/ /\ At(t, "rt.write")
       /\ PdoMutexFree
       /\ \E d \in todo[t] : Visit(t, d)
       /\ UNCHANGED <<busVars, lockVars, slaveVars>>
    \/ UpdateThrows(t, "rt.write")
    \/ /\ LoopDone(t, "rt.write")
       /\ PdoMutexFree
       /\ pdoHolder' = t
       /\ Goto(t, "rt.exchange")
       /\ UNCHANGED <<todo, after, mailboxHolder, busVars, slaveVars>>

\* ecx_send_processdata() and ecx_receive_processdata().
RtExchange(t) ==
    /\ At(t, "rt.exchange")
    /\ pdoHolder' = NoThread
    /\ LoopOverDevices(t, "rt.read")
    /\ UNCHANGED <<mailboxHolder, busVars, slaveVars>>

RtRead(t) ==
    \/ /\ At(t, "rt.read")
       /\ PdoMutexFree
       /\ \E d \in todo[t] : Visit(t, d)
       /\ UNCHANGED <<busVars, lockVars, slaveVars>>
    \/ UpdateThrows(t, "rt.read")
    \/ /\ LoopDone(t, "rt.read")
       /\ Return(t, "ok")
       /\ UNCHANGED <<busVars, lockVars, slaveVars>>

RtStep(t) == RtCheck(t) \/ RtWrite(t) \/ RtExchange(t) \/ RtRead(t)

-----------------------------------------------------------------------------
(* update_service().                                                       *)

ServiceCheck(t) ==
    /\ At(t, "sv.check")
    /\ IF busState \in {"PreInit", "Shutdown", "ShuttingDown"}
       THEN Return(t, "error")
       ELSE Goto(t, "sv.decide") /\ UNCHANGED <<todo, after>>
    /\ UNCHANGED <<busVars, lockVars, slaveVars>>

AnyDiagnostics == MailboxDiagnostics \/ EscDiagnostics \/ PortDiagnostics

PushesAlways == busState # "Operational"  \* mutant: no look at Activated
AwaitsOperational == busState = "Activated"

RestartedTimer == "running"  \* mutant: the time stamp is taken on every tick
StartedTimer == IF activationStart = "unset" THEN "running" ELSE activationStart

\* While Activated: start or check the activation timer, then push the devices
\* towards OPERATIONAL.  Otherwise: background diagnostics.  (The mailbox events
\* drained in passing are the subject of MailboxAccess, link_up of BusDiagnostics.)
ServiceDecide(t) ==
    /\ At(t, "sv.decide")
    /\ \/ /\ AwaitsOperational
          /\ activationStart' = StartedTimer
          /\ IF TimeoutEnabled /\ StartedTimer = "expired"
             THEN ShutdownAndThrow(t)
             ELSE LoopOverDevices(t, "sv.set")
       \/ /\ ~AwaitsOperational
          /\ IF EscDiagnostics
             THEN Goto(t, "sv.diag") /\ UNCHANGED <<todo, after>>
             ELSE Return(t, IF AnyDiagnostics THEN "ok" ELSE "stop")
          /\ UNCHANGED activationStart
    /\ UNCHANGED <<busState, port, onBus, devices, attached, lockVars, slaveVars>>

ServiceSet(t) ==
    \/ /\ At(t, "sv.set")
       /\ \E d \in todo[t], answers \in BOOLEAN :
            /\ RequestState(d, "OP", answers)
            /\ Visit(t, d)
       /\ UNCHANGED <<busVars, lockVars>>
    \/ /\ LoopDone(t, "sv.set")
       /\ Goto(t, "sv.read")
       /\ UNCHANGED <<todo, after, busVars, lockVars, slaveVars>>

\* Mutant: no update_device_states() before the verification.
ServiceReadNothing(t) ==
    /\ At(t, "sv.read")
    /\ LoopOverDevices(t, "sv.verify")
    /\ UNCHANGED <<busVars, lockVars, slaveVars>>

ServiceRead(t) ==
    /\ At(t, "sv.read")
    /\ ReadStates
    /\ LoopOverDevices(t, "sv.verify")
    /\ UNCHANGED <<busVars, lockVars>>

\* The first device that is not OPERATIONAL decides the outcome of the loop.
ServiceVerify(t) ==
    /\ \/ /\ At(t, "sv.verify")
          /\ \E d \in todo[t] :
               \/ cached[d] = "OP" /\ Visit(t, d)
               \/ cached[d] # "OP" /\ Return(t, "ok")
       \/ /\ LoopDone(t, "sv.verify")
          /\ Goto(t, "sv.promote")
          /\ UNCHANGED <<todo, after>>
    /\ UNCHANGED <<busVars, lockVars, slaveVars>>

ServicePromote(t) ==
    /\ At(t, "sv.promote")
    /\ busState' = "Operational"
    /\ Return(t, "ok")
    /\ UNCHANGED <<port, onBus, devices, attached, activationStart, lockVars, slaveVars>>

ServiceDiagnostics(t) ==
    /\ At(t, "sv.diag")
    /\ ReadStates
    /\ IF PortDiagnostics
       THEN Goto(t, "sv.ports") /\ UNCHANGED <<todo, after>>
       ELSE Return(t, "ok")
    /\ UNCHANGED <<busVars, lockVars>>

\* update_diagnostics_slow(): register reads without a mutex.
ServicePorts(t) ==
    /\ At(t, "sv.ports")
    /\ Return(t, "ok")
    /\ UNCHANGED <<busVars, lockVars, slaveVars>>

ServiceStep(t) ==
    \/ ServiceCheck(t) \/ ServiceDecide(t) \/ ServiceSet(t) \/ ServiceRead(t)
    \/ ServiceVerify(t) \/ ServicePromote(t) \/ ServiceDiagnostics(t) \/ ServicePorts(t)

-----------------------------------------------------------------------------
(* Calls that any thread may make beside the executor.                     *)

Call(t, label) ==
    /\ At(t, "idle")
    /\ Goto(t, label)
    /\ UNCHANGED <<todo, after, busVars, lockVars, slaveVars>>

\* SDO reads and writes, FoE reads and writes: lock, check, transfer.
MailboxLock(t) ==
    /\ At(t, "mbx.lock")
    /\ MailboxMutexFree
    /\ mailboxHolder' = t
    /\ Goto(t, "mbx.check")
    /\ UNCHANGED <<todo, after, pdoHolder, busVars, slaveVars>>

\* Mutant: the early return keeps the mutex.
MailboxCheckKeepsLock(t) ==
    /\ At(t, "mbx.check")
    /\ \/ Return(t, "error")
       \/ Goto(t, "mbx.transfer") /\ UNCHANGED <<todo, after>>
    /\ UNCHANGED <<lockVars, busVars, slaveVars>>

MailboxCheck(t) ==
    /\ At(t, "mbx.check")
    /\ \E d \in Devices :
         IF busState \in {"PreInit", "Shutdown"} \/ d \notin onBus
         THEN Return(t, "error") /\ mailboxHolder' = NoThread
         ELSE Goto(t, "mbx.transfer") /\ UNCHANGED <<todo, after, mailboxHolder>>
    /\ UNCHANGED <<pdoHolder, busVars, slaveVars>>

MailboxTransfer(t) ==
    /\ At(t, "mbx.transfer")
    /\ mailboxHolder' = NoThread
    /\ \E result \in {"ok", "error"} : Return(t, result)
    /\ UNCHANGED <<pdoHolder, busVars, slaveVars>>

\* read_od(): check, then lock, then transfer.
OdCheck(t) ==
    /\ At(t, "od.check")
    /\ \E d \in Devices :
         IF busState \in {"PreInit", "Shutdown"} \/ d \notin onBus
         THEN Return(t, "error")
         ELSE Goto(t, "od.lock") /\ UNCHANGED <<todo, after>>
    /\ UNCHANGED <<busVars, lockVars, slaveVars>>

OdLock(t) ==
    /\ At(t, "od.lock")
    /\ MailboxMutexFree
    /\ mailboxHolder' = t
    /\ Goto(t, "od.transfer")
    /\ UNCHANGED <<todo, after, pdoHolder, busVars, slaveVars>>

OdTransfer(t) ==
    /\ At(t, "od.transfer")
    /\ mailboxHolder' = NoThread
    /\ \E result \in {"ok", "error"} : Return(t, result)
    /\ UNCHANGED <<pdoHolder, busVars, slaveVars>>

\* Register reads and writes: check, then transfer, with no mutex at all.
RegisterCheck(t) ==
    /\ At(t, "reg.check")
    /\ \E d \in Devices :
         IF busState \in {"PreInit", "Shutdown"} \/ d \notin onBus
         THEN Return(t, "error")
         ELSE Goto(t, "reg.io") /\ UNCHANGED <<todo, after>>
    /\ UNCHANGED <<busVars, lockVars, slaveVars>>

RegisterIo(t) ==
    /\ At(t, "reg.io")
    /\ Return(t, "ok")
    /\ UNCHANGED <<busVars, lockVars, slaveVars>>

\* change_device_state(): no look at the bus state; blocking callers also wait.
StateSet(t) ==
    /\ At(t, "state.set")
    /\ \/ /\ Return(t, "error")            \* device not on the bus
          /\ UNCHANGED slaveVars
       \/ \E d \in onBus, s \in SlaveStates :
            \/ RequestState(d, s, FALSE) /\ Return(t, "error")
            \/ RequestState(d, s, TRUE) /\ Return(t, "ok")
            \/ /\ RequestState(d, s, TRUE)
               /\ Goto(t, "state.wait")
               /\ UNCHANGED <<todo, after>>
    /\ UNCHANGED <<busVars, lockVars>>

StateWait(t) ==
    /\ At(t, "state.wait")
    /\ \E d \in onBus : CheckState(d)
    /\ \E result \in {"ok", "error"} : Return(t, result)
    /\ UNCHANGED <<busVars, lockVars>>

ClientStep(t) ==
    \/ MailboxLock(t) \/ MailboxCheck(t) \/ MailboxTransfer(t)
    \/ OdCheck(t) \/ OdLock(t) \/ OdTransfer(t)
    \/ RegisterCheck(t) \/ RegisterIo(t)
    \/ StateSet(t) \/ StateWait(t)

LifecycleStep(t) ==
    \/ InitConfig(t) \/ InitDevices(t)
    \/ StartupHooks(t) \/ StartupConfig(t) \/ StartupPdo(t)
    \/ ActivatePre(t) \/ ActivateSet(t) \/ ActivateWait(t) \/ ActivatePost(t)

ShutdownStep(t) ==
    \/ ShutdownEntry(t) \/ ShutdownInitialized(t) \/ ShutdownPre(t) \/ ShutdownSet(t)
    \/ ShutdownWait(t) \/ ShutdownClose(t) \/ ShutdownPost(t)

-----------------------------------------------------------------------------
(* The environment.                                                        *)

\* A slave reaches the state requested from it.
SlaveFollows(d) ==
    /\ slaveState[d] # requested[d]
    /\ slaveState' = [slaveState EXCEPT ![d] = requested[d]]
    /\ reached' = IF requested[d] = "OP" THEN reached \cup {d} ELSE reached
    /\ UNCHANGED <<requested, cached, busVars, lockVars, callVars>>

\* A slave leaves OPERATIONAL on its own and stays out until asked again.
SlaveDrops(d) ==
    /\ slaveState[d] = "OP"
    /\ slaveState' = [slaveState EXCEPT ![d] = "SAFE_OP"]
    /\ requested' = [requested EXCEPT ![d] = "SAFE_OP"]
    /\ UNCHANGED <<cached, reached, busVars, lockVars, callVars>>

\* timeout_transition_operational runs out.
ActivationTimeElapses ==
    /\ activationStart = "running"
    /\ activationStart' = "expired"
    /\ UNCHANGED <<busState, port, onBus, devices, attached, lockVars, slaveVars, callVars>>

Environment ==
    \/ \E d \in Devices : SlaveFollows(d) \/ SlaveDrops(d)
    \/ ActivationTimeElapses

-----------------------------------------------------------------------------
(* Predicates the properties of the composed modules are built from.       *)

\* Types, for threads whose labels are these.
BusTypeOK(labels) ==
    /\ busState \in Contract!BusStates
    /\ port \in {"closed", "open"}
    /\ onBus \subseteq Devices
    /\ devices \subseteq Devices
    /\ attached \subseteq Devices
    /\ activationStart \in {"unset", "running", "expired"}
    /\ pdoHolder \in Threads \cup {NoThread}
    /\ mailboxHolder \in Threads \cup {NoThread}
    /\ slaveState \in [Devices -> SlaveStates]
    /\ requested \in [Devices -> SlaveStates]
    /\ cached \in [Devices -> SlaveStates \cup {"NONE"}]
    /\ reached \subseteq Devices
    /\ pc \in [Threads -> labels]
    /\ todo \in [Threads -> SUBSET Devices]
    /\ after \in [Threads -> {"return", "throw", "destroy"}]

\* Every thread at one of these labels finds the port open.
PortOpenAt(labels) == \A t \in Threads : pc[t] \in labels => port = "open"

\* Closing the port, whoever does it and whenever, cuts off neither a frame nor a mailbox
\* transfer of any thread.
NoTransferIsCutOff ==
    [][port = "open" /\ port' = "closed" =>
         \A t \in Threads : pc[t] \notin {"rt.exchange", "mbx.transfer", "od.transfer"}]_vars

\* The owners of the mutexes a thread may have to wait for where it is.
LockOwnersAwaitedBy(t) ==
    {u \in Threads :
        \/ u = pdoHolder
           /\ pc[t] \in {"rt.write", "rt.read", "shutdown.init", "shutdown.close"}
        \/ u = mailboxHolder
           /\ pc[t] \in {"mbx.lock", "od.lock", "shutdown.pre", "shutdown.init", "shutdown.close"}}
=============================================================================
