---------------------- MODULE SingleBusExecutor_proofs ----------------------
(***************************************************************************)
(* Proofs about SingleBusExecutor, for any finite set of devices, any set  *)
(* of client threads and any calls they make.                              *)
(*                                                                         *)
(* The inductive invariant IInv is preserved by the steps of each role;    *)
(* the safety properties and the implementation of BusContract follow.     *)
(* RtInv and ConfirmInv are two further layers, each inductive relative to *)
(* IInv: until the activation times out, and for clients that do not       *)
(* request device states.                                                  *)
(***************************************************************************)
EXTENDS SingleBusExecutor, TLAPS

USE ThreadsAssumption, NoThreadAssumption, OptionsAssumption

\* The vocabulary every step is written in: control flow, labels, variable tuples.
USE DEF At, Goto, Return, LoopOverDevices, Visit, LoopDone, LeaveShutdown,
        ShutdownAndThrow, HookReturns, HookThrows, Hook, RequestState, ReadStates,
        PdoMutexFree, MailboxMutexFree, AllMutexesFree, RtMayRun, AwaitsOperational,
        StartedTimer
USE DEF Results, InitLabels, StartupLabels, ActivateLabels, ShutdownLabels, RtLabels,
        ServiceLabels, MailboxLabels, OdLabels, RegisterLabels, StateLabels, BusLabels,
        ExecutorLabels, PdoSections, MailboxSections
USE DEF vars, busVars, lockVars, slaveVars, callVars, execVars, allVars
USE DEF Workers, Clients, SlaveStates, Contract!BusStates, Contract!UpStates

-----------------------------------------------------------------------------
(* IInv is inductive.                                                      *)

\* IInv holds initially: no thread is in a call and no mutex is owned.
LEMMA InitEstablishesIInv == Init => IInv
<1> SUFFICES ASSUME Init
             PROVE  IInv
  OBVIOUS
<1> USE DEF Init, BusInit
<1>1. TypeOK                  BY DEF TypeOK, BusTypeOK
<1>2. RolesOK                 BY DEF RolesOK
<1>3. LocksOK                 BY DEF LocksOK
<1>4. ThreadsOK               BY DEF ThreadsOK
<1>5. StateAtLabel /\ PortOK  BY DEF StateAtLabel, PortOK
<1> QED BY <1>1, <1>2, <1>3, <1>4, <1>5 DEF IInv

\* shutdown() preserves IInv, run by the service thread or by a main thread that
\* has joined the workers.
LEMMA ShutdownPreservesIInv ==
    ASSUME IInv, NEW t \in {Main, Service}, t = Main => ~spinning,
           ShutdownStep(t), UNCHANGED execVars
    PROVE  IInv'
<1> USE DEF IInv, TypeOK, BusTypeOK, RolesOK, LocksOK, ThreadsOK, StateAtLabel, PortOK
<1>1. CASE ShutdownEntry(t)        BY <1>1 DEF ShutdownEntry
<1>2. CASE ShutdownInitialized(t)  BY <1>2 DEF ShutdownInitialized
<1>3. CASE ShutdownPre(t)          BY <1>3 DEF ShutdownPre
<1>4. CASE ShutdownSet(t)          BY <1>4 DEF ShutdownSet
<1>5. CASE ShutdownWait(t)         BY <1>5 DEF ShutdownWait
<1>6. CASE ShutdownClose(t)        BY <1>6 DEF ShutdownClose
<1>7. CASE ShutdownPost(t)         BY <1>7 DEF ShutdownPost
<1> QED BY <1>1, <1>2, <1>3, <1>4, <1>5, <1>6, <1>7 DEF ShutdownStep

\* initialize(), startup() and activate() preserve IInv.
LEMMA LifecyclePreservesIInv ==
    ASSUME IInv, LifecycleStep(Main), UNCHANGED execVars
    PROVE  IInv'
<1> USE DEF IInv, TypeOK, BusTypeOK, RolesOK, LocksOK, ThreadsOK, StateAtLabel, PortOK
<1>1. CASE InitConfig(Main)     BY <1>1 DEF InitConfig
<1>2. CASE InitDevices(Main)    BY <1>2 DEF InitDevices
<1>3. CASE StartupHooks(Main)   BY <1>3 DEF StartupHooks
<1>4. CASE StartupConfig(Main)  BY <1>4 DEF StartupConfig
<1>5. CASE StartupPdo(Main)     BY <1>5 DEF StartupPdo
<1>6. CASE ActivatePre(Main)    BY <1>6 DEF ActivatePre
<1>7. CASE ActivateSet(Main)    BY <1>7 DEF ActivateSet
<1>8. CASE ActivateWait(Main)   BY <1>8 DEF ActivateWait, CheckState
<1>9. CASE ActivatePost(Main)   BY <1>9 DEF ActivatePost
<1> QED BY <1>1, <1>2, <1>3, <1>4, <1>5, <1>6, <1>7, <1>8, <1>9 DEF LifecycleStep

\* The main thread preserves IInv.
LEMMA MainPreservesIInv ==
    ASSUME IInv,
           \/ MainCalls \/ MainReturns \/ MainSteps
           \/ Spin \/ StopBegins \/ StopJoinsRt \/ StopJoinsService
    PROVE  IInv'
<1>1. CASE MainCalls
  <2> USE DEF IInv, TypeOK, BusTypeOK, RolesOK, LocksOK, ThreadsOK, StateAtLabel, PortOK
  <2>0. ~spinning /\ UNCHANGED execVars
    BY <1>1 DEF MainCalls
  <2>1. CASE CallInitialize(Main)  BY <2>0, <2>1 DEF CallInitialize
  <2>2. CASE CallStartup(Main)     BY <2>0, <2>2 DEF CallStartup
  <2>3. CASE CallActivate(Main)    BY <2>0, <2>3 DEF CallActivate
  <2>4. CASE CallShutdown(Main)    BY <2>0, <2>4 DEF CallShutdown
  <2>5. CASE CallDestroy(Main)     BY <2>0, <2>5 DEF CallDestroy
  <2> QED BY <1>1, <2>1, <2>2, <2>3, <2>4, <2>5 DEF MainCalls
<1>2. CASE MainSteps
  <2>1. UNCHANGED execVars /\ (LifecycleStep(Main) \/ ShutdownStep(Main))
    BY <1>2 DEF MainSteps
  <2>2. pc[Main] \notin {"idle"} \cup ExecutorLabels
    BY <1>2 DEF MainSteps, LifecycleStep, ShutdownStep, InitConfig, InitDevices,
                StartupHooks, StartupConfig, StartupPdo, ActivatePre, ActivateSet,
                ActivateWait, CheckState, ActivatePost, ShutdownEntry, ShutdownInitialized,
                ShutdownPre, ShutdownSet, ShutdownWait, ShutdownClose, ShutdownPost
  <2>3. ~spinning
    BY <2>2 DEF IInv, ThreadsOK
  <2> QED BY <2>1, <2>3, LifecyclePreservesIInv, ShutdownPreservesIInv
<1>3. CASE MainReturns \/ Spin \/ StopBegins \/ StopJoinsRt \/ StopJoinsService
  <2> USE DEF IInv, TypeOK, BusTypeOK, RolesOK, LocksOK, ThreadsOK, StateAtLabel, PortOK
  <2>1. CASE MainReturns       BY <2>1 DEF MainReturns
  <2>2. CASE Spin              BY <2>2 DEF Spin
  <2>3. CASE StopBegins        BY <2>3 DEF StopBegins
  <2>4. CASE StopJoinsRt       BY <2>4 DEF StopJoinsRt
  <2>5. CASE StopJoinsService
    <3>1. running = {}
      BY <2>5 DEF StopJoinsService
    <3>2. TypeOK'                  BY <2>5 DEF StopJoinsService
    <3>3. RolesOK'                 BY <2>5 DEF StopJoinsService
    <3>4. LocksOK'                 BY <2>5 DEF StopJoinsService
    <3>5. ThreadsOK'               BY <2>5, <3>1 DEF StopJoinsService
    <3>6. StateAtLabel' /\ PortOK'  BY <2>5 DEF StopJoinsService
    <3> QED BY <3>2, <3>3, <3>4, <3>5, <3>6
  <2> QED BY <1>3, <2>1, <2>2, <2>3, <2>4, <2>5
<1> QED BY <1>1, <1>2, <1>3

\* update_rt() and update_service() preserve IInv.
LEMMA UpdatesPreserveIInv ==
    ASSUME IInv, RtStep(Rt) \/ ServiceStep(Service), UNCHANGED execVars
    PROVE  IInv'
<1> USE DEF IInv, TypeOK, BusTypeOK, RolesOK, LocksOK, ThreadsOK, StateAtLabel, PortOK
<1>1. CASE RtCheck(Rt)                   BY <1>1 DEF RtCheck
<1>2. CASE RtWrite(Rt)                   BY <1>2 DEF RtWrite, UpdateThrows
<1>3. CASE RtExchange(Rt)                BY <1>3 DEF RtExchange
<1>4. CASE RtRead(Rt)                    BY <1>4 DEF RtRead, UpdateThrows
<1>5. CASE ServiceCheck(Service)         BY <1>5 DEF ServiceCheck
<1>6. CASE ServiceDecide(Service)        BY <1>6 DEF ServiceDecide
<1>7. CASE ServiceSet(Service)           BY <1>7 DEF ServiceSet
<1>8. CASE ServiceRead(Service)          BY <1>8 DEF ServiceRead
<1>9. CASE ServiceVerify(Service)        BY <1>9 DEF ServiceVerify
<1>10. CASE ServicePromote(Service)      BY <1>10 DEF ServicePromote
<1>11. CASE ServiceDiagnostics(Service)  BY <1>11 DEF ServiceDiagnostics
<1>12. CASE ServicePorts(Service)        BY <1>12 DEF ServicePorts
<1> QED BY <1>1, <1>2, <1>3, <1>4, <1>5, <1>6, <1>7, <1>8, <1>9, <1>10, <1>11, <1>12
        DEF RtStep, ServiceStep

\* The worker threads preserve IInv.
LEMMA WorkerPreservesIInv ==
    ASSUME IInv, NEW w \in Workers, Worker(w)
    PROVE  IInv'
<1>1. CASE WorkerSteps(w)
  <2>1. UNCHANGED execVars /\ w \in {Rt, Service}
    BY <1>1 DEF WorkerSteps
  <2>2. \/ RtStep(Rt) \/ ServiceStep(Service)
        \/ w = Service /\ ShutdownStep(w)
    BY <1>1 DEF WorkerSteps
  <2> QED BY <2>1, <2>2, UpdatesPreserveIInv, ShutdownPreservesIInv
<1>2. CASE WorkerBegins(w) \/ WorkerStops(w) \/ WorkerSleeps(w) \/ WorkerEnds(w)
  BY <1>2 DEF IInv, TypeOK, BusTypeOK, RolesOK, LocksOK, ThreadsOK, StateAtLabel, PortOK,
              WorkerBegins, WorkerStops, WorkerSleeps, WorkerEnds, Entry
<1> QED BY <1>1, <1>2 DEF Worker

\* Client calls preserve IInv.
LEMMA ClientPreservesIInv ==
    ASSUME IInv, NEW t \in Clients, Client(t)
    PROVE  IInv'
<1> USE DEF IInv, TypeOK, BusTypeOK, RolesOK, LocksOK, ThreadsOK, StateAtLabel, PortOK
<1>1. CASE ClientSteps(t)
  <2>0. UNCHANGED execVars
    BY <1>1 DEF ClientSteps
  <2>1. CASE MailboxLock(t)      BY <2>0, <2>1 DEF MailboxLock
  <2>2. CASE MailboxCheck(t)     BY <2>0, <2>2 DEF MailboxCheck
  <2>3. CASE MailboxTransfer(t)  BY <2>0, <2>3 DEF MailboxTransfer
  <2>4. CASE OdCheck(t)          BY <2>0, <2>4 DEF OdCheck
  <2>5. CASE OdLock(t)           BY <2>0, <2>5 DEF OdLock
  <2>6. CASE OdTransfer(t)       BY <2>0, <2>6 DEF OdTransfer
  <2>7. CASE RegisterCheck(t)    BY <2>0, <2>7 DEF RegisterCheck
  <2>8. CASE RegisterIo(t)       BY <2>0, <2>8 DEF RegisterIo
  <2>9. CASE StateSet(t)         BY <2>0, <2>9 DEF StateSet
  <2>10. CASE StateWait(t)       BY <2>0, <2>10 DEF StateWait, CheckState
  <2> QED BY <1>1, <2>1, <2>2, <2>3, <2>4, <2>5, <2>6, <2>7, <2>8, <2>9, <2>10
          DEF ClientSteps, ClientStep
<1>2. CASE ClientCallsBus(t) \/ ClientReturns(t)
  BY <1>2, ClientCallsAssumption DEF ClientCallsBus, ClientReturns, Call
<1> QED BY <1>1, <1>2 DEF Client

\* Every step preserves IInv.
LEMMA NextPreservesIInv == IInv /\ [Next]_allVars => IInv'
<1> SUFFICES ASSUME IInv, [Next]_allVars
             PROVE  IInv'
  OBVIOUS
<1> USE DEF IInv, TypeOK, BusTypeOK, RolesOK, LocksOK, ThreadsOK, StateAtLabel, PortOK
<1>1. CASE Environment /\ UNCHANGED execVars
  BY <1>1 DEF Environment, SlaveFollows, SlaveDrops, ActivationTimeElapses
<1>2. CASE Terminated \/ UNCHANGED allVars
  BY <1>2 DEF Terminated
<1> QED
  BY <1>1, <1>2, MainPreservesIInv, WorkerPreservesIInv, ClientPreservesIInv DEF Next

\* The inductive invariant holds in every reachable state: the mutexes are owned
\* by the threads inside their sections, every thread drives the bus only in the
\* states its code has checked for, and the port is open between PreInit and
\* Shutdown.
THEOREM IInvHolds == Spec => []IInv
BY InitEstablishesIInv, NextPreservesIInv, PTL DEF Spec

\* Type correctness: no thread leaves the operations of its role half way.
THEOREM TypeCorrect == Spec => []TypeOK
BY IInvHolds, PTL DEF IInv

-----------------------------------------------------------------------------
(* What follows from IInv.                                                 *)

\* No SDO or FoE transfer of any client ever meets a closed port, whoever shuts
\* the bus down and whenever.
THEOREM MailboxSafe == Spec => []MailboxIoOnOpenPort
<1>1. IInv => MailboxIoOnOpenPort
  BY DEF IInv, PortOK, MailboxIoOnOpenPort, PortOpenAt
<1> QED BY <1>1, IInvHolds, PTL

\* Bring-up, shutdown and service updates use the wire only while the port is
\* open, although none of them holds a mutex from step to step.
THEOREM BusIoSafe == Spec => []BusIoOnOpenPort
<1>1. IInv => BusIoOnOpenPort
  <2> SUFFICES ASSUME IInv, NEW t \in Threads,
                      pc[t] \in InitLabels \cup StartupLabels \cup ActivateLabels
                               \cup {"shutdown.pre", "shutdown.set", "shutdown.wait",
                                     "shutdown.close"}
                               \cup (ServiceLabels \ {"sv.check"})
               PROVE  port = "open"
    BY DEF BusIoOnOpenPort, PortOpenAt
  <2>1. t \in {Main, Service}
    BY DEF IInv, RolesOK
  <2> QED BY <2>1 DEF IInv, StateAtLabel, PortOK
<1> QED BY <1>1, IInvHolds, PTL

\* Two threads are never inside the calls that are not thread safe at once.
THEOREM LifecycleExclusive == Spec => []LifecycleIsExclusive
<1>1. IInv => LifecycleIsExclusive
  <2> SUFFICES ASSUME IInv, NEW t \in Threads, NEW u \in Threads,
                      pc[t] \in InitLabels \cup StartupLabels \cup ActivateLabels
                               \cup ShutdownLabels,
                      pc[u] \in InitLabels \cup StartupLabels \cup ActivateLabels
                               \cup ShutdownLabels \cup ServiceLabels
               PROVE  t = u
    BY DEF LifecycleIsExclusive
  <2>1. t \in {Main, Service} /\ u \in {Main, Service}
    BY DEF IInv, RolesOK
  <2>2. ~(t = Main /\ u = Service) /\ ~(t = Service /\ u = Main)
    BY DEF IInv, ThreadsOK
  <2> QED BY <2>1, <2>2
<1> QED BY <1>1, IInvHolds, PTL

\* Whoever owns a mutex is inside a section of it, hence not at a lock; a worker in an
\* update waits for mutexes only; so there is no circle of threads that wait for each other.
THEOREM NoDeadlock == Spec => []NobodyWaitsInACircle
<1>1. IInv => NobodyWaitsInACircle
  <2> SUFFICES ASSUME IInv, NEW t \in Threads, NEW u \in AwaitedBy(t)
               PROVE  u # Main /\ (t = Main \/ AwaitedBy(u) = {})
    BY DEF NobodyWaitsInACircle
  <2> USE DEF IInv, RolesOK, LocksOK
  <2>1. CASE u \in LockOwnersAwaitedBy(t)
    <3>1. u \in Threads /\ pc[u] \in PdoSections \cup MailboxSections
      BY <2>1 DEF LockOwnersAwaitedBy
    <3>2. u # Main  BY <3>1
    <3>3. AwaitedBy(u) = {}  BY <3>1 DEF AwaitedBy, LockOwnersAwaitedBy
    <3> QED BY <3>2, <3>3
  <2>2. CASE u \notin LockOwnersAwaitedBy(t)
    <3>1. u \in running /\ pc[t] \in {"stop.joinRt", "stop.joinService"}
      BY <2>2 DEF AwaitedBy
    <3>2. u \in Workers  BY <3>1 DEF TypeOK
    <3>3. t = Main  BY <3>1
    <3> QED BY <3>2, <3>3
  <2> QED BY <2>1, <2>2
<1> QED BY <1>1, IInvHolds, PTL

-----------------------------------------------------------------------------
(* The port is closed between transfers only.                              *)

\* A step leaves the port as it is, opens it, or closes it while both mutexes are free.
ClosesUnderLocks == port' \in {port, "open"} \/ AllMutexesFree

\* The two places where shutdown() closes the port hold its scoped_lock.
LEMMA ShutdownClosesUnderLocks ==
    ASSUME NEW t, ShutdownStep(t)
    PROVE  ClosesUnderLocks
<1> USE DEF ClosesUnderLocks
<1>1. CASE ShutdownInitialized(t) \/ ShutdownClose(t)
  BY <1>1 DEF ShutdownInitialized, ShutdownClose
<1>2. CASE \/ ShutdownEntry(t) \/ ShutdownPre(t) \/ ShutdownSet(t) \/ ShutdownWait(t)
           \/ ShutdownPost(t)
  BY <1>2 DEF ShutdownEntry, ShutdownPre, ShutdownSet, ShutdownWait, ShutdownPost
<1> QED BY <1>1, <1>2 DEF ShutdownStep

\* Nothing else closes it.
LEMMA NextClosesUnderLocks == [Next]_allVars => ClosesUnderLocks
<1> SUFFICES ASSUME [Next]_allVars PROVE ClosesUnderLocks  OBVIOUS
<1> USE DEF ClosesUnderLocks
<1>1. CASE MainCalls
  BY <1>1 DEF MainCalls, CallInitialize, CallStartup, CallActivate, CallShutdown, CallDestroy
<1>2. CASE MainSteps
  <2>1. CASE LifecycleStep(Main)
    BY <2>1 DEF LifecycleStep, InitConfig, InitDevices, StartupHooks, StartupConfig,
                StartupPdo, ActivatePre, ActivateSet, ActivateWait, CheckState, ActivatePost
  <2> QED BY <1>2, <2>1, ShutdownClosesUnderLocks DEF MainSteps
<1>3. ASSUME NEW w \in Workers, Worker(w)
      PROVE  ClosesUnderLocks
  <2>1. CASE RtStep(w)  BY <2>1 DEF RtStep, RtCheck, RtWrite, RtExchange, RtRead, UpdateThrows
  <2>2. CASE ServiceStep(w)
    BY <2>2 DEF ServiceStep, ServiceCheck, ServiceDecide, ServiceSet, ServiceRead,
                ServiceVerify, ServicePromote, ServiceDiagnostics, ServicePorts
  <2>3. CASE WorkerBegins(w) \/ WorkerStops(w) \/ WorkerSleeps(w) \/ WorkerEnds(w)
    BY <2>3 DEF WorkerBegins, WorkerStops, WorkerSleeps, WorkerEnds
  <2> QED BY <1>3, <2>1, <2>2, <2>3, ShutdownClosesUnderLocks DEF Worker, WorkerSteps
<1>4. ASSUME NEW t \in Clients, Client(t)
      PROVE  ClosesUnderLocks
  BY <1>4 DEF Client, ClientCallsBus, Call, ClientSteps, ClientStep, ClientReturns,
              MailboxLock, MailboxCheck, MailboxTransfer, OdCheck, OdLock, OdTransfer,
              RegisterCheck, RegisterIo, StateSet, StateWait, CheckState
<1>5. CASE MainReturns \/ Spin \/ StopBegins \/ StopJoinsRt \/ StopJoinsService
  BY <1>5 DEF MainReturns, Spin, StopBegins, StopJoinsRt, StopJoinsService
<1>6. CASE (Environment /\ UNCHANGED execVars) \/ Terminated \/ UNCHANGED allVars
  BY <1>6 DEF Environment, SlaveFollows, SlaveDrops, ActivationTimeElapses, Terminated
<1> QED BY <1>1, <1>2, <1>3, <1>4, <1>5, <1>6 DEF Next

\* NoTransferIsCutOff: who transfers a frame or a mailbox message owns a mutex, and nobody
\* closes the port meanwhile, the activation timeout in the service thread included.
THEOREM TransfersComplete == Spec => NoTransferIsCutOff
<1> DEFINE Kept == port = "open" /\ port' = "closed" =>
                     \A t \in Threads : pc[t] \notin {"rt.exchange", "mbx.transfer", "od.transfer"}
<1>1. IInv /\ [Next]_allVars => [Kept]_vars
  <2> SUFFICES ASSUME IInv, [Next]_allVars, port = "open", port' = "closed", NEW t \in Threads
               PROVE  pc[t] \notin {"rt.exchange", "mbx.transfer", "od.transfer"}
    OBVIOUS
  <2>1. AllMutexesFree  BY NextClosesUnderLocks DEF ClosesUnderLocks
  <2>2. pdoHolder # t /\ mailboxHolder # t  BY <2>1
  <2> QED BY <2>2 DEF IInv, LocksOK
<1> QED BY <1>1, IInvHolds, PTL DEF Spec, NoTransferIsCutOff

-----------------------------------------------------------------------------
(* The bus implements BusContract.                                         *)

\* What a step of the bus does to the abstract state: a step of the contract, or
\* nothing.
ContractStep == [Contract!ContractNext]_Contract!contractVars

USE DEF Contract!OpenPort, Contract!Raise, Contract!BringUp, Contract!BeginShutdown,
        Contract!FinishShutdown, Contract!AbandonPreInit, Contract!ContractNext,
        Contract!contractVars

\* Each step of shutdown() is BeginShutdown, FinishShutdown, AbandonPreInit, or
\* invisible.
LEMMA ShutdownRefines ==
    ASSUME IInv, NEW t \in {Main, Service}, ShutdownStep(t)
    PROVE  ContractStep
<1> USE DEF IInv, StateAtLabel, PortOK, ContractStep
<1>1. CASE ShutdownEntry(t)        BY <1>1 DEF ShutdownEntry, TypeOK, BusTypeOK
<1>2. CASE ShutdownInitialized(t)  BY <1>2 DEF ShutdownInitialized
<1>3. CASE ShutdownClose(t)        BY <1>3 DEF ShutdownClose
<1>4. CASE ShutdownPre(t) \/ ShutdownSet(t) \/ ShutdownWait(t) \/ ShutdownPost(t)
  BY <1>4 DEF ShutdownPre, ShutdownSet, ShutdownWait, ShutdownPost
<1> QED BY <1>1, <1>2, <1>3, <1>4 DEF ShutdownStep

\* Each step of the bring-up raises the bus by one state, opens the port, or is
\* invisible.
LEMMA BringUpRefines ==
    ASSUME IInv, MainCalls \/ LifecycleStep(Main)
    PROVE  ContractStep
<1> USE DEF IInv, StateAtLabel, PortOK, ContractStep
<1>1. CASE MainCalls
  BY <1>1 DEF MainCalls, CallInitialize, CallStartup, CallActivate, CallShutdown,
              CallDestroy
<1>2. CASE InitConfig(Main)     BY <1>2 DEF InitConfig
<1>3. CASE StartupConfig(Main)  BY <1>3 DEF StartupConfig
<1>4. CASE ActivateWait(Main)   BY <1>4 DEF ActivateWait, CheckState
<1>5. CASE \/ InitDevices(Main) \/ StartupHooks(Main) \/ StartupPdo(Main)
           \/ ActivatePre(Main) \/ ActivateSet(Main) \/ ActivatePost(Main)
  BY <1>5 DEF InitDevices, StartupHooks, StartupPdo, ActivatePre, ActivateSet,
              ActivatePost
<1> QED BY <1>1, <1>2, <1>3, <1>4, <1>5 DEF LifecycleStep

\* The updates leave bus state and port alone, but for the promotion to
\* Operational, which only happens to an Activated bus.
LEMMA UpdatesRefine ==
    ASSUME IInv, RtStep(Rt) \/ ServiceStep(Service)
    PROVE  ContractStep
<1> USE DEF ContractStep
<1>1. CASE RtStep(Rt)
  BY <1>1 DEF RtStep, RtCheck, RtWrite, RtExchange, RtRead, UpdateThrows
<1>2. CASE ServicePromote(Service)
  BY <1>2 DEF ServicePromote, IInv, StateAtLabel, PortOK
<1>3. CASE \/ ServiceCheck(Service) \/ ServiceDecide(Service) \/ ServiceSet(Service)
           \/ ServiceRead(Service) \/ ServiceVerify(Service)
           \/ ServiceDiagnostics(Service) \/ ServicePorts(Service)
  BY <1>3 DEF ServiceCheck, ServiceDecide, ServiceSet, ServiceRead, ServiceVerify,
              ServiceDiagnostics, ServicePorts
<1> QED BY <1>1, <1>2, <1>3 DEF ServiceStep

\* Every step of the system is a step of the contract.
LEMMA NextRefines == IInv /\ [Next]_allVars => ContractStep
<1> SUFFICES ASSUME IInv, [Next]_allVars
             PROVE  ContractStep
  OBVIOUS
<1>1. CASE MainCalls \/ MainSteps
  BY <1>1, BringUpRefines, ShutdownRefines DEF MainSteps
<1>2. ASSUME NEW w \in Workers, Worker(w)
      PROVE  ContractStep
  <2>1. CASE WorkerSteps(w)
    <3>1. RtStep(Rt) \/ ServiceStep(Service) \/ ShutdownStep(Service)
      BY <2>1 DEF WorkerSteps
    <3> QED BY <3>1, UpdatesRefine, ShutdownRefines
  <2>2. CASE WorkerBegins(w) \/ WorkerStops(w) \/ WorkerSleeps(w) \/ WorkerEnds(w)
    BY <2>2 DEF WorkerBegins, WorkerStops, WorkerSleeps, WorkerEnds, ContractStep
  <2> QED BY <1>2, <2>1, <2>2 DEF Worker
<1>3. ASSUME NEW t \in Clients, Client(t)
      PROVE  ContractStep
  BY <1>3 DEF Client, ClientCallsBus, Call, ClientSteps, ClientStep, ClientReturns,
              MailboxLock, MailboxCheck, MailboxTransfer, OdCheck, OdLock, OdTransfer,
              RegisterCheck, RegisterIo, StateSet, StateWait, CheckState, ContractStep
<1>4. CASE MainReturns \/ Spin \/ StopBegins \/ StopJoinsRt \/ StopJoinsService
  BY <1>4 DEF MainReturns, Spin, StopBegins, StopJoinsRt, StopJoinsService, ContractStep
<1>5. CASE (Environment /\ UNCHANGED execVars) \/ Terminated \/ UNCHANGED allVars
  BY <1>5 DEF Environment, SlaveFollows, SlaveDrops, ActivationTimeElapses, Terminated,
              ContractStep
<1> QED BY <1>1, <1>2, <1>3, <1>4, <1>5 DEF Next

\* The bus walks up once, never comes back from Shutdown, and holds its port from
\* before Initialized until Shutdown, for any clients and in spite of shutdowns
\* from two threads.
THEOREM ContractImplemented == Spec => ImplementsContract
<1>1. Init => Contract!ContractInit
  BY DEF Init, BusInit, Contract!ContractInit
<1>2. IInv /\ [Next]_allVars => [Contract!ContractNext]_Contract!contractVars
  BY NextRefines DEF ContractStep
<1> HIDE DEF Contract!ContractNext, Contract!contractVars, Contract!BringUp,
             Contract!OpenPort, Contract!Raise, Contract!BeginShutdown,
             Contract!FinishShutdown, Contract!AbandonPreInit
<1> QED
  BY <1>1, <1>2, IInvHolds, PTL DEF Spec, ImplementsContract, Contract!ContractSpec

-----------------------------------------------------------------------------
(* Without the timeout, the RT thread always works on a live bus.          *)

\* While the RT thread is inside an update, the main thread is idle or waits for
\* it, hence runs no call of the bus.
LEMMA MainWaitsForRt ==
    ASSUME IInv, pc[Rt] # "idle"
    PROVE  spinning /\ pc[Main] \in {"idle", "stop.joinRt"}
BY DEF IInv, RolesOK, ThreadsOK

\* Every step preserves RtInv as long as the service thread does not time out.
LEMMA NextPreservesRtInv ==
    ASSUME ~TimedOut, IInv, RtInv, [Next]_allVars
    PROVE  RtInv'
<1> USE DEF RtInv, DeviceLoops
<1> USE DEF IInv, TypeOK, BusTypeOK
<1>1. CASE MainCalls \/ MainSteps
  <2>1. pc[Rt] = "idle"
    BY <1>1, MainWaitsForRt
    DEF MainCalls, MainSteps, LifecycleStep, ShutdownStep, InitConfig, InitDevices,
        StartupHooks, StartupConfig, StartupPdo, ActivatePre, ActivateSet, ActivateWait,
        ActivatePost, ShutdownEntry, ShutdownInitialized, ShutdownPre, ShutdownSet,
        ShutdownWait, ShutdownClose, ShutdownPost
  <2>2. pc'[Rt] = pc[Rt] /\ pc'[Service] = pc[Service]
    BY <1>1
    DEF MainCalls, CallInitialize, CallStartup, CallActivate, CallShutdown, CallDestroy,
        MainSteps, LifecycleStep, ShutdownStep, InitConfig, InitDevices,
        StartupHooks, StartupConfig, StartupPdo, ActivatePre, ActivateSet, ActivateWait,
        ActivatePost, ShutdownEntry, ShutdownInitialized, ShutdownPre, ShutdownSet,
        ShutdownWait, ShutdownClose, ShutdownPost
  <2> QED BY <2>1, <2>2
<1>2. CASE MainReturns \/ Spin \/ StopBegins \/ StopJoinsRt \/ StopJoinsService
  BY <1>2 DEF MainReturns, Spin, StopBegins, StopJoinsRt, StopJoinsService
<1>3. ASSUME WorkerSteps(Rt)
      PROVE  RtInv'
  <2>1. CASE RtCheck(Rt)     BY <2>1 DEF RtCheck
  <2>2. CASE RtWrite(Rt)     BY <2>2 DEF RtWrite, UpdateThrows
  <2>3. CASE RtExchange(Rt)  BY <2>3 DEF RtExchange
  <2>4. CASE RtRead(Rt)      BY <2>4 DEF RtRead, UpdateThrows
  <2> QED BY <1>3, <2>1, <2>2, <2>3, <2>4 DEF WorkerSteps, RtStep
<1>4. ASSUME WorkerSteps(Service)
      PROVE  RtInv'
  <2>1. ServiceStep(Service)
    BY <1>4 DEF WorkerSteps, ShutdownStep, ShutdownEntry, ShutdownInitialized,
                ShutdownPre, ShutdownSet, ShutdownWait, ShutdownClose, ShutdownPost
  <2>2. CASE ServiceDecide(Service)   BY <2>2 DEF ServiceDecide, StartedTimer, TimedOut
  <2>3. CASE ServicePromote(Service)  BY <2>3 DEF ServicePromote
  <2>4. CASE ServiceCheck(Service) \/ ServiceSet(Service) \/ ServiceRead(Service)
    BY <2>4 DEF ServiceCheck, ServiceSet, ServiceRead
  <2>5. CASE \/ ServiceVerify(Service) \/ ServiceDiagnostics(Service)
             \/ ServicePorts(Service)
    BY <2>5 DEF ServiceVerify, ServiceDiagnostics, ServicePorts
  <2> QED BY <2>1, <2>2, <2>3, <2>4, <2>5 DEF ServiceStep
<1>5. ASSUME NEW w \in Workers,
             WorkerBegins(w) \/ WorkerStops(w) \/ WorkerSleeps(w) \/ WorkerEnds(w)
      PROVE  RtInv'
  BY <1>5 DEF WorkerBegins, WorkerStops, WorkerSleeps, WorkerEnds, Entry
<1>6. ASSUME NEW t \in Clients, Client(t)
      PROVE  RtInv'
  <2>1. UNCHANGED busVars /\ todo'[Rt] = todo[Rt]
        /\ pc'[Rt] = pc[Rt] /\ pc'[Service] = pc[Service]
    BY <1>6 DEF Client, ClientCallsBus, Call, ClientSteps, ClientStep, ClientReturns,
                MailboxLock, MailboxCheck, MailboxTransfer, OdCheck, OdLock, OdTransfer,
                RegisterCheck, RegisterIo, StateSet, StateWait, CheckState
  <2> QED BY <2>1
<1>7. CASE (Environment /\ UNCHANGED execVars) \/ Terminated \/ UNCHANGED allVars
  BY <1>7 DEF Environment, SlaveFollows, SlaveDrops, ActivationTimeElapses, Terminated
<1> QED
  BY <1>1, <1>2, <1>3, <1>4, <1>5, <1>6, <1>7 DEF Next, Worker

\* The activation timer is reset by activate(), when no worker runs.
LEMMA RestartsWithoutWorkers ==
    ASSUME IInv, TimedOut, [Next]_allVars, ~TimedOut'
    PROVE  RtInv'
<1>1. activationStart = "expired" /\ activationStart' # "expired"
  BY DEF TimedOut
<1>2. ASSUME NEW t, ShutdownStep(t)
      PROVE  FALSE
  BY <1>1, <1>2 DEF ShutdownStep, ShutdownEntry, ShutdownInitialized, ShutdownPre, ShutdownSet,
                    ShutdownWait, ShutdownClose, ShutdownPost, Hook, HookReturns, HookThrows
<1>3. ASSUME NEW w \in Workers, Worker(w)
      PROVE  FALSE
  <2>1. CASE RtStep(w)
    BY <1>1, <2>1 DEF RtStep, RtCheck, RtWrite, RtExchange, RtRead, UpdateThrows
  <2>2. CASE ServiceStep(w)
    BY <1>1, <2>2 DEF ServiceStep, ServiceCheck, ServiceDecide, ServiceSet, ServiceRead,
                      ServiceVerify, ServicePromote, ServiceDiagnostics, ServicePorts,
                      StartedTimer
  <2>3. CASE WorkerBegins(w) \/ WorkerStops(w) \/ WorkerSleeps(w) \/ WorkerEnds(w)
    BY <1>1, <2>3 DEF WorkerBegins, WorkerStops, WorkerSleeps, WorkerEnds
  <2> QED BY <1>2, <1>3, <2>1, <2>2, <2>3 DEF Worker, WorkerSteps
<1>4. ASSUME NEW t \in Clients, Client(t)
      PROVE  FALSE
  BY <1>1, <1>4 DEF Client, ClientCallsBus, Call, ClientSteps, ClientStep, ClientReturns,
                    MailboxLock, MailboxCheck, MailboxTransfer, OdCheck, OdLock, OdTransfer,
                    RegisterCheck, RegisterIo, StateSet, StateWait, CheckState
<1>5. MainCalls \/ MainSteps
  BY <1>1, <1>3, <1>4
  DEF Next, MainReturns, Spin, StopBegins, StopJoinsRt, StopJoinsService, Environment,
      SlaveFollows, SlaveDrops, ActivationTimeElapses, Terminated
<1>6. LifecycleStep(Main)
  BY <1>1, <1>2, <1>5
  DEF MainCalls, CallInitialize, CallStartup, CallActivate, CallShutdown, CallDestroy, MainSteps
<1>7. ActivatePre(Main)
  BY <1>1, <1>6
  DEF LifecycleStep, InitConfig, InitDevices, StartupHooks, StartupConfig, StartupPdo,
      ActivateSet, ActivateWait, CheckState, ActivatePost, Hook, HookReturns, HookThrows
<1>8. pc[Main] = "activate.pre" /\ pc'[Rt] = pc[Rt] /\ pc'[Service] = pc[Service]
  BY <1>1, <1>7 DEF ActivatePre, Hook, HookReturns, HookThrows, IInv, TypeOK, BusTypeOK
<1>9. pc[Rt] = "idle" /\ pc[Service] = "idle"
  BY <1>8, MainWaitsForRt DEF IInv, RolesOK, ThreadsOK
<1> QED BY <1>8, <1>9 DEF RtInv, DeviceLoops

\* Unless the activation has timed out, the RT thread never iterates over devices the bus
\* has dropped and never sends on a closed port.
THEOREM RtSafeUntilTimeout == Spec => []RtUsesLiveBusUntilTimeout
<1> DEFINE Inv == TimedOut \/ RtInv
<1>1. Init => Inv
  BY DEF Init, BusInit, RtInv, DeviceLoops
<1>2. IInv /\ Inv /\ [Next]_allVars => Inv'
  BY NextPreservesRtInv, RestartsWithoutWorkers
<1>3. IInv /\ Inv => RtUsesLiveBusUntilTimeout
  <2> SUFFICES ASSUME IInv, RtInv
               PROVE  RtUsesLiveBus
    BY DEF RtUsesLiveBusUntilTimeout
  <2>1. \A t \in Threads : pc[t] \in RtLabels \ {"rt.check"} => t = Rt
    BY DEF IInv, RolesOK
  <2>2. pc[Rt] \in RtLabels \ {"rt.check"} => port = "open"
    BY DEF IInv, PortOK, RtInv
  <2> QED BY <2>1, <2>2 DEF RtInv, RtUsesLiveBus, PortOpenAt
<1> QED BY <1>1, <1>2, <1>3, IInvHolds, PTL DEF Spec

\* With timeout_transition_operational = 0 it never does at all.
THEOREM RtSafeWithoutTimeout == ~TimeoutEnabled => (Spec => []RtUsesLiveBus)
<1> SUFFICES ASSUME ~TimeoutEnabled
             PROVE  Spec => []RtUsesLiveBus
  OBVIOUS
<1>1. RtUsesLiveBusUntilTimeout => RtUsesLiveBus
  BY DEF RtUsesLiveBusUntilTimeout, TimedOut
<1> QED BY <1>1, RtSafeUntilTimeout, PTL

-----------------------------------------------------------------------------
(* Without change_device_state() calls, Operational means confirmed.       *)

\* Every step preserves ConfirmInv when no client requests device states: between
\* the read of the slave states and the verification only slaves move.
LEMMA NextPreservesConfirmInv ==
    ASSUME "state.set" \notin ClientCalls, IInv, ConfirmInv, [Next]_allVars
    PROVE  ConfirmInv'
<1> USE DEF ConfirmInv
<1> USE DEF IInv, TypeOK, BusTypeOK
<1>1. ASSUME NEW t \in {Main, Service}, t = Main => pc[Service] = "idle", ShutdownStep(t)
      PROVE  ConfirmInv'
  <2>1. CASE ShutdownEntry(t)        BY <1>1, <2>1 DEF ShutdownEntry
  <2>2. CASE ShutdownInitialized(t)  BY <1>1, <2>2 DEF ShutdownInitialized
  <2>3. CASE ShutdownPre(t)          BY <1>1, <2>3 DEF ShutdownPre
  <2>4. CASE ShutdownSet(t)          BY <1>1, <2>4 DEF ShutdownSet
  <2>5. CASE ShutdownWait(t)         BY <1>1, <2>5 DEF ShutdownWait
  <2>6. CASE ShutdownClose(t)        BY <1>1, <2>6 DEF ShutdownClose
  <2>7. CASE ShutdownPost(t)         BY <1>1, <2>7 DEF ShutdownPost
  <2> QED BY <1>1, <2>1, <2>2, <2>3, <2>4, <2>5, <2>6, <2>7 DEF ShutdownStep
<1>2. CASE MainCalls
  <2>1. pc[Service] = "idle"
    BY <1>2 DEF MainCalls, ThreadsOK
  <2> QED BY <1>2, <2>1 DEF MainCalls, CallInitialize, CallStartup, CallActivate,
                            CallShutdown, CallDestroy
<1>3. CASE MainSteps
  <2>1. pc[Service] = "idle" /\ (LifecycleStep(Main) \/ ShutdownStep(Main))
    BY <1>3
    DEF ThreadsOK, MainSteps, LifecycleStep, ShutdownStep, InitConfig, InitDevices,
        StartupHooks, StartupConfig, StartupPdo, ActivatePre, ActivateSet, ActivateWait,
        ActivatePost, ShutdownEntry, ShutdownInitialized, ShutdownPre, ShutdownSet,
        ShutdownWait, ShutdownClose, ShutdownPost
  <2>2. CASE ShutdownStep(Main)
    BY <1>1, <2>1, <2>2
  <2>3. CASE InitConfig(Main)     BY <2>1, <2>3 DEF InitConfig, StateAtLabel
  <2>4. CASE InitDevices(Main)    BY <2>1, <2>4 DEF InitDevices, StateAtLabel
  <2>5. CASE StartupConfig(Main)  BY <2>1, <2>5 DEF StartupConfig
  <2>6. CASE ActivateSet(Main)    BY <2>1, <2>6 DEF ActivateSet
  <2>7. CASE ActivateWait(Main)   BY <2>1, <2>7 DEF ActivateWait, CheckState
  <2>8. CASE \/ StartupHooks(Main) \/ StartupPdo(Main) \/ ActivatePre(Main)
             \/ ActivatePost(Main)
    BY <2>1, <2>8 DEF StartupHooks, StartupPdo, ActivatePre, ActivatePost
  <2> QED BY <2>1, <2>2, <2>3, <2>4, <2>5, <2>6, <2>7, <2>8 DEF LifecycleStep
<1>4. CASE MainReturns \/ Spin \/ StopBegins \/ StopJoinsRt \/ StopJoinsService
  BY <1>4 DEF MainReturns, Spin, StopBegins, StopJoinsRt, StopJoinsService
<1>5. ASSUME WorkerSteps(Rt)
      PROVE  ConfirmInv'
  BY <1>5 DEF WorkerSteps, RtStep, RtCheck, RtWrite, RtExchange, RtRead, UpdateThrows
<1>6. ASSUME WorkerSteps(Service)
      PROVE  ConfirmInv'
  <2>1. CASE ShutdownStep(Service)
    BY <1>1, <2>1
  <2>2. CASE ServiceSet(Service)          BY <2>2 DEF ServiceSet
  <2>3. CASE ServiceRead(Service)         BY <2>3 DEF ServiceRead
  <2>4. CASE ServiceVerify(Service)       BY <2>4 DEF ServiceVerify
  <2>5. CASE ServicePromote(Service)      BY <2>5 DEF ServicePromote
  <2>6. CASE ServiceDiagnostics(Service)  BY <2>6 DEF ServiceDiagnostics
  <2>7. CASE \/ ServiceCheck(Service) \/ ServiceDecide(Service) \/ ServicePorts(Service)
    BY <2>7 DEF ServiceCheck, ServiceDecide, ServicePorts
  <2> QED BY <1>6, <2>1, <2>2, <2>3, <2>4, <2>5, <2>6, <2>7 DEF WorkerSteps, ServiceStep
<1>7. ASSUME NEW w \in Workers,
             WorkerBegins(w) \/ WorkerStops(w) \/ WorkerSleeps(w) \/ WorkerEnds(w)
      PROVE  ConfirmInv'
  BY <1>7 DEF WorkerBegins, WorkerStops, WorkerSleeps, WorkerEnds, Entry
<1>8. ASSUME NEW t \in Clients, Client(t)
      PROVE  ConfirmInv'
  <2>1. pc[t] \notin StateLabels
    BY <1>8
  <2>2. UNCHANGED <<busVars, slaveVars>> /\ todo'[Service] = todo[Service]
        /\ pc'[Service] = pc[Service]
        /\ \A u \in Clients : pc'[u] = pc[u] \/ pc'[u] \notin StateLabels
    BY <1>8, <2>1, ClientCallsAssumption
    DEF Client, ClientCallsBus, Call, ClientSteps, ClientStep, ClientReturns,
        MailboxLock, MailboxCheck, MailboxTransfer, OdCheck, OdLock, OdTransfer,
        RegisterCheck, RegisterIo, StateSet, StateWait, CheckState
  <2> QED BY <2>2
<1>9. CASE (Environment /\ UNCHANGED execVars) \/ Terminated \/ UNCHANGED allVars
  BY <1>9 DEF Environment, SlaveFollows, SlaveDrops, ActivationTimeElapses, Terminated
<1> QED
  BY <1>2, <1>3, <1>4, <1>5, <1>6, <1>7, <1>8, <1>9 DEF Next, Worker

\* As long as no client requests device states beside the service thread, a bus
\* that calls itself Operational has seen every one of its devices OPERATIONAL.
THEOREM OperationalConfirmed ==
    "state.set" \notin ClientCalls => (Spec => []OperationalIsConfirmed)
<1> SUFFICES ASSUME "state.set" \notin ClientCalls
             PROVE  Spec => []OperationalIsConfirmed
  OBVIOUS
<1>1. Init => ConfirmInv
  BY DEF Init, BusInit, ConfirmInv
<1>2. IInv /\ ConfirmInv /\ [Next]_allVars => ConfirmInv'
  BY NextPreservesConfirmInv
<1>3. ConfirmInv => OperationalIsConfirmed
  BY DEF ConfirmInv, OperationalIsConfirmed
<1> QED BY <1>1, <1>2, <1>3, IInvHolds, PTL DEF Spec
=============================================================================
