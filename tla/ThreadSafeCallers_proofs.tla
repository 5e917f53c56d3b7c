----------------------- MODULE ThreadSafeCallers_proofs -----------------------
(***************************************************************************)
(* Proofs about ThreadSafeCallers, for any number of devices and of        *)
(* callers.  That frames are exchanged one at a time needs the first three *)
(* parts of the inductive invariant and nothing else.  That the bus        *)
(* becomes Operational by confirmation only, and that it implements        *)
(* BusContract, needs the others, too, and the assumption that one thread  *)
(* calls update_service().                                                 *)
(***************************************************************************)
EXTENDS ThreadSafeCallers, TLAPS

USE CallersAssumption, NoThreadAssumption, OptionsAssumption

\* The vocabulary every step is written in: control flow, labels, variable tuples.
USE DEF At, Goto, Return, LoopOverDevices, Visit, LoopDone, LeaveShutdown,
        ShutdownAndThrow, HookReturns, HookThrows, Hook, RequestState, ReadStates,
        PdoMutexFree, MailboxMutexFree, AllMutexesFree, RtMayRun, AwaitsOperational,
        StartedTimer
USE DEF Results, InitLabels, StartupLabels, ActivateLabels, ShutdownLabels, RtLabels,
        ServiceLabels, MailboxLabels, OdLabels, RegisterLabels, StateLabels, BusLabels,
        PdoSections
USE DEF vars, busVars, lockVars, slaveVars, callVars
USE DEF SlaveStates, Contract!BusStates, Contract!UpStates

-----------------------------------------------------------------------------
(* Types, roles and the owner of the frame.                                *)

\* The part of IInv that holds for any number of service callers.
FrameInv == TypeOK /\ RolesOK /\ FrameOK

\* FrameInv holds initially: every thread is idle.
LEMMA InitEstablishesFrameInv == BusInit => FrameInv
BY DEF BusInit, FrameInv, TypeOK, BusTypeOK, RolesOK, FrameOK

\* A shutdown preserves FrameInv, run by the main thread or a service caller.
LEMMA ShutdownPreservesFrameInv ==
    ASSUME FrameInv, NEW t \in {Main} \cup ServiceCallers, ShutdownStep(t)
    PROVE  FrameInv'
<1> USE DEF FrameInv, TypeOK, BusTypeOK, RolesOK, FrameOK
<1>1. CASE ShutdownEntry(t)        BY <1>1 DEF ShutdownEntry
<1>2. CASE ShutdownInitialized(t)  BY <1>2 DEF ShutdownInitialized
<1>3. CASE ShutdownPre(t)          BY <1>3 DEF ShutdownPre
<1>4. CASE ShutdownSet(t)          BY <1>4 DEF ShutdownSet
<1>5. CASE ShutdownWait(t)         BY <1>5 DEF ShutdownWait
<1>6. CASE ShutdownClose(t)        BY <1>6 DEF ShutdownClose
<1>7. CASE ShutdownPost(t)         BY <1>7 DEF ShutdownPost
<1> QED BY <1>1, <1>2, <1>3, <1>4, <1>5, <1>6, <1>7 DEF ShutdownStep

\* The bring-up preserves FrameInv.
LEMMA MainPreservesFrameInv ==
    ASSUME FrameInv, MainStep
    PROVE  FrameInv'
<1> USE DEF FrameInv, TypeOK, BusTypeOK, RolesOK, FrameOK
<1>1. CASE CallInitialize(Main)  BY <1>1 DEF CallInitialize
<1>2. CASE CallStartup(Main)     BY <1>2 DEF CallStartup
<1>3. CASE CallActivate(Main)    BY <1>3 DEF CallActivate
<1>4. CASE InitConfig(Main)      BY <1>4 DEF InitConfig
<1>5. CASE InitDevices(Main)     BY <1>5 DEF InitDevices
<1>6. CASE StartupHooks(Main)    BY <1>6 DEF StartupHooks
<1>7. CASE StartupConfig(Main)   BY <1>7 DEF StartupConfig
<1>8. CASE StartupPdo(Main)      BY <1>8 DEF StartupPdo
<1>9. CASE ActivatePre(Main)     BY <1>9 DEF ActivatePre
<1>10. CASE ActivateSet(Main)    BY <1>10 DEF ActivateSet
<1>11. CASE ActivateWait(Main)   BY <1>11 DEF ActivateWait, CheckState
<1>12. CASE ActivatePost(Main)   BY <1>12 DEF ActivatePost
<1> QED
  BY <1>1, <1>2, <1>3, <1>4, <1>5, <1>6, <1>7, <1>8, <1>9, <1>10, <1>11, <1>12,
     ShutdownPreservesFrameInv DEF MainStep, LifecycleStep

\* update_rt() preserves FrameInv: the frame is sent by the owner of the mutex.
LEMMA RtPreservesFrameInv ==
    ASSUME FrameInv, NEW t \in RtCallers, RtStep(t)
    PROVE  FrameInv'
<1> USE DEF FrameInv, TypeOK, BusTypeOK, RolesOK, FrameOK
<1>1. CASE RtCheck(t)     BY <1>1 DEF RtCheck
<1>2. CASE RtWrite(t)     BY <1>2 DEF RtWrite, UpdateThrows
<1>3. CASE RtExchange(t)  BY <1>3 DEF RtExchange
<1>4. CASE RtRead(t)      BY <1>4 DEF RtRead, UpdateThrows
<1> QED BY <1>1, <1>2, <1>3, <1>4 DEF RtStep

\* update_service() preserves FrameInv.
LEMMA ServicePreservesFrameInv ==
    ASSUME FrameInv, NEW t \in ServiceCallers, ServiceStep(t)
    PROVE  FrameInv'
<1> USE DEF FrameInv, TypeOK, BusTypeOK, RolesOK, FrameOK
<1>1. CASE ServiceCheck(t)        BY <1>1 DEF ServiceCheck
<1>2. CASE ServiceDecide(t)       BY <1>2 DEF ServiceDecide
<1>3. CASE ServiceSet(t)          BY <1>3 DEF ServiceSet
<1>4. CASE ServiceRead(t)         BY <1>4 DEF ServiceRead
<1>5. CASE ServiceVerify(t)       BY <1>5 DEF ServiceVerify
<1>6. CASE ServicePromote(t)      BY <1>6 DEF ServicePromote
<1>7. CASE ServiceDiagnostics(t)  BY <1>7 DEF ServiceDiagnostics
<1>8. CASE ServicePorts(t)        BY <1>8 DEF ServicePorts
<1> QED BY <1>1, <1>2, <1>3, <1>4, <1>5, <1>6, <1>7, <1>8 DEF ServiceStep

\* Every step preserves FrameInv.
LEMMA NextPreservesFrameInv == FrameInv /\ [Next]_vars => FrameInv'
<1> SUFFICES ASSUME FrameInv, [Next]_vars
             PROVE  FrameInv'
  OBVIOUS
<1>1. ASSUME NEW t \in RtCallers, CallerStep(t, "rt.check")
      PROVE  FrameInv'
  <2>1. CASE Call(t, "rt.check")
    BY <2>1 DEF Call, FrameInv, TypeOK, BusTypeOK, RolesOK, FrameOK
  <2>2. ~ServiceStep(t)
    BY DEF FrameInv, RolesOK, ServiceStep, ServiceCheck, ServiceDecide, ServiceSet,
           ServiceRead, ServiceVerify, ServicePromote, ServiceDiagnostics, ServicePorts
  <2> QED BY <1>1, <2>1, <2>2, RtPreservesFrameInv DEF CallerStep
<1>2. ASSUME NEW t \in ServiceCallers, CallerStep(t, "sv.check")
      PROVE  FrameInv'
  <2>1. CASE Call(t, "sv.check")
    BY <2>1 DEF Call, FrameInv, TypeOK, BusTypeOK, RolesOK, FrameOK
  <2>2. ~RtStep(t)
    BY DEF FrameInv, RolesOK, RtStep, RtCheck, RtWrite, RtExchange, RtRead, UpdateThrows
  <2> QED
    BY <1>2, <2>1, <2>2, ServicePreservesFrameInv, ShutdownPreservesFrameInv
    DEF CallerStep
<1>3. ASSUME NEW t \in Threads, Returns(t)
      PROVE  FrameInv'
  BY <1>3 DEF Returns, FrameInv, TypeOK, BusTypeOK, RolesOK, FrameOK
<1>4. CASE Environment \/ UNCHANGED vars
  BY <1>4 DEF Environment, SlaveFollows, SlaveDrops, ActivationTimeElapses,
              FrameInv, TypeOK, BusTypeOK, RolesOK, FrameOK
<1> QED BY <1>1, <1>2, <1>3, <1>4, MainPreservesFrameInv DEF Next

\* FrameInv in every reachable state.
LEMMA FrameInvHolds == Spec => []FrameInv
BY InitEstablishesFrameInv, NextPreservesFrameInv, PTL DEF Spec

\* However many threads call update_rt(), two of them are never between the send and
\* the receive of a frame, so that none receives the answer to another's frame.
THEOREM OneFrame == Spec => []OneFrameAtATime
<1>1. FrameInv => OneFrameAtATime
  BY DEF FrameInv, FrameOK, OneFrameAtATime
<1> QED BY <1>1, FrameInvHolds, PTL

\* A step leaves the port as it is, opens it, or closes it while both mutexes are free.
ClosesUnderLocks == port' \in {port, "open"} \/ AllMutexesFree

\* The port is closed by shutdown() alone, under its scoped_lock.
LEMMA NextClosesUnderLocks == [Next]_vars => ClosesUnderLocks
<1> SUFFICES ASSUME [Next]_vars PROVE ClosesUnderLocks  OBVIOUS
<1> USE DEF ClosesUnderLocks
<1>1. ASSUME NEW t, ShutdownStep(t)
      PROVE  ClosesUnderLocks
  <2>1. CASE ShutdownInitialized(t) \/ ShutdownClose(t)
    BY <2>1 DEF ShutdownInitialized, ShutdownClose
  <2>2. CASE \/ ShutdownEntry(t) \/ ShutdownPre(t) \/ ShutdownSet(t) \/ ShutdownWait(t)
             \/ ShutdownPost(t)
    BY <2>2 DEF ShutdownEntry, ShutdownPre, ShutdownSet, ShutdownWait, ShutdownPost
  <2> QED BY <1>1, <2>1, <2>2 DEF ShutdownStep
<1>2. ASSUME NEW t, RtStep(t) \/ ServiceStep(t)
      PROVE  ClosesUnderLocks
  <2>1. CASE RtStep(t)  BY <2>1 DEF RtStep, RtCheck, RtWrite, RtExchange, RtRead, UpdateThrows
  <2>2. CASE ServiceStep(t)
    BY <2>2 DEF ServiceStep, ServiceCheck, ServiceDecide, ServiceSet, ServiceRead,
                ServiceVerify, ServicePromote, ServiceDiagnostics, ServicePorts
  <2> QED BY <1>2, <2>1, <2>2
<1>3. CASE MainStep
  <2>1. CASE CallInitialize(Main) \/ CallStartup(Main) \/ CallActivate(Main)
    BY <2>1 DEF CallInitialize, CallStartup, CallActivate
  <2>2. CASE LifecycleStep(Main)
    BY <2>2 DEF LifecycleStep, InitConfig, InitDevices, StartupHooks, StartupConfig,
                StartupPdo, ActivatePre, ActivateSet, ActivateWait, CheckState, ActivatePost
  <2> QED BY <1>1, <1>3, <2>1, <2>2 DEF MainStep
<1>4. ASSUME NEW t, NEW entry, CallerStep(t, entry)
      PROVE  ClosesUnderLocks
  BY <1>1, <1>2, <1>4 DEF CallerStep, Call
<1>5. CASE (\E t \in Threads : Returns(t)) \/ Environment \/ UNCHANGED vars
  BY <1>5 DEF Returns, Environment, SlaveFollows, SlaveDrops, ActivationTimeElapses
<1> QED BY <1>3, <1>4, <1>5 DEF Next

\* NoTransferIsCutOff: also when the activation timeout makes a service caller shut the bus
\* down, it waits for the frame of the update_rt() that runs beside it, for any number of
\* callers of both.
THEOREM TransfersComplete == Spec => NoTransferIsCutOff
<1> DEFINE Kept == port = "open" /\ port' = "closed" =>
                     \A t \in Threads : pc[t] \notin {"rt.exchange", "mbx.transfer", "od.transfer"}
<1>1. FrameInv /\ [Next]_vars => [Kept]_vars
  <2> SUFFICES ASSUME FrameInv, [Next]_vars, port = "open", port' = "closed", NEW t \in Threads
               PROVE  pc[t] \notin {"rt.exchange", "mbx.transfer", "od.transfer"}
    OBVIOUS
  <2>1. AllMutexesFree  BY NextClosesUnderLocks DEF ClosesUnderLocks
  <2>2. pdoHolder # t  BY <2>1
  <2>3. pc[t] \notin {"mbx.transfer", "od.transfer"}  BY DEF FrameInv, RolesOK
  <2> QED BY <2>2, <2>3 DEF FrameInv, FrameOK
<1> QED BY <1>1, FrameInvHolds, PTL DEF Spec, NoTransferIsCutOff

-----------------------------------------------------------------------------
(* Confirmation, with one service caller.                                  *)

\* Two threads in update_service() overwrite the states each other verifies.
OneServiceCaller == \A s, u \in ServiceCallers : s = u

USE DEF EarlyStates, BringsUpOrDown

\* The layer of IInv above FrameInv.
ConfirmInv == BringUpIsAlone /\ ConfirmOK

\* ConfirmInv holds initially: nothing is managed and nobody has begun an update.
LEMMA InitEstablishesConfirmInv == BusInit => ConfirmInv
BY DEF BusInit, ConfirmInv, BringUpIsAlone, ConfirmOK

\* A shutdown of the main thread or a service caller preserves ConfirmInv.
LEMMA ShutdownPreservesConfirmInv ==
    ASSUME FrameInv, ConfirmInv, NEW t \in {Main} \cup ServiceCallers, ShutdownStep(t)
    PROVE  ConfirmInv'
<1> USE DEF FrameInv, TypeOK, BusTypeOK, RolesOK, ConfirmInv, BringUpIsAlone, ConfirmOK
<1>1. CASE ShutdownEntry(t)        BY <1>1 DEF ShutdownEntry
<1>2. CASE ShutdownInitialized(t)  BY <1>2 DEF ShutdownInitialized
<1>3. CASE ShutdownPre(t)          BY <1>3 DEF ShutdownPre
<1>4. CASE ShutdownSet(t)          BY <1>4 DEF ShutdownSet
<1>5. CASE ShutdownWait(t)         BY <1>5 DEF ShutdownWait
<1>6. CASE ShutdownClose(t)        BY <1>6 DEF ShutdownClose
<1>7. CASE ShutdownPost(t)         BY <1>7 DEF ShutdownPost
<1> QED BY <1>1, <1>2, <1>3, <1>4, <1>5, <1>6, <1>7 DEF ShutdownStep

\* The bring-up preserves ConfirmInv: no service update is under way beside it.
LEMMA MainPreservesConfirmInv ==
    ASSUME FrameInv, ConfirmInv, MainStep
    PROVE  ConfirmInv'
<1> USE DEF FrameInv, TypeOK, BusTypeOK, RolesOK, ConfirmInv, BringUpIsAlone, ConfirmOK
<1>1. CASE CallInitialize(Main)  BY <1>1 DEF CallInitialize
<1>2. CASE CallStartup(Main)     BY <1>2 DEF CallStartup
<1>3. CASE CallActivate(Main)    BY <1>3 DEF CallActivate
<1>4. CASE InitConfig(Main)      BY <1>4 DEF InitConfig
<1>5. CASE InitDevices(Main)     BY <1>5 DEF InitDevices
<1>6. CASE StartupHooks(Main)    BY <1>6 DEF StartupHooks
<1>7. CASE StartupConfig(Main)   BY <1>7 DEF StartupConfig
<1>8. CASE StartupPdo(Main)      BY <1>8 DEF StartupPdo
<1>9. CASE ActivatePre(Main)     BY <1>9 DEF ActivatePre
<1>10. CASE ActivateSet(Main)    BY <1>10 DEF ActivateSet
<1>11. CASE ActivateWait(Main)   BY <1>11 DEF ActivateWait, CheckState
<1>12. CASE ActivatePost(Main)   BY <1>12 DEF ActivatePost
<1> QED
  BY <1>1, <1>2, <1>3, <1>4, <1>5, <1>6, <1>7, <1>8, <1>9, <1>10, <1>11, <1>12,
     ShutdownPreservesConfirmInv DEF MainStep, LifecycleStep

\* update_rt() touches nothing ConfirmInv speaks of.
LEMMA RtPreservesConfirmInv ==
    ASSUME FrameInv, ConfirmInv, NEW t \in RtCallers, RtStep(t)
    PROVE  ConfirmInv'
<1>1. UNCHANGED <<busVars, slaveVars>>
  BY DEF RtStep, RtCheck, RtWrite, RtExchange, RtRead, UpdateThrows
<1>2. \A u \in Threads \ {t} : pc'[u] = pc[u] /\ todo'[u] = todo[u]
  BY DEF RtStep, RtCheck, RtWrite, RtExchange, RtRead, UpdateThrows, FrameInv, TypeOK, BusTypeOK
<1> QED
  BY <1>1, <1>2 DEF ConfirmInv, BringUpIsAlone, ConfirmOK

\* update_service() preserves ConfirmInv: the cache it verifies was read in the same
\* update, while nobody else wrote to it.
LEMMA ServicePreservesConfirmInv ==
    ASSUME FrameInv, ConfirmInv, OneServiceCaller,
           NEW t \in ServiceCallers, ServiceStep(t)
    PROVE  ConfirmInv'
<1> USE DEF FrameInv, TypeOK, BusTypeOK, RolesOK, ConfirmInv, BringUpIsAlone, ConfirmOK,
            OneServiceCaller
<1>1. CASE ServiceCheck(t)        BY <1>1 DEF ServiceCheck
<1>2. CASE ServiceDecide(t)       BY <1>2 DEF ServiceDecide
<1>3. CASE ServiceSet(t)          BY <1>3 DEF ServiceSet
<1>4. CASE ServiceRead(t)         BY <1>4 DEF ServiceRead
<1>5. CASE ServiceVerify(t)       BY <1>5 DEF ServiceVerify
<1>6. CASE ServicePromote(t)      BY <1>6 DEF ServicePromote
<1>7. CASE ServiceDiagnostics(t)  BY <1>7 DEF ServiceDiagnostics
<1>8. CASE ServicePorts(t)        BY <1>8 DEF ServicePorts
<1> QED BY <1>1, <1>2, <1>3, <1>4, <1>5, <1>6, <1>7, <1>8 DEF ServiceStep

\* Every step preserves ConfirmInv.
LEMMA NextPreservesConfirmInv ==
    ASSUME FrameInv, ConfirmInv, OneServiceCaller, [Next]_vars
    PROVE  ConfirmInv'
<1>1. ASSUME NEW t \in RtCallers, CallerStep(t, "rt.check")
      PROVE  ConfirmInv'
  <2>1. CASE Call(t, "rt.check")
    BY <2>1 DEF Call, FrameInv, TypeOK, BusTypeOK, RolesOK, ConfirmInv, BringUpIsAlone,
                ConfirmOK
  <2>2. ~ServiceStep(t)
    BY DEF FrameInv, RolesOK, ServiceStep, ServiceCheck, ServiceDecide, ServiceSet,
           ServiceRead, ServiceVerify, ServicePromote, ServiceDiagnostics, ServicePorts
  <2> QED BY <1>1, <2>1, <2>2, RtPreservesConfirmInv DEF CallerStep
<1>2. ASSUME NEW t \in ServiceCallers, CallerStep(t, "sv.check")
      PROVE  ConfirmInv'
  <2>1. CASE busState \notin EarlyStates /\ Call(t, "sv.check")
    BY <2>1 DEF Call, FrameInv, TypeOK, BusTypeOK, RolesOK, ConfirmInv, BringUpIsAlone,
                ConfirmOK
  <2>2. ~RtStep(t)
    BY DEF FrameInv, RolesOK, RtStep, RtCheck, RtWrite, RtExchange, RtRead, UpdateThrows
  <2> QED
    BY <1>2, <2>1, <2>2, ServicePreservesConfirmInv, ShutdownPreservesConfirmInv
    DEF CallerStep
<1>3. ASSUME NEW t \in Threads, Returns(t)
      PROVE  ConfirmInv'
  BY <1>3 DEF Returns, FrameInv, TypeOK, BusTypeOK, RolesOK, ConfirmInv, BringUpIsAlone,
              ConfirmOK
<1>4. CASE Environment \/ UNCHANGED vars
  BY <1>4 DEF Environment, SlaveFollows, SlaveDrops, ActivationTimeElapses,
              FrameInv, TypeOK, BusTypeOK, ConfirmInv, BringUpIsAlone, ConfirmOK
<1> QED BY <1>1, <1>2, <1>3, <1>4, MainPreservesConfirmInv DEF Next

-----------------------------------------------------------------------------
(* The bus state at each label and the port, with one service caller.      *)

\* The layer of IInv above ConfirmInv.
WireInv == StateAtLabel /\ PortOK

\* WireInv holds initially: every thread is idle, and the bus is PreInit.
LEMMA InitEstablishesWireInv == BusInit => WireInv
BY DEF BusInit, WireInv, StateAtLabel, PortOK

\* A shutdown preserves WireInv: it is run by one thread at a time, while no update is
\* beyond its check.
LEMMA ShutdownPreservesWireInv ==
    ASSUME FrameInv, ConfirmInv, WireInv, OneServiceCaller,
           NEW t \in {Main} \cup ServiceCallers, ShutdownStep(t)
    PROVE  WireInv'
<1> USE DEF FrameInv, TypeOK, BusTypeOK, RolesOK, ConfirmInv, BringUpIsAlone, WireInv,
            StateAtLabel, PortOK, OneServiceCaller
<1>1. CASE ShutdownEntry(t)        BY <1>1 DEF ShutdownEntry
<1>2. CASE ShutdownInitialized(t)  BY <1>2 DEF ShutdownInitialized
<1>3. CASE ShutdownPre(t)          BY <1>3 DEF ShutdownPre
<1>4. CASE ShutdownSet(t)          BY <1>4 DEF ShutdownSet
<1>5. CASE ShutdownWait(t)         BY <1>5 DEF ShutdownWait
<1>6. CASE ShutdownClose(t)        BY <1>6 DEF ShutdownClose
<1>7. CASE ShutdownPost(t)         BY <1>7 DEF ShutdownPost
<1> QED BY <1>1, <1>2, <1>3, <1>4, <1>5, <1>6, <1>7 DEF ShutdownStep

\* The bring-up preserves WireInv.
LEMMA MainPreservesWireInv ==
    ASSUME FrameInv, ConfirmInv, WireInv, OneServiceCaller, MainStep
    PROVE  WireInv'
<1> USE DEF FrameInv, TypeOK, BusTypeOK, RolesOK, ConfirmInv, BringUpIsAlone, WireInv,
            StateAtLabel, PortOK, OneServiceCaller
<1>1. CASE CallInitialize(Main)  BY <1>1 DEF CallInitialize
<1>2. CASE CallStartup(Main)     BY <1>2 DEF CallStartup
<1>3. CASE CallActivate(Main)    BY <1>3 DEF CallActivate
<1>4. CASE InitConfig(Main)      BY <1>4 DEF InitConfig
<1>5. CASE InitDevices(Main)     BY <1>5 DEF InitDevices
<1>6. CASE StartupHooks(Main)    BY <1>6 DEF StartupHooks
<1>7. CASE StartupConfig(Main)   BY <1>7 DEF StartupConfig
<1>8. CASE StartupPdo(Main)      BY <1>8 DEF StartupPdo
<1>9. CASE ActivatePre(Main)     BY <1>9 DEF ActivatePre
<1>10. CASE ActivateSet(Main)    BY <1>10 DEF ActivateSet
<1>11. CASE ActivateWait(Main)   BY <1>11 DEF ActivateWait, CheckState
<1>12. CASE ActivatePost(Main)   BY <1>12 DEF ActivatePost
<1> QED
  BY <1>1, <1>2, <1>3, <1>4, <1>5, <1>6, <1>7, <1>8, <1>9, <1>10, <1>11, <1>12,
     ShutdownPreservesWireInv DEF MainStep, LifecycleStep

\* update_service() preserves WireInv: while it pushes the devices the bus stays Activated.
LEMMA ServicePreservesWireInv ==
    ASSUME FrameInv, ConfirmInv, WireInv, OneServiceCaller,
           NEW t \in ServiceCallers, ServiceStep(t)
    PROVE  WireInv'
<1> USE DEF FrameInv, TypeOK, BusTypeOK, RolesOK, ConfirmInv, BringUpIsAlone, WireInv,
            StateAtLabel, PortOK, OneServiceCaller
<1>1. CASE ServiceCheck(t)        BY <1>1 DEF ServiceCheck
<1>2. CASE ServiceDecide(t)       BY <1>2 DEF ServiceDecide
<1>3. CASE ServiceSet(t)          BY <1>3 DEF ServiceSet
<1>4. CASE ServiceRead(t)         BY <1>4 DEF ServiceRead
<1>5. CASE ServiceVerify(t)       BY <1>5 DEF ServiceVerify
<1>6. CASE ServicePromote(t)      BY <1>6 DEF ServicePromote
<1>7. CASE ServiceDiagnostics(t)  BY <1>7 DEF ServiceDiagnostics
<1>8. CASE ServicePorts(t)        BY <1>8 DEF ServicePorts
<1> QED BY <1>1, <1>2, <1>3, <1>4, <1>5, <1>6, <1>7, <1>8 DEF ServiceStep

\* update_rt() runs beside everything else and leaves bus state and port alone.
LEMMA RtPreservesWireInv ==
    ASSUME FrameInv, WireInv, NEW t \in RtCallers, RtStep(t)
    PROVE  WireInv'
<1>1. UNCHANGED busVars /\ \A u \in Threads \ {t} : pc'[u] = pc[u]
  BY DEF RtStep, RtCheck, RtWrite, RtExchange, RtRead, UpdateThrows, FrameInv, TypeOK, BusTypeOK
<1> QED BY <1>1 DEF WireInv, StateAtLabel, PortOK

\* Every step preserves WireInv.
LEMMA NextPreservesWireInv ==
    ASSUME FrameInv, ConfirmInv, WireInv, OneServiceCaller, [Next]_vars
    PROVE  WireInv'
<1>1. ASSUME NEW t \in RtCallers, CallerStep(t, "rt.check")
      PROVE  WireInv'
  <2>1. CASE Call(t, "rt.check")
    BY <2>1 DEF Call, FrameInv, TypeOK, BusTypeOK, RolesOK, WireInv, StateAtLabel, PortOK
  <2>2. ~ServiceStep(t)
    BY DEF FrameInv, RolesOK, ServiceStep, ServiceCheck, ServiceDecide, ServiceSet,
           ServiceRead, ServiceVerify, ServicePromote, ServiceDiagnostics, ServicePorts
  <2> QED BY <1>1, <2>1, <2>2, RtPreservesWireInv DEF CallerStep
<1>2. ASSUME NEW t \in ServiceCallers, CallerStep(t, "sv.check")
      PROVE  WireInv'
  <2>1. CASE Call(t, "sv.check")
    BY <2>1 DEF Call, FrameInv, TypeOK, BusTypeOK, RolesOK, WireInv, StateAtLabel, PortOK
  <2>2. ~RtStep(t)
    BY DEF FrameInv, RolesOK, RtStep, RtCheck, RtWrite, RtExchange, RtRead, UpdateThrows
  <2> QED
    BY <1>2, <2>1, <2>2, ServicePreservesWireInv, ShutdownPreservesWireInv DEF CallerStep
<1>3. ASSUME NEW t \in Threads, Returns(t)
      PROVE  WireInv'
  BY <1>3 DEF Returns, FrameInv, TypeOK, BusTypeOK, WireInv, StateAtLabel, PortOK
<1>4. CASE Environment \/ UNCHANGED vars
  BY <1>4 DEF Environment, SlaveFollows, SlaveDrops, ActivationTimeElapses,
              WireInv, StateAtLabel, PortOK
<1> QED BY <1>1, <1>2, <1>3, <1>4, MainPreservesWireInv DEF Next

\* With one service caller, the roles of the threads, the order of bring-up and updates,
\* what is known of the slaves, the bus state at every label and the port agree with each
\* other at every moment.
THEOREM IInvHolds == OneServiceCaller => (Spec => []IInv)
<1> SUFFICES ASSUME OneServiceCaller
             PROVE  Spec => []IInv
  OBVIOUS
<1>1. FrameInv /\ ConfirmInv /\ [Next]_vars => ConfirmInv'
  BY NextPreservesConfirmInv
<1>2. FrameInv /\ ConfirmInv /\ WireInv /\ [Next]_vars => WireInv'
  BY NextPreservesWireInv
<1>3. FrameInv /\ ConfirmInv /\ WireInv => IInv
  BY DEF FrameInv, ConfirmInv, WireInv, IInv
<1> QED
  BY InitEstablishesConfirmInv, InitEstablishesWireInv, <1>1, <1>2, <1>3, FrameInvHolds, PTL
  DEF Spec

\* With one service caller, the bus becomes Operational only when every device it
\* manages has been OPERATIONAL, for any devices, answers and losses of state.
THEOREM Confirmed == OneServiceCaller => (Spec => []OperationalIsConfirmed)
<1> SUFFICES ASSUME OneServiceCaller
             PROVE  Spec => []OperationalIsConfirmed
  OBVIOUS
<1>1. IInv => OperationalIsConfirmed
  BY DEF IInv, ConfirmOK, OperationalIsConfirmed
<1> QED BY <1>1, IInvHolds, PTL

-----------------------------------------------------------------------------
(* The bus implements BusContract, with one service caller.                *)

\* What a step of the bus does to the abstract state: a step of the contract, or nothing.
ContractStep == [Contract!ContractNext]_Contract!contractVars

USE DEF Contract!OpenPort, Contract!Raise, Contract!BringUp, Contract!BeginShutdown,
        Contract!FinishShutdown, Contract!AbandonPreInit, Contract!ContractNext,
        Contract!contractVars

\* A shutdown, run by either thread after a failure, is one the contract allows.
LEMMA ShutdownRefines ==
    ASSUME IInv, NEW t \in {Main} \cup ServiceCallers, ShutdownStep(t)
    PROVE  ContractStep
<1> USE DEF IInv, StateAtLabel, PortOK, ContractStep
<1>1. CASE ShutdownEntry(t)        BY <1>1 DEF ShutdownEntry, TypeOK, BusTypeOK
<1>2. CASE ShutdownInitialized(t)  BY <1>2 DEF ShutdownInitialized
<1>3. CASE ShutdownClose(t)        BY <1>3 DEF ShutdownClose
<1>4. CASE ShutdownPre(t) \/ ShutdownSet(t) \/ ShutdownWait(t) \/ ShutdownPost(t)
  BY <1>4 DEF ShutdownPre, ShutdownSet, ShutdownWait, ShutdownPost
<1> QED BY <1>1, <1>2, <1>3, <1>4 DEF ShutdownStep

\* The main thread raises the bus by one state at a time, opens the port, or shuts down.
LEMMA MainRefines ==
    ASSUME IInv, MainStep
    PROVE  ContractStep
<1> USE DEF IInv, BringUpIsAlone, PortOK, ContractStep
<1>1. CASE CallInitialize(Main) \/ CallStartup(Main) \/ CallActivate(Main)
  BY <1>1 DEF CallInitialize, CallStartup, CallActivate
<1>2. CASE InitConfig(Main)     BY <1>2 DEF InitConfig
<1>3. CASE StartupConfig(Main)  BY <1>3 DEF StartupConfig
<1>4. CASE ActivateWait(Main)   BY <1>4 DEF ActivateWait, CheckState
<1>5. CASE \/ InitDevices(Main) \/ StartupHooks(Main) \/ StartupPdo(Main)
           \/ ActivatePre(Main) \/ ActivateSet(Main) \/ ActivatePost(Main)
  BY <1>5 DEF InitDevices, StartupHooks, StartupPdo, ActivatePre, ActivateSet, ActivatePost
<1> QED
  BY <1>1, <1>2, <1>3, <1>4, <1>5, ShutdownRefines DEF MainStep, LifecycleStep

\* An update leaves bus state and port alone, but for the promotion of an Activated bus.
LEMMA CallerRefines ==
    ASSUME IInv, \/ \E t \in RtCallers : CallerStep(t, "rt.check")
                 \/ \E t \in ServiceCallers : CallerStep(t, "sv.check")
    PROVE  ContractStep
<1>1. ASSUME NEW t \in Threads, RtStep(t) \/ Call(t, "rt.check") \/ Call(t, "sv.check")
      PROVE  ContractStep
  BY <1>1 DEF RtStep, RtCheck, RtWrite, RtExchange, RtRead, UpdateThrows, Call, ContractStep
<1>2. ASSUME NEW t \in ServiceCallers, ServicePromote(t)
      PROVE  ContractStep
  BY <1>2 DEF ServicePromote, IInv, StateAtLabel, PortOK, ContractStep
<1>3. ASSUME NEW t \in Threads,
             \/ ServiceCheck(t) \/ ServiceDecide(t) \/ ServiceSet(t) \/ ServiceRead(t)
             \/ ServiceVerify(t) \/ ServiceDiagnostics(t) \/ ServicePorts(t)
      PROVE  ContractStep
  BY <1>3 DEF ServiceCheck, ServiceDecide, ServiceSet, ServiceRead, ServiceVerify,
              ServiceDiagnostics, ServicePorts, ContractStep
<1>4. ASSUME NEW t \in RtCallers
      PROVE  ~ServicePromote(t)
  BY DEF ServicePromote, IInv, RolesOK
<1> QED BY <1>1, <1>2, <1>3, <1>4, ShutdownRefines DEF CallerStep, ServiceStep

\* Every step is a step of the contract.
LEMMA NextRefines == IInv /\ [Next]_vars => ContractStep
<1> SUFFICES ASSUME IInv, [Next]_vars
             PROVE  ContractStep
  OBVIOUS
<1>1. CASE \E t \in Threads : Returns(t)
  BY <1>1 DEF Returns, ContractStep
<1>2. CASE Environment \/ UNCHANGED vars
  BY <1>2 DEF Environment, SlaveFollows, SlaveDrops, ActivationTimeElapses, ContractStep
<1> QED BY <1>1, <1>2, MainRefines, CallerRefines DEF Next

\* Also without the executor, and although a failed activation is cleaned up by the
\* service caller beside any number of update_rt(), the bus keeps BusContract: nothing
\* revives it, and its port is open from before Initialized until the step to Shutdown.
THEOREM ContractImplemented == OneServiceCaller => (Spec => ImplementsContract)
<1> SUFFICES ASSUME OneServiceCaller
             PROVE  Spec => ImplementsContract
  OBVIOUS
<1>1. BusInit => Contract!ContractInit
  BY DEF BusInit, Contract!ContractInit
<1>2. IInv /\ [Next]_vars => [Contract!ContractNext]_Contract!contractVars
  BY NextRefines DEF ContractStep
<1> HIDE DEF Contract!ContractNext, Contract!contractVars, Contract!BringUp,
             Contract!OpenPort, Contract!Raise, Contract!BeginShutdown,
             Contract!FinishShutdown, Contract!AbandonPreInit
<1> QED
  BY <1>1, <1>2, IInvHolds, PTL DEF Spec, ImplementsContract, Contract!ContractSpec

\* BusIoOnOpenPort: the bring-up, a shutdown and update_service() find the port open.
THEOREM BusIoSafe == OneServiceCaller => (Spec => []BusIoOnOpenPort)
<1>1. IInv => BusIoOnOpenPort
  <2> SUFFICES ASSUME IInv, NEW t \in Threads,
                      pc[t] \in InitLabels \cup StartupLabels \cup (ActivateLabels \ {"activate.post"})
                                \cup {"shutdown.pre", "shutdown.set", "shutdown.wait", "shutdown.close"}
                                \cup (ServiceLabels \ {"sv.check"})
               PROVE  port = "open"
    BY DEF BusIoOnOpenPort, PortOpenAt
  <2>1. t \in {Main} \cup ServiceCallers  BY DEF IInv, RolesOK
  <2>2. CASE t = Main  BY <2>2 DEF IInv, RolesOK, BringUpIsAlone, StateAtLabel, PortOK
  <2>3. CASE t \in ServiceCallers  BY <2>3 DEF IInv, RolesOK, StateAtLabel, PortOK
  <2> QED BY <2>1, <2>2, <2>3
<1> QED BY <1>1, IInvHolds, PTL
=============================================================================
