--------------------------- MODULE BusDiagnostics ---------------------------
(***************************************************************************)
(* latest_diagnostics_ of the backend: the RT thread counts frames and     *)
(* copies the states of the slaves out of SOEM's slave list, the service   *)
(* thread refreshes that list and reads the ports of one slave after the   *)
(* other, readers copy the whole structure.  diagnostics_mutex_ guards the *)
(* slaves, nothing guards the counters and the slave list.                 *)
(*                                                                         *)
(* What is read from a slave is one of two values, so that the words of    *)
(* two readings can differ.  Of the two sides of a copy the writer works   *)
(* word by word and the reader slave by slave, which is where the other    *)
(* can come in between.                                                    *)
(***************************************************************************)
EXTENDS Naturals

CONSTANTS
    N,          \* ecatSlavecount_
    Readers,    \* threads that call diagnostics()
    Rt,         \* the thread that calls update_rt()
    Service,    \* the thread that calls update_service()
    NoThread,   \* the owner of a free mutex
    MaxCycles,  \* bound: PDO cycles
    MaxFailures \* bound: those of them whose frame is not answered by all slaves

ASSUME SlaveCountAssumption == N \in Nat \ {0}
ASSUME ThreadsAssumption ==
    Rt \notin Readers /\ Service \notin Readers /\ Rt # Service /\ NoThread \notin Readers \cup {Rt, Service}
ASSUME BoundsAssumption == MaxCycles \in Nat /\ MaxFailures \in Nat

Threads == Readers \cup {Rt, Service}
Slaves == 0..(N - 1)  \* positions in latest_diagnostics_.slaves

VARIABLES
    options,   \* DiagnosticsOptions: which parts are enabled
    busState,  \* state_, from the end of initialize() on
    bus,       \* latest_diagnostics_.bus
    slaves,    \* latest_diagnostics_.slaves
    list,      \* SOEM's slave list: state and AL status code of each slave
    mutex,     \* owner of diagnostics_mutex_
    index,     \* current_selected_diagnostics_slave_
    ports,     \* the port reading in the hands of the service thread
    pc, at,    \* step of each thread, and the slave it works on
    snapshot,  \* the copy in the hands of each reader
    cycles,    \* history: cycles of the RT thread by outcome
    forced     \* history: forced updates

vars == <<options, busState, bus, slaves, list, mutex, index, ports, pc, at, snapshot, cycles, forced>>
data == <<bus, slaves, list, index, ports, snapshot>>
history == <<cycles, forced>>

Bits == {0, 1}
BusStates == {"Initialized", "Operational", "ShuttingDown"}

\* What becomes of the frame of a cycle: all slaves answer, some do, none does, or it could not
\* even be sent, which the cycle only logs before it waits for the answer.
Outcomes == {"complete", "short", "none", "unsent"}
NoSlave == [cycle |-> 0, state |-> 0, alStatus |-> 0, ports |-> [w \in 1..2 |-> 0]]
NoSnapshot == [bus |-> [sent |-> 0, lost |-> 0, mismatches |-> 0],
               slaves |-> [s \in Slaves |-> NoSlave]]
FramesSent == cycles["complete"] + cycles["short"] + cycles["none"]
CyclesSoFar == FramesSent + cycles["unsent"]
FailuresSoFar == cycles["short"] + cycles["none"] + cycles["unsent"]

Init ==
    /\ options \in [pdo : BOOLEAN, esc : BOOLEAN, port : BOOLEAN]
    /\ busState = "Initialized"
    /\ bus = NoSnapshot.bus
    /\ slaves = NoSnapshot.slaves
    /\ list = [s \in Slaves |-> [state |-> 0, alStatus |-> 0]]
    /\ mutex = NoThread
    /\ index = 0
    /\ ports = 0
    /\ pc = [t \in Threads |-> "idle"]
    /\ at = [t \in Threads |-> 0]
    /\ snapshot = [t \in Readers |-> NoSnapshot]
    /\ cycles = [o \in Outcomes |-> 0]
    /\ forced = 0

At(t, label) == pc[t] = label
Goto(t, label) == pc' = [pc EXCEPT ![t] = label]

\* Mutant: the loop goes one slave too far.
NextSlaveTooFar(t, label, after) ==
    IF at[t] < N
    THEN at' = [at EXCEPT ![t] = @ + 1] /\ Goto(t, label)
    ELSE at' = [at EXCEPT ![t] = 0] /\ Goto(t, after)

\* A loop over the slaves: the next one, or on to another step after the last.
NextSlave(t, label, after) ==
    IF at[t] + 1 < N
    THEN at' = [at EXCEPT ![t] = @ + 1] /\ Goto(t, label)
    ELSE at' = [at EXCEPT ![t] = 0] /\ Goto(t, after)

-----------------------------------------------------------------------------
(* update_diagnostics_fast(), at the end of a PDO cycle.                   *)

RtCycle ==
    /\ busState = "Operational"
    /\ At(Rt, "idle")
    /\ CyclesSoFar < MaxCycles
    /\ \E o \in Outcomes :
         /\ o = "complete" \/ FailuresSoFar < MaxFailures
         /\ cycles' = [cycles EXCEPT ![o] = @ + 1]
         /\ Goto(Rt, IF options.pdo THEN o ELSE "idle")
    /\ UNCHANGED <<options, busState, data, mutex, at, forced>>

RtCountFailure ==
    /\ pc[Rt] \in Outcomes
    /\ bus' = CASE pc[Rt] \in {"none", "unsent"} -> [bus EXCEPT !.lost = @ + 1]
                [] At(Rt, "short") -> [bus EXCEPT !.mismatches = @ + 1]
                [] OTHER -> bus
    /\ Goto(Rt, "sent")
    /\ UNCHANGED <<options, busState, slaves, list, mutex, index, ports, at, snapshot, history>>

\* Mutant: the frame is counted after try_lock, and not when that fails.
RtCountSentIfFree ==
    /\ At(Rt, "sent")
    /\ bus' = IF mutex = NoThread THEN [bus EXCEPT !.sent = @ + 1] ELSE bus
    /\ Goto(Rt, IF options.esc THEN "tryLock" ELSE "idle")
    /\ UNCHANGED <<options, busState, slaves, list, mutex, index, ports, at, snapshot, history>>

RtCountSent ==
    /\ At(Rt, "sent")
    /\ bus' = [bus EXCEPT !.sent = @ + 1]
    /\ Goto(Rt, IF options.esc THEN "tryLock" ELSE "idle")
    /\ UNCHANGED <<options, busState, slaves, list, mutex, index, ports, at, snapshot, history>>

\* Mutant: the result of try_lock is not looked at.
RtIgnoresTryLock ==
    /\ At(Rt, "tryLock")
    /\ mutex' = IF mutex = NoThread THEN Rt ELSE mutex
    /\ Goto(Rt, "slave")
    /\ UNCHANGED <<options, busState, data, at, history>>

\* Mutant: the RT thread waits for the mutex.
RtLocks ==
    /\ At(Rt, "tryLock")
    /\ mutex = NoThread
    /\ mutex' = Rt
    /\ Goto(Rt, "slave")
    /\ UNCHANGED <<options, busState, data, at, history>>

RtTryLock ==
    /\ At(Rt, "tryLock")
    /\ IF mutex = NoThread
       THEN mutex' = Rt /\ Goto(Rt, "slave")
       ELSE Goto(Rt, "idle") /\ UNCHANGED mutex
    /\ UNCHANGED <<options, busState, data, at, history>>

\* A slave with its state and AL status code copied from the slave list.
StateCopied(s) == [slaves[s] EXCEPT !.cycle = CyclesSoFar, !.alStatus = list[s].alStatus, !.state = list[s].state]

RtCopySlave ==
    /\ At(Rt, "slave")
    /\ slaves' = [slaves EXCEPT ![at[Rt]] = StateCopied(at[Rt])]
    /\ NextSlave(Rt, "slave", "idle")
    /\ mutex' = IF at[Rt] + 1 = N /\ mutex = Rt THEN NoThread ELSE mutex
    /\ UNCHANGED <<options, busState, bus, list, index, ports, snapshot, history>>

RtStep == RtCountFailure \/ RtCountSent \/ RtTryLock \/ RtCopySlave

-----------------------------------------------------------------------------
(* The service thread: ecx_readstate(), and update_diagnostics_slow().     *)

Tick ==
    /\ busState = "Operational"
    /\ At(Service, "idle")
    /\ options.esc
    /\ Goto(Service, "readState")
    /\ UNCHANGED <<options, busState, data, mutex, at, history>>

\* SOEM stores the state and the AL status code of a slave one after the other.  Bound: one
\* slave changes its state once.
ReadState ==
    /\ At(Service, "readState")
    /\ \E b \in {list[at[Service]].state} \cup (IF \A s \in Slaves : list[s].state = 0 THEN {1} ELSE {}) :
         list' = [list EXCEPT ![at[Service]].state = b]
    /\ Goto(Service, "readAlStatus")
    /\ UNCHANGED <<options, busState, bus, slaves, mutex, index, ports, at, snapshot, history>>

ReadAlStatus ==
    /\ At(Service, "readAlStatus")
    /\ list' = [list EXCEPT ![at[Service]].alStatus = list[at[Service]].state]
    /\ NextSlave(Service, "readState", IF options.port THEN "select" ELSE "idle")
    /\ UNCHANGED <<options, busState, bus, slaves, mutex, index, ports, snapshot, history>>

WrappedEarly(i) == IF i >= N - 1 THEN 0 ELSE i    \* mutant: the last slave is left out
Wrapped(i) == IF i >= N THEN 0 ELSE i

\* The registers of the selected slave are read into locals, without the mutex.  Bound: the
\* cumulative counters in them change once.
SelectSlave ==
    /\ At(Service, "select")
    /\ index' = Wrapped(index)
    /\ ports' \in {ports, 1}
    /\ Goto(Service, "lock")
    /\ UNCHANGED <<options, busState, bus, slaves, list, mutex, at, snapshot, history>>

LockToPublish ==
    /\ At(Service, "lock")
    /\ mutex = NoThread
    /\ mutex' = Service
    /\ Goto(Service, "publish")
    /\ UNCHANGED <<options, busState, data, at, history>>

\* The copy of the ports, in two steps; then the mutex is released.
Publish ==
    /\ At(Service, "publish")
    /\ slaves' = [slaves EXCEPT ![index].ports[1] = ports]
    /\ Goto(Service, "published")
    /\ UNCHANGED <<options, busState, bus, list, mutex, index, ports, at, snapshot, history>>

Published ==
    /\ At(Service, "published")
    /\ slaves' = [slaves EXCEPT ![index].ports[2] = ports]
    /\ mutex' = IF mutex = Service THEN NoThread ELSE mutex
    /\ index' = index + 1
    /\ Goto(Service, "idle")
    /\ UNCHANGED <<options, busState, bus, list, ports, at, snapshot, history>>

ServiceStep == Tick \/ ReadState \/ ReadAlStatus \/ SelectSlave \/ LockToPublish \/ Publish \/ Published

-----------------------------------------------------------------------------
(* diagnostics(), and the life of the bus.                                 *)

\* A forced update is for a bus that does not run, also for one whose hooks before the
\* shutdown ask for it.  It is "not thread safe": nobody else is in diagnostics().  It counts
\* a frame that is not sent, whatever the options say.  Bound: one.
ForceUpdate ==
    /\ busState \in {"Initialized", "ShuttingDown"}
    /\ \A t \in Threads : At(t, "idle")
    /\ forced = 0 /\ forced' = 1
    /\ bus' = [bus EXCEPT !.sent = @ + 1]
    /\ ports' \in {ports, 1}
    /\ slaves' = [s \in Slaves |->
         LET copied == IF options.esc THEN StateCopied(s) ELSE slaves[s]
         IN IF s = Wrapped(index) THEN [copied EXCEPT !.ports = [w \in 1..2 |-> ports']] ELSE copied]
    /\ index' = Wrapped(index) + 1
    /\ UNCHANGED <<options, busState, list, mutex, pc, at, snapshot, cycles>>

Run ==
    /\ busState = "Initialized"
    /\ busState' = "Operational"
    /\ UNCHANGED <<options, data, mutex, pc, at, history>>

\* Whoever shuts the bus down has let the RT thread and the service thread finish.
ShutDown ==
    /\ busState = "Operational"
    /\ At(Rt, "idle") /\ At(Service, "idle")
    /\ busState' = "ShuttingDown"
    /\ UNCHANGED <<options, data, mutex, pc, at, history>>

Read(t) ==
    /\ At(t, "idle")
    /\ mutex = NoThread
    /\ mutex' = t
    /\ Goto(t, "bus")
    /\ UNCHANGED <<options, busState, data, at, history>>

CopyBus(t) ==
    /\ At(t, "bus")
    /\ snapshot' = [snapshot EXCEPT ![t].bus = bus]
    /\ Goto(t, "slave")
    /\ UNCHANGED <<options, busState, bus, slaves, list, mutex, index, ports, at, history>>

CopySlave(t) ==
    /\ At(t, "slave")
    /\ snapshot' = [snapshot EXCEPT ![t].slaves[at[t]] = slaves[at[t]]]
    /\ NextSlave(t, "slave", "done")
    /\ mutex' = IF at[t] + 1 = N THEN NoThread ELSE mutex
    /\ UNCHANGED <<options, busState, bus, slaves, list, index, ports, history>>

Return(t) ==
    /\ At(t, "done")
    /\ snapshot' = [snapshot EXCEPT ![t] = NoSnapshot]
    /\ Goto(t, "idle")
    /\ UNCHANGED <<options, busState, bus, slaves, list, mutex, index, ports, at, history>>

CopySnapshot(t) == CopyBus(t) \/ CopySlave(t) \/ Return(t)

Next ==
    \/ Run \/ ShutDown \/ ForceUpdate
    \/ RtCycle \/ RtStep
    \/ ServiceStep
    \/ \E t \in Readers : Read(t) \/ CopySnapshot(t)

Spec == Init /\ [][Next]_vars

\* The RT thread, the service thread and a reader that copies are scheduled, and the service
\* thread gets a mutex that is free again and again.  The readers may stop reading.
Fairness ==
    /\ WF_vars(Run) /\ WF_vars(RtStep) /\ SF_vars(ServiceStep)
    /\ \A t \in Readers : WF_vars(CopySnapshot(t))
FairSpec == Spec /\ Fairness

-----------------------------------------------------------------------------
\* Types, and the steps each thread takes.
Counters == [sent : Nat, lost : Nat, mismatches : Nat]
SlaveType == [cycle : 0..MaxCycles, state : Bits, alStatus : Bits, ports : [1..2 -> Bits]]
RtLabels == Outcomes \cup {"idle", "sent", "tryLock", "slave"}
ServiceLabels == {"idle", "readState", "readAlStatus", "select", "lock", "publish", "published"}
ReaderLabels == {"idle", "bus", "slave", "done"}
TypeOK ==
    /\ options \in [pdo : BOOLEAN, esc : BOOLEAN, port : BOOLEAN]
    /\ busState \in BusStates
    /\ bus \in Counters
    /\ slaves \in [Slaves -> SlaveType]
    /\ list \in [Slaves -> [state : Bits, alStatus : Bits]]
    /\ mutex \in Threads \cup {NoThread}
    /\ index \in 0..N
    /\ ports \in Bits
    /\ pc \in [Threads -> RtLabels \cup ServiceLabels \cup ReaderLabels]
    /\ pc[Rt] \in RtLabels /\ pc[Service] \in ServiceLabels
    /\ \A t \in Readers : pc[t] \in ReaderLabels
    /\ at \in [Threads -> Slaves]
    /\ snapshot \in [Readers -> [bus : Counters, slaves : [Slaves -> SlaveType]]]
    /\ cycles \in [Outcomes -> Nat] /\ CyclesSoFar <= MaxCycles
    /\ forced \in {0, 1}

\* No cycle is missed or counted twice, also when the RT thread finds the mutex taken: between
\* two cycles frames_lost are the cycles without an answer, wkc_mismatches those some slave
\* did not answer, and frames_sent are the frames sent, as long as every frame could be sent
\* and no update was forced (for those see FramesSentAreSent).
CountersAreExact ==
    options.pdo /\ At(Rt, "idle") =>
        /\ bus.lost = cycles["none"] + cycles["unsent"]
        /\ bus.mismatches = cycles["short"]
        /\ cycles["unsent"] = 0 /\ forced = 0 => bus.sent = FramesSent

\* The round-robin index is checked only when the service thread comes back to it: the
\* slave it reads and publishes exists.
SelectedSlaveExists == pc[Service] \in {"lock", "publish", "published"} => index < N

\* What diagnostics_mutex_ is for: in a snapshot all slaves are of one PDO cycle, and the
\* ports of a slave are of one reading.
SlavesAreOfOneCycle ==
    \A t \in Readers : At(t, "done") =>
        LET copy == snapshot[t].slaves
        IN /\ \A r, s \in Slaves : copy[r].cycle = copy[s].cycle
           /\ \A s \in Slaves : copy[s].ports[1] = copy[s].ports[2]

-----------------------------------------------------------------------------
\* The board the readers may believe in: the ports of a slave have been posted when both
\* words of them are, the cycle when the last slave has it, and a copy is taken when its
\* last slave is.
Posted == [s \in Slaves |-> [w \in 1..2 |-> slaves[s].ports[2]]]
Asking == {t \in Readers : pc[t] # "idle"}
Taken(copy) == [s \in Slaves |-> [cycle |-> copy[s].cycle, ports |-> copy[s].ports]]
Copies == [t \in Readers |-> IF pc[t] = "done" THEN Taken(snapshot[t].slaves) ELSE <<>>]
Board == INSTANCE DiagnosticsBoard
    WITH Readings <- {[w \in 1..2 |-> b] : b \in Bits},
         cycle <- slaves[N - 1].cycle, ports <- Posted, asking <- Asking, copy <- Copies

\* The slaves of a snapshot are those of one moment between the call and the return of the
\* reader, although they are written and copied one after the other: its cycle never goes
\* back, and a reading that was complete before the call is in it.
ImplementsBoard == Board!BoardSpec

-----------------------------------------------------------------------------
(* The inductive invariant behind these properties.                        *)

\* Who owns the mutex, and that every loop starts at the first slave.
LocksOK ==
    /\ mutex = Rt <=> pc[Rt] = "slave"
    /\ mutex = Service <=> pc[Service] \in {"publish", "published"}
    /\ \A t \in Readers : mutex = t <=> pc[t] \in {"bus", "slave"}
    /\ \A t \in Threads : pc[t] \notin {"slave", "readState", "readAlStatus"} => at[t] = 0

\* The counters, while the RT thread is on its way from the frame to the counts.  What
\* frames_sent really counts are the cycles and the forced updates.
CountersOK ==
    IF options.pdo
    THEN /\ bus.sent + (IF pc[Rt] \in Outcomes \cup {"sent"} THEN 1 ELSE 0) = CyclesSoFar + forced
         /\ bus.lost + (IF pc[Rt] \in {"none", "unsent"} THEN 1 ELSE 0)
              = cycles["none"] + cycles["unsent"]
         /\ bus.mismatches + (IF pc[Rt] = "short" THEN 1 ELSE 0) = cycles["short"]
    ELSE pc[Rt] = "idle"

\* The slaves differ in their cycle only where the RT thread is at work, and the two words
\* of a reading only where the service thread is.
SlavesOK ==
    /\ \A r, s \in Slaves :
         (pc[Rt] = "slave" => (r < at[Rt] <=> s < at[Rt])) => slaves[r].cycle = slaves[s].cycle
    /\ pc[Rt] = "slave" => \A s \in Slaves : s < at[Rt] => slaves[s].cycle = CyclesSoFar
    /\ \A s \in Slaves :
         slaves[s].ports[1] = slaves[s].ports[2] \/ (pc[Service] = "published" /\ s = index)
    /\ pc[Service] = "published" => slaves[index].ports[1] = ports

\* No slave has the present cycle before the RT thread has come to it.
CyclesOK ==
    \A s \in Slaves :
        /\ slaves[s].cycle <= CyclesSoFar
        /\ pc[Rt] # "idle" /\ at[Rt] <= s => slaves[s].cycle < CyclesSoFar

\* What a reader has copied so far is what is there, until it gives the mutex back.
CopiesOK ==
    \A t \in Readers : pc[t] = "slave" =>
        \A s \in Slaves : s < at[t] => snapshot[t].slaves[s] = slaves[s]

\* The owner of the mutex, the counters, the structure and the copies of it agree with each
\* other at every step, although counters and index are not guarded by the mutex.
IInv ==
    /\ TypeOK /\ LocksOK /\ CountersOK /\ SlavesOK /\ CyclesOK /\ CopiesOK
    /\ SelectedSlaveExists /\ SlavesAreOfOneCycle

-----------------------------------------------------------------------------
\* A PDO cycle never waits: the RT thread can take its next step whatever the readers and
\* the service thread do with the mutex.
RtNeverWaits == pc[Rt] # "idle" => ENABLED RtStep

\* Under FairSpec the ports of every slave are read again and again if they are enabled, until
\* the bus is shut down, although the RT thread and the readers take the mutex.
PortsAreRefreshed ==
    \A s \in Slaves :
        []<>(options.esc /\ options.port /\ busState # "ShuttingDown" => At(Service, "published") /\ index = s)

\* "A consistent, point-in-time view": a snapshot has no more failed frames than frames,
\* and the AL status code of a slave is the one "accompanying" its state.
SnapshotIsConsistent ==
    \A t \in Readers : At(t, "done") =>
        /\ snapshot[t].bus.lost + snapshot[t].bus.mismatches <= snapshot[t].bus.sent
        /\ \A s \in Slaves : snapshot[t].slaves[s].alStatus = snapshot[t].slaves[s].state

\* What comments say of frames_sent and the code does not keep, as it counts forced updates
\* and frames that could not be sent, too.  "How many frames we actually sent so far", "only
\* incremented while pdo_diagnostics is enabled": frames_sent never exceeds the frames the
\* cycles have sent, and stays zero while they are not counted.
FramesSentAreSent == bus.sent <= (IF options.pdo THEN FramesSent ELSE 0)
=============================================================================
