---------------------------- MODULE PdoExchange ----------------------------
(***************************************************************************)
(* The way of process data between the application, the buffers of an      *)
(* EthercatDevice, the IO map of the bus and the wire, once the PDOs are   *)
(* configured.  Application threads call the device's PDO accessors or the *)
(* bus directly, other threads call update_rt(); a copy is a memcpy(), one *)
(* word after the other.  What a write stores is the number of the write,  *)
(* so that a stale or a torn PDO can be told from a current one.  The      *)
(* exceptions of the accessors (wrong state, wrong size) copy nothing and  *)
(* are left out.                                                           *)
(***************************************************************************)
EXTENDS Naturals

CONSTANTS
    Devices,    \* devices of the bus
    Apps,       \* application threads
    RtCallers,  \* threads that call update_rt()
    NoThread,   \* the owner of a free mutex
    MaxWrites,  \* bound: writes of the application
    MaxFrames   \* bound: frames with new inputs

ASSUME DevicesAssumption == Devices # {}
ASSUME ThreadsAssumption == Apps \cap RtCallers = {} /\ NoThread \notin Apps \cup RtCallers
ASSUME BoundsAssumption == MaxWrites \in Nat /\ MaxFrames \in Nat

Threads == Apps \cup RtCallers
Words == {1, 2}  \* the words of a PDO, in the order of memcpy()

VARIABLES
    mem,           \* rx_pdo_ and tx_pdo_ of each device, its outputs and inputs in the IO map
    local,         \* the PDO in the hands of a caller
    deviceHolder,  \* owner of each device's pdo_update_mutex_
    busHolder,     \* owner of the backend's pdo_update_mutex_
    pc, op, dev, word,  \* what each thread does: step, operation, device, next word
    todo,          \* devices the loop of update_rt() still has to visit
    calls,         \* number of application writes called so far
    writes,        \* number of application writes that have got their mutex
    frames,        \* number of frames with new inputs so far
    setDone,       \* history: the last set_rx_pdo() of a device that has returned
    delivered,     \* history: the newest inputs an update_rt() that returned has received
    received,      \* history: the newest inputs when a thread's frame came back
    floor          \* history: what setDone or delivered was when a call began

memoryVars == <<mem, local>>
lockVars == <<deviceHolder, busHolder>>
threadVars == <<pc, op, dev, word, todo>>
counters == <<calls, writes, frames>>
history == <<setDone, delivered, received, floor>>
vars == <<memoryVars, lockVars, threadVars, counters, history>>

Stores == {"rxPdo", "outputs", "inputs", "txPdo"}
AppOps == {"set", "getRx", "getTx", "writeRx", "readRx", "readTx"}
RtOps == {"updateWrite", "updateRead"}

\* Where each operation copies from and to, and the mutexes it copies under.
From == [set |-> "caller", getRx |-> "rxPdo", getTx |-> "txPdo", writeRx |-> "caller",
         readRx |-> "outputs", readTx |-> "inputs",
         updateWrite |-> "rxPdo", updateRead |-> "inputs"]
To == [set |-> "rxPdo", getRx |-> "caller", getTx |-> "caller", writeRx |-> "outputs",
       readRx |-> "caller", readTx |-> "caller",
       updateWrite |-> "outputs", updateRead |-> "txPdo"]
LocksDevice == {"set", "getRx", "getTx"} \cup RtOps
LocksBus == {"writeRx", "readRx", "readTx"} \cup RtOps

Pdo(v) == [w \in Words |-> v]
Bigger(a, b) == IF a > b THEN a ELSE b

\* on_pdo_configured() has filled all buffers with zeros.
Init ==
    /\ mem = [s \in Stores |-> [d \in Devices |-> Pdo(0)]]
    /\ local = [t \in Threads |-> Pdo(0)]
    /\ deviceHolder = [d \in Devices |-> NoThread]
    /\ busHolder = NoThread
    /\ pc = [t \in Threads |-> "idle"]
    /\ op = [t \in Threads |-> IF t \in Apps THEN "set" ELSE "updateWrite"]
    /\ dev \in [Threads -> {CHOOSE d \in Devices : TRUE}]
    /\ word = [t \in Threads |-> 1]
    /\ todo = [t \in Threads |-> {}]
    /\ calls = 0 /\ writes = 0 /\ frames = 0
    /\ setDone = [d \in Devices |-> 0]
    /\ delivered = 0
    /\ received = [t \in RtCallers |-> 0]
    /\ floor = [t \in Threads |-> [d \in Devices |-> 0]]

At(t, label) == pc[t] = label
Goto(t, label) == pc' = [pc EXCEPT ![t] = label]

-----------------------------------------------------------------------------
(* A copy: take the mutexes, the device's before the bus's, copy, release. *)

BeginCopy(t, o, d) ==
    /\ op' = [op EXCEPT ![t] = o]
    /\ dev' = [dev EXCEPT ![t] = d]
    /\ word' = [word EXCEPT ![t] = 1]
    /\ Goto(t, IF o \in LocksDevice THEN "lockDevice" ELSE "lockBus")

\* An application calls an accessor.  The writes of all threads are numbered in
\* the order in which they get their mutex.
AppCalls(t, o, d) ==
    /\ At(t, "idle")
    /\ IF From[o] = "caller" THEN calls < MaxWrites /\ calls' = calls + 1 ELSE UNCHANGED calls
    /\ BeginCopy(t, o, d)
    /\ floor' = [floor EXCEPT ![t] =
                   [e \in Devices |-> IF o = "getTx" THEN delivered
                                      ELSE IF o = "getRx" THEN setDone[e] ELSE 0]]
    /\ UNCHANGED <<memoryVars, lockVars, todo, writes, frames, setDone, delivered, received>>

\* The next write gets its number.
NumberWrite(t) ==
    IF From[op[t]] = "caller"
    THEN /\ writes' = writes + 1
         /\ local' = [local EXCEPT ![t] = Pdo(writes + 1)]
    ELSE UNCHANGED <<writes, local>>

AnyDevice(d) == TRUE  \* mutant: a copy without the device's mutex
DeviceFree(d) == deviceHolder[d] = NoThread

\* Mutant: a device whose mutex is taken is left out of the cycle (try_lock).
LockDeviceOrSkip(t) ==
    /\ At(t, "lockDevice")
    /\ IF DeviceFree(dev[t])
       THEN /\ deviceHolder' = [deviceHolder EXCEPT ![dev[t]] = t]
            /\ Goto(t, IF op[t] \in LocksBus THEN "lockBus" ELSE "copy")
            /\ NumberWrite(t)
       ELSE /\ t \in RtCallers
            /\ Goto(t, "loop")
            /\ UNCHANGED <<deviceHolder, writes, local>>
    /\ UNCHANGED <<mem, busHolder, op, dev, word, todo, calls, frames, history>>

LockDevice(t) ==
    /\ At(t, "lockDevice")
    /\ DeviceFree(dev[t])
    /\ deviceHolder' = [deviceHolder EXCEPT ![dev[t]] = t]
    /\ NumberWrite(t)
    /\ Goto(t, IF op[t] \in LocksBus THEN "lockBus" ELSE "copy")
    /\ UNCHANGED <<mem, busHolder, op, dev, word, todo, calls, frames, history>>

LockBus(t) ==
    /\ At(t, "lockBus")
    /\ busHolder = NoThread
    /\ busHolder' = t
    /\ NumberWrite(t)
    /\ Goto(t, "copy")
    /\ UNCHANGED <<mem, deviceHolder, op, dev, word, todo, calls, frames, history>>

\* One word of the memcpy().
CopyWord(t) ==
    /\ At(t, "copy")
    /\ LET d == dev[t]
           w == word[t]
           v == IF From[op[t]] = "caller" THEN local[t][w] ELSE mem[From[op[t]]][d][w]
       IN IF To[op[t]] = "caller"
          THEN local' = [local EXCEPT ![t][w] = v] /\ UNCHANGED mem
          ELSE mem' = [mem EXCEPT ![To[op[t]]][d][w] = v] /\ UNCHANGED local
    /\ IF word[t] = 2
       THEN Goto(t, "release") /\ UNCHANGED word
       ELSE word' = [word EXCEPT ![t] = 2] /\ UNCHANGED pc
    /\ UNCHANGED <<lockVars, op, dev, todo, counters, history>>

\* Mutant: the bus's mutex is not released.
ReleaseKeepsBus(t) ==
    /\ At(t, "release")
    /\ deviceHolder' = [d \in Devices |-> IF deviceHolder[d] = t THEN NoThread ELSE deviceHolder[d]]
    /\ setDone' = IF op[t] = "set" THEN [setDone EXCEPT ![dev[t]] = local[t][2]] ELSE setDone
    /\ word' = [word EXCEPT ![t] = 1]
    /\ IF t \in Apps
       THEN /\ Goto(t, "idle")
            /\ op' = [op EXCEPT ![t] = "set"]
            /\ local' = [local EXCEPT ![t] = Pdo(0)]
            /\ floor' = [floor EXCEPT ![t] = [d \in Devices |-> 0]]
       ELSE Goto(t, "loop") /\ UNCHANGED <<op, local, floor>>
    /\ UNCHANGED <<mem, busHolder, dev, todo, counters, delivered, received>>

Release(t) ==
    /\ At(t, "release")
    /\ deviceHolder' = [d \in Devices |-> IF deviceHolder[d] = t THEN NoThread ELSE deviceHolder[d]]
    /\ busHolder' = IF busHolder = t THEN NoThread ELSE busHolder
    /\ setDone' = IF op[t] = "set" THEN [setDone EXCEPT ![dev[t]] = local[t][2]] ELSE setDone
    /\ word' = [word EXCEPT ![t] = 1]
    /\ IF t \in Apps
       THEN /\ Goto(t, "idle")
            /\ op' = [op EXCEPT ![t] = "set"]
            /\ local' = [local EXCEPT ![t] = Pdo(0)]
            /\ floor' = [floor EXCEPT ![t] = [d \in Devices |-> 0]]
       ELSE Goto(t, "loop") /\ UNCHANGED <<op, local, floor>>
    /\ UNCHANGED <<mem, dev, todo, counters, delivered, received>>

-----------------------------------------------------------------------------
(* update_rt().                                                            *)

\* Mutant: pdo_update_mutex_ is locked before the update_write() loop.
RtBeginLocked(t) ==
    /\ At(t, "idle")
    /\ busHolder = NoThread
    /\ busHolder' = t
    /\ Goto(t, "loop")
    /\ op' = [op EXCEPT ![t] = "updateWrite"]
    /\ todo' = [todo EXCEPT ![t] = Devices]
    /\ floor' = [floor EXCEPT ![t] = setDone]
    /\ UNCHANGED <<memoryVars, deviceHolder, dev, word, counters, setDone, delivered, received>>

RtBegin(t) ==
    /\ At(t, "idle")
    /\ Goto(t, "loop")
    /\ op' = [op EXCEPT ![t] = "updateWrite"]
    /\ todo' = [todo EXCEPT ![t] = Devices]
    /\ floor' = [floor EXCEPT ![t] = setDone]
    /\ UNCHANGED <<memoryVars, lockVars, dev, word, counters, setDone, delivered, received>>

RtVisit(t) ==
    /\ At(t, "loop")
    /\ \E d \in todo[t] :
         /\ BeginCopy(t, op[t], d)
         /\ todo' = [todo EXCEPT ![t] = @ \ {d}]
    /\ UNCHANGED <<memoryVars, lockVars, counters, history>>

\* "Important to lock after update_write(), otherwise update_write will deadlock".
RtLockFrame(t) ==
    /\ At(t, "loop") /\ todo[t] = {} /\ op[t] = "updateWrite"
    /\ busHolder = NoThread
    /\ busHolder' = t
    /\ Goto(t, "send")
    /\ UNCHANGED <<memoryVars, deviceHolder, op, dev, word, todo, counters, history>>

\* ecx_send_processdata(): the outputs of all devices leave the IO map.
RtSend(t) ==
    /\ At(t, "send")
    /\ Goto(t, "receive")
    /\ word' = [word EXCEPT ![t] = 1]
    /\ UNCHANGED <<memoryVars, lockVars, op, dev, todo, counters, history>>

\* ecx_receive_processdata(): new inputs arrive in the IO map, or the frame is lost.  A frame
\* some slaves did not answer is not told from a complete one: those slaves' inputs are taken
\* for new ones of the same content.
\* The mutex is released before the update_read() loop.
RtReceive(t) ==
    /\ At(t, "receive")
    /\ \/ /\ word[t] = 1 /\ frames < MaxFrames
          /\ frames' = frames + 1
          /\ mem' = [mem EXCEPT !["inputs"] = [d \in Devices |-> [@[d] EXCEPT ![1] = frames + 1]]]
          /\ word' = [word EXCEPT ![t] = 2]
          /\ UNCHANGED <<busHolder, pc, op, todo, received>>
       \/ /\ word[t] = 2
          /\ mem' = [mem EXCEPT !["inputs"] = [d \in Devices |-> Pdo(@[d][1])]]
          /\ received' = [received EXCEPT ![t] = frames]
          /\ busHolder' = NoThread
          /\ Goto(t, "loop")
          /\ op' = [op EXCEPT ![t] = "updateRead"]
          /\ todo' = [todo EXCEPT ![t] = Devices]
          /\ word' = [word EXCEPT ![t] = 1]
          /\ UNCHANGED frames
       \/ /\ word[t] = 1
          /\ busHolder' = NoThread
          /\ Goto(t, "loop")
          /\ op' = [op EXCEPT ![t] = "updateRead"]
          /\ todo' = [todo EXCEPT ![t] = Devices]
          /\ UNCHANGED <<mem, frames, word, received>>
    /\ UNCHANGED <<local, deviceHolder, dev, calls, writes, setDone, delivered, floor>>

RtEnd(t) ==
    /\ At(t, "loop") /\ todo[t] = {} /\ op[t] = "updateRead"
    /\ Goto(t, "idle")
    /\ delivered' = Bigger(delivered, received[t])
    /\ received' = [received EXCEPT ![t] = 0]
    /\ floor' = [floor EXCEPT ![t] = [d \in Devices |-> 0]]
    /\ op' = [op EXCEPT ![t] = "updateWrite"]
    /\ UNCHANGED <<memoryVars, lockVars, dev, word, todo, counters, setDone>>

-----------------------------------------------------------------------------
Copy(t) == LockDevice(t) \/ LockBus(t) \/ CopyWord(t) \/ Release(t)

RtStep(t) ==
    \/ RtVisit(t) \/ RtLockFrame(t) \/ RtSend(t) \/ RtReceive(t) \/ RtEnd(t)

Next ==
    \/ \E t \in Apps, o \in AppOps, d \in Devices : AppCalls(t, o, d)
    \/ \E t \in Threads : Copy(t)
    \/ \E t \in RtCallers : RtBegin(t) \/ RtStep(t)

Spec == Init /\ [][Next]_vars

\* A thread in a call is scheduled, and gets a mutex that is free again and again.
Fairness == \A t \in Threads : SF_vars(Copy(t)) /\ (t \in RtCallers => SF_vars(RtStep(t)))
FairSpec == Spec /\ Fairness

-----------------------------------------------------------------------------
\* Types.
TypeOK ==
    /\ mem \in [Stores -> [Devices -> [Words -> Nat]]]
    /\ local \in [Threads -> [Words -> Nat]]
    /\ deviceHolder \in [Devices -> Threads \cup {NoThread}]
    /\ busHolder \in Threads \cup {NoThread}
    /\ pc \in [Threads -> {"idle", "lockDevice", "lockBus", "copy", "release",
                           "loop", "send", "receive"}]
    /\ op \in [Threads -> AppOps \cup RtOps]
    /\ dev \in [Threads -> Devices]
    /\ word \in [Threads -> Words]
    /\ todo \in [Threads -> SUBSET Devices]
    /\ calls \in 0..MaxWrites /\ writes \in Nat /\ frames \in 0..MaxFrames
    /\ setDone \in [Devices -> Nat]
    /\ delivered \in Nat
    /\ received \in [RtCallers -> Nat]
    /\ floor \in [Threads -> [Devices -> Nat]]

Torn(pdo) == pdo[1] # pdo[2]

\* "fully thread safe": a frame carries, and a reader gets, a PDO that one call has
\* written, never words of two, although the two mutexes are taken separately for
\* the copy into the device, the copy into the IO map and the frame.
NothingTorn ==
    \A t \in Threads :
        /\ At(t, "send") => \A d \in Devices : ~Torn(mem["outputs"][d])
        /\ At(t, "release") /\ To[op[t]] = "caller" => ~Torn(local[t])

\* "The data is copied to the bus on the next update_write call": the frame of an
\* update_rt() carries, for every device, the last PDO whose set_rx_pdo() returned
\* before that update_rt() began, or a later one.
SentIsCurrent ==
    \A t \in Threads : At(t, "send") =>
        \A d \in Devices : mem["outputs"][d][1] >= floor[t][d]

\* An accessor returns nothing older than what its caller may know of: get_rx_pdo()
\* the last set_rx_pdo() that returned before it was called, get_tx_pdo() the inputs
\* the last update_rt() that returned before it was called has received.
ReadIsCurrent ==
    \A t \in Apps : At(t, "release") /\ To[op[t]] = "caller" =>
        local[t][2] >= floor[t][dev[t]]

\* Who reads a buffer of a device or the inputs twice never gets the older PDO second: callers
\* of set_rx_pdo(), and of update_rt(), never put an older PDO over a newer one of another
\* caller.  (The outputs may get older: an update_rt() replaces what was written to the bus.)
OnlyGetsNewer ==
    [][\A s \in Stores \ {"outputs"}, d \in Devices, w \in Words :
          mem'[s][d][w] >= mem[s][d][w]]_vars

\* "otherwise update_write will deadlock": the mutexes are taken in one order, the
\* device's before the bus's, and the thread that owns the bus's waits for neither.
LocksAreOrdered ==
    \A t \in Threads :
        /\ busHolder = t => pc[t] \notin {"lockDevice", "lockBus"}
        /\ At(t, "lockDevice") => \A d \in Devices : deviceHolder[d] # t

\* Under FairSpec update_rt() always returns: the application "does not block the bus".
RtReturns == \A t \in RtCallers : pc[t] = "loop" ~> pc[t] = "idle"

-----------------------------------------------------------------------------
(* The inductive invariant behind NothingTorn.                             *)

\* Threads stay in the operations of their role, and a copy starts with word 1.
RolesOK ==
    \A t \in Threads :
        /\ t \in Apps => op[t] \in AppOps /\ pc[t] \notin {"loop", "send", "receive"}
        /\ t \in RtCallers => op[t] \in RtOps
        /\ pc[t] = "lockDevice" => op[t] \in LocksDevice
        /\ pc[t] = "lockBus" => op[t] \in LocksBus
        /\ pc[t] \notin {"copy", "release", "receive"} => word[t] = 1

\* The mutexes are owned exactly by the threads that copy under them.
LocksOK ==
    \A t \in Threads :
        /\ \A d \in Devices :
             deviceHolder[d] = t <=> /\ dev[t] = d
                                    /\ op[t] \in LocksDevice
                                    /\ pc[t] \in {"lockBus", "copy", "release"}
        /\ busHolder = t <=> \/ pc[t] \in {"send", "receive"}
                             \/ pc[t] \in {"copy", "release"} /\ op[t] \in LocksBus

\* Thread t is between the words of a copy of one of these operations.
HalfWay(t, ops) ==
    t \in Threads /\ pc[t] = "copy" /\ word[t] = 2 /\ op[t] \in ops

\* A PDO is torn only while its writer, under the mutex, is between its words; and
\* the word it has copied is the first word of its source.
TornOnlyHalfWay ==
    /\ \A d \in Devices :
         /\ Torn(mem["rxPdo"][d]) => HalfWay(deviceHolder[d], {"set"})
         /\ Torn(mem["txPdo"][d]) => HalfWay(deviceHolder[d], {"updateRead"})
         /\ Torn(mem["outputs"][d]) => /\ HalfWay(busHolder, {"writeRx", "updateWrite"})
                                       /\ dev[busHolder] = d
         /\ Torn(mem["inputs"][d]) => /\ busHolder \in Threads
                                      /\ pc[busHolder] = "receive" /\ word[busHolder] = 2
    /\ \A t \in Threads :
         /\ Torn(local[t]) => HalfWay(t, {"getRx", "getTx", "readRx", "readTx"})
         /\ HalfWay(t, AppOps \cup RtOps) =>
              LET source == IF From[op[t]] = "caller" THEN local[t] ELSE mem[From[op[t]]][dev[t]]
                  target == IF To[op[t]] = "caller" THEN local[t] ELSE mem[To[op[t]]][dev[t]]
              IN target[1] = source[1]

\* Types, roles, the ownership of both mutexes and the state of every half-done copy
\* agree with each other at every moment.
WholeInv == TypeOK /\ RolesOK /\ LocksOK /\ TornOnlyHalfWay

-----------------------------------------------------------------------------
(* The inductive invariant behind SentIsCurrent, ReadIsCurrent and         *)
(* OnlyGetsNewer.                                                          *)

\* The loop o of thread t has copied word w of device d.
HasCopied(t, o, d, w) ==
    /\ op[t] = o /\ d \notin todo[t]
    /\ dev[t] = d => \/ pc[t] \notin {"lockDevice", "lockBus", "copy"}
                     \/ pc[t] = "copy" /\ w < word[t]

\* A frame is exchanged after the loop of update_write(); before a copy begins, and
\* between the copies of update_rt(), a thread has no PDO in its hands.
HandsOK ==
    \A t \in Threads :
        /\ pc[t] \in {"send", "receive"} => op[t] = "updateWrite" /\ todo[t] = {}
        /\ pc[t] \in {"idle", "lockDevice", "lockBus"} \/ t \in RtCallers => local[t] = Pdo(0)

\* What a call may expect had been done when it began.
FloorsOK ==
    \A t \in Threads, d \in Devices :
        /\ floor[t][d] <= IF op[t] = "getTx" THEN delivered ELSE setDone[d]
        /\ op[t] \in {"readRx", "readTx"} => floor[t][d] = 0

\* A writer under the mutex has a newer PDO than the calls before it.
WritersOK ==
    /\ \A d \in Devices :
         /\ setDone[d] <= writes
         /\ \A w \in Words : setDone[d] <= mem["rxPdo"][d][w]
    /\ \A t \in Threads, w \in Words :
         /\ From[op[t]] = "caller" => local[t][w] <= writes
         /\ op[t] = "set" /\ pc[t] \in {"copy", "release"} => setDone[dev[t]] <= local[t][w]
         /\ op[t] = "set" /\ pc[t] = "release" => local[t][2] <= mem["rxPdo"][dev[t]][w]
         /\ op[t] = "writeRx" /\ pc[t] = "copy" =>
              \A u \in RtCallers, v \in Words :
                  HasCopied(u, "updateWrite", dev[t], v) => floor[u][dev[t]] <= local[t][w]

\* What a thread has copied into the IO map stays there or is replaced by something newer.
OutputsOK ==
    \A t \in RtCallers, d \in Devices, w \in Words :
        HasCopied(t, "updateWrite", d, w) => floor[t][d] <= mem["outputs"][d][w]

\* Inputs only get newer, on the IO map and in the buffers of the devices.
InputsOK ==
    \A d \in Devices :
        /\ mem["inputs"][d][1] = frames /\ mem["inputs"][d][2] <= frames
        /\ \A w \in Words :
             /\ delivered <= mem["txPdo"][d][w] /\ mem["txPdo"][d][w] <= mem["inputs"][d][w]
             /\ \A t \in RtCallers :
                  /\ received[t] <= mem["inputs"][d][w]
                  /\ HasCopied(t, "updateRead", d, w) => received[t] <= mem["txPdo"][d][w]

CurrentInv == HandsOK /\ FloorsOK /\ WritersOK /\ OutputsOK /\ InputsOK /\ ReadIsCurrent

\* The writes of set_rx_pdo() are numbered in the order in which they reach the buffer, so
\* that the buffers, too, only get newer.
BuffersOK ==
    \A d \in Devices, w \in Words :
        /\ mem["rxPdo"][d][w] <= writes
        /\ \A t \in Threads : op[t] = "set" /\ pc[t] = "copy" /\ dev[t] = d =>
             mem["rxPdo"][d][w] <= local[t][w]

IInv == WholeInv /\ CurrentInv /\ BuffersOK

-----------------------------------------------------------------------------
(* The refinement.  A PDO that is copied word by word has its old value     *)
(* until the last word is there.                                           *)

CopiesTo(place) == {o \in AppOps \cup RtOps : To[o] = place}
FrameHalfWay == \E t \in RtCallers : pc[t] = "receive" /\ word[t] = 2

Whole(pdo, halfWay) == IF halfWay THEN Pdo(pdo[2]) ELSE pdo

Contents ==
    [s \in Stores |-> [d \in Devices |->
        Whole(mem[s][d], \/ \E t \in Threads : HalfWay(t, CopiesTo(s)) /\ dev[t] = d
                         \/ s = "inputs" /\ FrameHalfWay)]]
InHand == [t \in Threads |-> Whole(local[t], HalfWay(t, CopiesTo("caller")))]
CallOf ==
    [t \in Threads |-> IF pc[t] \in {"lockDevice", "lockBus", "copy", "release"}
                       THEN [op |-> op[t], dev |-> dev[t], done |-> pc[t] = "release"]
                       ELSE [op |-> "none"]]
WholeFrames == IF FrameHalfWay THEN frames - 1 ELSE frames

Registers == INSTANCE PdoRegisters WITH
    Ops <- AppOps \cup RtOps,
    register <- Contents, hand <- InHand, call <- CallOf, number <- writes, frame <- WholeFrames

\* "fully thread safe": every accessor, and every copy of update_rt(), is atomic.  It
\* copies a whole PDO in one step between its begin and its end.
ImplementsRegisters == Registers!RegistersSpec
=============================================================================
