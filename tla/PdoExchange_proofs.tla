------------------------- MODULE PdoExchange_proofs -------------------------
(***************************************************************************)
(* For any number of devices, application threads and callers of           *)
(* update_rt(), no PDO is torn and the mutexes are taken in one order.     *)
(***************************************************************************)
EXTENDS PdoExchange, TLAPS

Ops == AppOps \cup RtOps
ToCaller == {"getRx", "getTx", "readRx", "readTx"}
Quiet(t) == ~(pc[t] = "copy" /\ word[t] = 2) /\ ~(pc[t] = "receive" /\ word[t] = 2)

\* A step of thread t changes nothing of what the others do.
OnlyOf(t) ==
    \A u \in Threads \ {t} :
        pc'[u] = pc[u] /\ op'[u] = op[u] /\ dev'[u] = dev[u] /\ word'[u] = word[u] /\ local'[u] = local[u]

\* A step of thread t takes no mutex from another thread.
KeepsLocks(t) ==
    /\ \A d \in Devices : deviceHolder[d] \in Threads \ {t} => deviceHolder'[d] = deviceHolder[d]
    /\ busHolder \in Threads \ {t} => busHolder' = busHolder

\* Where each operation copies from and to, and which mutex guards it there.
LEMMA Operations ==
    \A o \in Ops :
        /\ From[o] \in Stores \cup {"caller"} /\ To[o] \in Stores \cup {"caller"} /\ From[o] # To[o]
        /\ From[o] \in {"rxPdo", "txPdo"} \/ To[o] \in {"rxPdo", "txPdo"} => o \in LocksDevice
        /\ From[o] \in {"outputs", "inputs"} \/ To[o] \in {"outputs", "inputs"} => o \in LocksBus
        /\ o \in LocksDevice \/ o \in LocksBus
        /\ To[o] = "rxPdo" => o = "set"
        /\ To[o] = "txPdo" => o = "updateRead"
        /\ To[o] = "outputs" => o \in {"writeRx", "updateWrite"}
        /\ To[o] # "inputs"
        /\ To[o] = "caller" <=> o \in ToCaller
        /\ o \in ToCaller => From[o] # "caller"
  BY SMT DEF Ops, AppOps, RtOps, From, To, Stores, LocksDevice, LocksBus, ToCaller

\* A step that neither copies nor receives, of a thread that is not half-way in a copy,
\* leaves no PDO torn without its writer.
LEMMA QuietStep ==
    ASSUME TypeOK, LocksOK, TornOnlyHalfWay, NEW t \in Threads,
           mem' = mem, OnlyOf(t), KeepsLocks(t), Quiet(t), Quiet(t)', ~Torn(local'[t])
    PROVE  TornOnlyHalfWay'
<1> USE DEF OnlyOf, KeepsLocks, Quiet
<1>1. NoThread \notin Threads  BY ThreadsAssumption DEF Threads
<1>2. \A ops : \A u \in Threads : HalfWay(u, ops) => u # t /\ HalfWay(u, ops)'
  BY DEF HalfWay
<1>3. \A ops : \A u \in Threads : HalfWay(u, ops)' => u # t /\ HalfWay(u, ops)
  BY DEF HalfWay
<1>4. ASSUME NEW d \in Devices
      PROVE  /\ Torn(mem["rxPdo"][d])' => HalfWay(deviceHolder[d], {"set"})'
             /\ Torn(mem["txPdo"][d])' => HalfWay(deviceHolder[d], {"updateRead"})'
             /\ Torn(mem["outputs"][d])' => /\ HalfWay(busHolder, {"writeRx", "updateWrite"})'
                                            /\ dev'[busHolder'] = d
             /\ Torn(mem["inputs"][d])' => /\ busHolder' \in Threads
                                           /\ pc'[busHolder'] = "receive" /\ word'[busHolder'] = 2
  <2>1. Torn(mem["rxPdo"][d])' => HalfWay(deviceHolder[d], {"set"})'
    BY DEF TornOnlyHalfWay, HalfWay, Torn
  <2>2. Torn(mem["txPdo"][d])' => HalfWay(deviceHolder[d], {"updateRead"})'
    BY DEF TornOnlyHalfWay, HalfWay, Torn
  <2>3. Torn(mem["outputs"][d])' => /\ HalfWay(busHolder, {"writeRx", "updateWrite"})'
                                    /\ dev'[busHolder'] = d
    BY DEF TornOnlyHalfWay, HalfWay, Torn
  <2>4. Torn(mem["inputs"][d])' => /\ busHolder' \in Threads
                                   /\ pc'[busHolder'] = "receive" /\ word'[busHolder'] = 2
    BY DEF TornOnlyHalfWay, Torn
  <2> QED BY <2>1, <2>2, <2>3, <2>4
<1>5. ASSUME NEW u \in Threads
      PROVE  /\ Torn(local[u])' => HalfWay(u, {"getRx", "getTx", "readRx", "readTx"})'
             /\ HalfWay(u, AppOps \cup RtOps)' =>
                  (LET source == IF From[op[u]] = "caller" THEN local[u] ELSE mem[From[op[u]]][dev[u]]
                       target == IF To[op[u]] = "caller" THEN local[u] ELSE mem[To[op[u]]][dev[u]]
                   IN target[1] = source[1])'
  <2>1. CASE u = t  BY <2>1 DEF HalfWay, Torn
  <2>2. CASE u # t
    <3>1. pc'[u] = pc[u] /\ op'[u] = op[u] /\ dev'[u] = dev[u] /\ word'[u] = word[u] /\ local'[u] = local[u]
      BY <2>2
    <3>2. Torn(local[u])' => HalfWay(u, {"getRx", "getTx", "readRx", "readTx"})'
      BY <3>1 DEF TornOnlyHalfWay, HalfWay, Torn
    <3>3. HalfWay(u, AppOps \cup RtOps)' = HalfWay(u, AppOps \cup RtOps)
      BY <3>1 DEF HalfWay
    <3>4. HalfWay(u, AppOps \cup RtOps) =>
            LET source == IF From[op[u]] = "caller" THEN local[u] ELSE mem[From[op[u]]][dev[u]]
                target == IF To[op[u]] = "caller" THEN local[u] ELSE mem[To[op[u]]][dev[u]]
            IN target[1] = source[1]
      BY DEF TornOnlyHalfWay
    <3> QED BY <3>1, <3>2, <3>3, <3>4
  <2> QED BY <2>1, <2>2
<1> QED BY <1>4, <1>5 DEF TornOnlyHalfWay

-----------------------------------------------------------------------------
(* The invariant.                                                          *)

LEMMA InitWholeInv == Init => WholeInv
<1> SUFFICES ASSUME Init PROVE WholeInv  OBVIOUS
<1> USE ThreadsAssumption, BoundsAssumption DEF Init
<1>1. TypeOK
  <2>1. (CHOOSE d \in Devices : TRUE) \in Devices  BY DevicesAssumption
  <2> QED BY <2>1 DEF TypeOK, Threads, Words, Pdo, AppOps, RtOps
<1>2. RolesOK  BY DEF RolesOK, Threads, AppOps, RtOps
<1>3. LocksOK  BY DEF LocksOK, Threads
<1>4. TornOnlyHalfWay  BY DEF TornOnlyHalfWay, Torn, HalfWay, Pdo, Stores, Words
<1> QED BY <1>1, <1>2, <1>3, <1>4 DEF WholeInv

LEMMA AppCallsPreserves ==
    ASSUME WholeInv, NEW t \in Apps, NEW o \in AppOps, NEW d \in Devices, AppCalls(t, o, d)
    PROVE  WholeInv'
<1> USE ThreadsAssumption, BoundsAssumption DEF WholeInv, Threads
<1>1. /\ pc[t] = "idle" /\ pc' = [pc EXCEPT ![t] = IF o \in LocksDevice THEN "lockDevice" ELSE "lockBus"]
      /\ op' = [op EXCEPT ![t] = o] /\ dev' = [dev EXCEPT ![t] = d] /\ word' = [word EXCEPT ![t] = 1]
      /\ UNCHANGED <<mem, local, deviceHolder, busHolder, todo, writes, frames, setDone, delivered, received>>
  BY DEF AppCalls, BeginCopy, At, Goto, memoryVars, lockVars
<1>2. calls' \in 0..MaxWrites  BY DEF AppCalls, TypeOK
<1>3. floor' \in [Threads -> [Devices -> Nat]]  BY DEF AppCalls, TypeOK
<1>4. TypeOK'  BY <1>1, <1>2, <1>3 DEF TypeOK, Words
<1>5. RolesOK'
  <2>1. o \in LocksDevice \/ o \in LocksBus  BY Operations DEF Ops
  <2> QED BY <1>1, <2>1 DEF RolesOK, TypeOK
<1>6. LocksOK'  BY <1>1 DEF LocksOK, TypeOK
<1>7. TornOnlyHalfWay'
  <2>1. OnlyOf(t) /\ KeepsLocks(t)  BY <1>1 DEF OnlyOf, KeepsLocks, TypeOK
  <2>2. Quiet(t) /\ Quiet(t)'  BY <1>1 DEF Quiet, TypeOK
  <2>3. ~Torn(local'[t])  BY <1>1 DEF TornOnlyHalfWay, HalfWay
  <2> QED BY <1>1, <2>1, <2>2, <2>3, QuietStep
<1> QED BY <1>4, <1>5, <1>6, <1>7

LEMMA LockDevicePreserves ==
    ASSUME WholeInv, NEW t \in Threads, LockDevice(t)
    PROVE  WholeInv'
<1> USE ThreadsAssumption, BoundsAssumption DEF WholeInv
<1>1. /\ pc[t] = "lockDevice" /\ deviceHolder[dev[t]] = NoThread
      /\ pc' = [pc EXCEPT ![t] = IF op[t] \in LocksBus THEN "lockBus" ELSE "copy"]
      /\ deviceHolder' = [deviceHolder EXCEPT ![dev[t]] = t]
      /\ UNCHANGED <<mem, busHolder, op, dev, word, todo, calls, frames, setDone, delivered, received, floor>>
  BY DEF LockDevice, DeviceFree, At, Goto, history
<1>2. /\ writes' \in Nat /\ local' \in [Threads -> [Words -> Nat]]
      /\ \A u \in Threads \ {t} : local'[u] = local[u]
      /\ ~Torn(local'[t])
  <2>1. ~Torn(local[t])  BY <1>1 DEF TornOnlyHalfWay, HalfWay
  <2>2. CASE From[op[t]] = "caller"
    <3>1. writes' = writes + 1 /\ local' = [local EXCEPT ![t] = Pdo(writes + 1)]
      BY <2>2 DEF LockDevice, NumberWrite
    <3>2. Pdo(writes + 1) \in [Words -> Nat] /\ ~Torn(Pdo(writes + 1)) /\ writes + 1 \in Nat
      BY DEF Pdo, Torn, Words, TypeOK
    <3> QED BY <3>1, <3>2 DEF TypeOK
  <2>3. CASE From[op[t]] # "caller"  BY <2>1, <2>3 DEF LockDevice, NumberWrite, TypeOK
  <2> QED BY <2>2, <2>3
<1>3. TypeOK'  BY <1>1, <1>2 DEF TypeOK
<1>4. RolesOK'  BY <1>1 DEF RolesOK, TypeOK
<1>5. LocksOK'
  <2>1. op[t] \in LocksDevice  BY <1>1 DEF RolesOK
  <2>2. NoThread \notin Threads  BY DEF Threads
  <2> QED BY <1>1, <2>1, <2>2 DEF LocksOK, TypeOK
<1>6. TornOnlyHalfWay'
  <2>1. OnlyOf(t) /\ KeepsLocks(t)
    <3>1. NoThread \notin Threads  BY DEF Threads
    <3> QED BY <1>1, <1>2, <3>1 DEF OnlyOf, KeepsLocks, TypeOK
  <2>2. Quiet(t) /\ Quiet(t)'
    <3>1. word[t] = 1 /\ word'[t] = 1  BY <1>1 DEF RolesOK
    <3>2. pc[t] # "receive" /\ pc'[t] # "receive"  BY <1>1 DEF TypeOK
    <3> QED BY <3>1, <3>2 DEF Quiet
  <2> QED BY <1>1, <1>2, <2>1, <2>2, QuietStep
<1> QED BY <1>3, <1>4, <1>5, <1>6

LEMMA LockBusPreserves ==
    ASSUME WholeInv, NEW t \in Threads, LockBus(t)
    PROVE  WholeInv'
<1> USE ThreadsAssumption, BoundsAssumption DEF WholeInv
<1>1. /\ pc[t] = "lockBus" /\ busHolder = NoThread /\ busHolder' = t
      /\ pc' = [pc EXCEPT ![t] = "copy"]
      /\ UNCHANGED <<mem, deviceHolder, op, dev, word, todo, calls, frames, setDone, delivered, received, floor>>
  BY DEF LockBus, At, Goto, history
<1>2. /\ writes' \in Nat /\ local' \in [Threads -> [Words -> Nat]]
      /\ \A u \in Threads \ {t} : local'[u] = local[u]
      /\ ~Torn(local'[t])
  <2>1. ~Torn(local[t])  BY <1>1 DEF TornOnlyHalfWay, HalfWay
  <2>2. CASE From[op[t]] = "caller"
    <3>1. writes' = writes + 1 /\ local' = [local EXCEPT ![t] = Pdo(writes + 1)]
      BY <2>2 DEF LockBus, NumberWrite
    <3>2. Pdo(writes + 1) \in [Words -> Nat] /\ ~Torn(Pdo(writes + 1)) /\ writes + 1 \in Nat
      BY DEF Pdo, Torn, Words, TypeOK
    <3> QED BY <3>1, <3>2 DEF TypeOK
  <2>3. CASE From[op[t]] # "caller"  BY <2>1, <2>3 DEF LockBus, NumberWrite, TypeOK
  <2> QED BY <2>2, <2>3
<1>3. TypeOK'  BY <1>1, <1>2 DEF TypeOK
<1>4. RolesOK'  BY <1>1 DEF RolesOK, TypeOK
<1>5. LocksOK'
  <2>1. op[t] \in LocksBus  BY <1>1 DEF RolesOK
  <2>2. NoThread \notin Threads  BY DEF Threads
  <2> QED BY <1>1, <2>1, <2>2 DEF LocksOK, TypeOK
<1>6. TornOnlyHalfWay'
  <2>1. OnlyOf(t) /\ KeepsLocks(t)
    <3>1. NoThread \notin Threads  BY DEF Threads
    <3> QED BY <1>1, <1>2, <3>1 DEF OnlyOf, KeepsLocks, TypeOK
  <2>2. Quiet(t) /\ Quiet(t)'
    <3>1. word[t] = 1 /\ word'[t] = 1  BY <1>1 DEF RolesOK
    <3>2. pc[t] # "receive" /\ pc'[t] # "receive"  BY <1>1 DEF TypeOK
    <3> QED BY <3>1, <3>2 DEF Quiet
  <2> QED BY <1>1, <1>2, <2>1, <2>2, QuietStep
<1> QED BY <1>3, <1>4, <1>5, <1>6

LEMMA ReleasePreserves ==
    ASSUME WholeInv, NEW t \in Threads, Release(t)
    PROVE  WholeInv'
<1> USE ThreadsAssumption, BoundsAssumption DEF WholeInv
<1>1. /\ pc[t] = "release"
      /\ deviceHolder' = [d \in Devices |-> IF deviceHolder[d] = t THEN NoThread ELSE deviceHolder[d]]
      /\ busHolder' = IF busHolder = t THEN NoThread ELSE busHolder
      /\ word' = [word EXCEPT ![t] = 1]
      /\ UNCHANGED <<mem, dev, todo, calls, writes, frames, delivered, received>>
  BY DEF Release, At, counters
<1>2. /\ t \in Apps => /\ pc' = [pc EXCEPT ![t] = "idle"] /\ op' = [op EXCEPT ![t] = "set"]
                       /\ local' = [local EXCEPT ![t] = Pdo(0)]
      /\ t \notin Apps => pc' = [pc EXCEPT ![t] = "loop"] /\ UNCHANGED <<op, local>>
  BY DEF Release, Goto
<1>3. setDone' \in [Devices -> Nat]
  <2>1. local[t][2] \in Nat  BY DEF TypeOK, Words
  <2> QED BY <2>1 DEF Release, TypeOK
<1>4. local' \in [Threads -> [Words -> Nat]] /\ ~Torn(local'[t]) /\ \A u \in Threads \ {t} : local'[u] = local[u]
  <2>1. ~Torn(local[t])  BY <1>1 DEF TornOnlyHalfWay, HalfWay
  <2>2. Pdo(0) \in [Words -> Nat] /\ ~Torn(Pdo(0))  BY DEF Pdo, Torn, Words
  <2>3. CASE t \in Apps
    <3>1. local' = [local EXCEPT ![t] = Pdo(0)]  BY <1>2, <2>3
    <3>2. local' \in [Threads -> [Words -> Nat]]  BY <2>2, <3>1 DEF TypeOK
    <3>3. local'[t] = Pdo(0) /\ \A u \in Threads \ {t} : local'[u] = local[u]  BY <3>1 DEF TypeOK
    <3> QED BY <2>2, <3>2, <3>3
  <2>4. CASE t \notin Apps  BY <1>2, <2>1, <2>4 DEF TypeOK
  <2> QED BY <2>3, <2>4
<1>5. op' \in [Threads -> AppOps \cup RtOps] /\ floor' \in [Threads -> [Devices -> Nat]]
  <2>1. CASE t \in Apps
    <3>1. "set" \in AppOps \cup RtOps  BY DEF AppOps
    <3>2. op' \in [Threads -> AppOps \cup RtOps]  BY <1>2, <2>1, <3>1 DEF TypeOK
    <3>3. floor' = [floor EXCEPT ![t] = [d \in Devices |-> 0]]  BY <2>1 DEF Release
    <3>4. [d \in Devices |-> 0] \in [Devices -> Nat]  OBVIOUS
    <3> QED BY <3>2, <3>3, <3>4 DEF TypeOK
  <2>2. CASE t \notin Apps  BY <1>2, <2>2 DEF Release, TypeOK
  <2> QED BY <2>1, <2>2
<1>6. TypeOK'
  <2>1. pc' \in [Threads -> {"idle", "lockDevice", "lockBus", "copy", "release", "loop", "send", "receive"}]
    BY <1>2 DEF TypeOK
  <2>2. deviceHolder' \in [Devices -> Threads \cup {NoThread}] /\ busHolder' \in Threads \cup {NoThread}
    BY <1>1 DEF TypeOK
  <2>3. word' \in [Threads -> Words]  BY <1>1 DEF TypeOK, Words
  <2> QED BY <1>1, <1>3, <1>4, <1>5, <2>1, <2>2, <2>3 DEF TypeOK
<1>7. RolesOK'  BY <1>1, <1>2 DEF RolesOK, TypeOK, AppOps, Threads
<1>8. LocksOK'
  <2>1. NoThread \notin Threads  BY DEF Threads
  <2>2. CASE t \in Apps  BY <1>1, <1>2, <2>1, <2>2 DEF LocksOK, TypeOK
  <2>3. CASE t \notin Apps  BY <1>1, <1>2, <2>1, <2>3 DEF LocksOK, TypeOK
  <2> QED BY <2>2, <2>3
<1>9. TornOnlyHalfWay'
  <2>1. OnlyOf(t)  BY <1>1, <1>2, <1>4 DEF OnlyOf, TypeOK
  <2>2. KeepsLocks(t)  BY <1>1 DEF KeepsLocks, TypeOK
  <2>3. Quiet(t) /\ Quiet(t)'  BY <1>1, <1>2 DEF Quiet, TypeOK
  <2> QED BY <1>1, <1>4, <2>1, <2>2, <2>3, QuietStep
<1> QED BY <1>6, <1>7, <1>8, <1>9

LEMMA RtBeginPreserves ==
    ASSUME WholeInv, NEW t \in RtCallers, RtBegin(t)
    PROVE  WholeInv'
<1> USE ThreadsAssumption, BoundsAssumption DEF WholeInv, Threads
<1>1. /\ pc[t] = "idle" /\ pc' = [pc EXCEPT ![t] = "loop"] /\ op' = [op EXCEPT ![t] = "updateWrite"]
      /\ todo' = [todo EXCEPT ![t] = Devices] /\ floor' = [floor EXCEPT ![t] = setDone]
      /\ UNCHANGED <<mem, local, deviceHolder, busHolder, dev, word, calls, writes, frames,
                     setDone, delivered, received>>
  BY DEF RtBegin, At, Goto, memoryVars, lockVars, counters
<1>2. TypeOK'  BY <1>1 DEF TypeOK, RtOps
<1>3. RolesOK'  BY <1>1 DEF RolesOK, TypeOK, RtOps
<1>4. LocksOK'  BY <1>1 DEF LocksOK, TypeOK
<1>5. TornOnlyHalfWay'
  <2>1. OnlyOf(t) /\ KeepsLocks(t)  BY <1>1 DEF OnlyOf, KeepsLocks, TypeOK
  <2>2. Quiet(t) /\ Quiet(t)'  BY <1>1 DEF Quiet, TypeOK
  <2>3. ~Torn(local'[t])  BY <1>1 DEF TornOnlyHalfWay, HalfWay
  <2> QED BY <1>1, <2>1, <2>2, <2>3, QuietStep
<1> QED BY <1>2, <1>3, <1>4, <1>5

LEMMA RtVisitPreserves ==
    ASSUME WholeInv, NEW t \in RtCallers, RtVisit(t)
    PROVE  WholeInv'
<1> USE ThreadsAssumption, BoundsAssumption DEF WholeInv, Threads
<1>1. PICK d \in todo[t] : BeginCopy(t, op[t], d) /\ todo' = [todo EXCEPT ![t] = @ \ {d}]
  BY DEF RtVisit
<1>2. /\ d \in Devices /\ op[t] \in RtOps /\ op[t] \in LocksDevice
      /\ pc[t] = "loop" /\ pc' = [pc EXCEPT ![t] = "lockDevice"] /\ op' = op
      /\ dev' = [dev EXCEPT ![t] = d] /\ word' = [word EXCEPT ![t] = 1]
      /\ UNCHANGED <<mem, local, deviceHolder, busHolder, calls, writes, frames,
                     setDone, delivered, received, floor>>
  <2>1. d \in Devices  BY DEF TypeOK
  <2>2. op[t] \in RtOps /\ op[t] \in LocksDevice  BY DEF RolesOK, LocksDevice
  <2> QED BY <1>1, <2>1, <2>2
          DEF RtVisit, BeginCopy, At, Goto, TypeOK, memoryVars, lockVars, counters, history
<1>3. TypeOK'  BY <1>1, <1>2 DEF TypeOK, Words
<1>4. RolesOK'  BY <1>2 DEF RolesOK, TypeOK
<1>5. LocksOK'  BY <1>2 DEF LocksOK, TypeOK
<1>6. TornOnlyHalfWay'
  <2>1. OnlyOf(t) /\ KeepsLocks(t)  BY <1>2 DEF OnlyOf, KeepsLocks, TypeOK
  <2>2. Quiet(t) /\ Quiet(t)' /\ ~Torn(local'[t])
    BY <1>2 DEF Quiet, TypeOK, TornOnlyHalfWay, HalfWay
  <2> QED BY <1>2, <2>1, <2>2, QuietStep
<1> QED BY <1>3, <1>4, <1>5, <1>6

LEMMA RtLockFramePreserves ==
    ASSUME WholeInv, NEW t \in RtCallers, RtLockFrame(t)
    PROVE  WholeInv'
<1> USE ThreadsAssumption, BoundsAssumption DEF WholeInv, Threads
<1>1. /\ pc[t] = "loop" /\ busHolder = NoThread /\ busHolder' = t /\ pc' = [pc EXCEPT ![t] = "send"]
      /\ UNCHANGED <<mem, local, deviceHolder, op, dev, word, todo, calls, writes, frames,
                     setDone, delivered, received, floor>>
  BY DEF RtLockFrame, At, Goto, memoryVars, counters, history
<1>2. TypeOK'  BY <1>1 DEF TypeOK
<1>3. word[t] = 1  BY <1>1 DEF RolesOK
<1>4. RolesOK'  BY <1>1, <1>3 DEF RolesOK, TypeOK
<1>5. LocksOK'  BY <1>1 DEF LocksOK, TypeOK
<1>6. TornOnlyHalfWay'
  <2>1. OnlyOf(t) /\ KeepsLocks(t)  BY <1>1 DEF OnlyOf, KeepsLocks, TypeOK
  <2>2. Quiet(t) /\ Quiet(t)'  BY <1>1 DEF Quiet, TypeOK
  <2>3. ~Torn(local'[t])  BY <1>1 DEF TornOnlyHalfWay, HalfWay
  <2> QED BY <1>1, <2>1, <2>2, <2>3, QuietStep
<1> QED BY <1>2, <1>4, <1>5, <1>6

LEMMA RtSendPreserves ==
    ASSUME WholeInv, NEW t \in RtCallers, RtSend(t)
    PROVE  WholeInv'
<1> USE ThreadsAssumption, BoundsAssumption DEF WholeInv, Threads
<1>1. /\ pc[t] = "send" /\ pc' = [pc EXCEPT ![t] = "receive"] /\ word' = [word EXCEPT ![t] = 1]
      /\ UNCHANGED <<mem, local, deviceHolder, busHolder, op, dev, todo, calls, writes, frames,
                     setDone, delivered, received, floor>>
  BY DEF RtSend, At, Goto, memoryVars, lockVars, counters, history
<1>2. TypeOK'  BY <1>1 DEF TypeOK, Words
<1>3. RolesOK'  BY <1>1 DEF RolesOK, TypeOK
<1>4. LocksOK'  BY <1>1 DEF LocksOK, TypeOK
<1>5. TornOnlyHalfWay'
  <2>1. OnlyOf(t) /\ KeepsLocks(t)  BY <1>1 DEF OnlyOf, KeepsLocks, TypeOK
  <2>2. Quiet(t) /\ Quiet(t)'  BY <1>1 DEF Quiet, TypeOK
  <2>3. ~Torn(local'[t])  BY <1>1 DEF TornOnlyHalfWay, HalfWay
  <2> QED BY <1>1, <2>1, <2>2, <2>3, QuietStep
<1> QED BY <1>2, <1>3, <1>4, <1>5

LEMMA RtEndPreserves ==
    ASSUME WholeInv, NEW t \in RtCallers, RtEnd(t)
    PROVE  WholeInv'
<1> USE ThreadsAssumption, BoundsAssumption DEF WholeInv, Threads
<1>1. /\ pc[t] = "loop" /\ pc' = [pc EXCEPT ![t] = "idle"] /\ op' = [op EXCEPT ![t] = "updateWrite"]
      /\ received' = [received EXCEPT ![t] = 0]
      /\ UNCHANGED <<mem, local, deviceHolder, busHolder, dev, word, todo, calls, writes, frames, setDone>>
  BY DEF RtEnd, At, Goto, memoryVars, lockVars, counters
<1>2. delivered' \in Nat  BY DEF RtEnd, Bigger, TypeOK
<1>3. floor' \in [Threads -> [Devices -> Nat]]
  <2>1. floor' = [floor EXCEPT ![t] = [d \in Devices |-> 0]]  BY DEF RtEnd
  <2>2. [d \in Devices |-> 0] \in [Devices -> Nat]  OBVIOUS
  <2> QED BY <2>1, <2>2 DEF TypeOK
<1>4. TypeOK'  BY <1>1, <1>2, <1>3 DEF TypeOK, RtOps
<1>5. RolesOK'  BY <1>1 DEF RolesOK, TypeOK, RtOps
<1>6. LocksOK'  BY <1>1 DEF LocksOK, TypeOK
<1>7. TornOnlyHalfWay'
  <2>1. OnlyOf(t) /\ KeepsLocks(t)  BY <1>1 DEF OnlyOf, KeepsLocks, TypeOK
  <2>2. Quiet(t) /\ Quiet(t)'  BY <1>1 DEF Quiet, TypeOK
  <2>3. ~Torn(local'[t])  BY <1>1 DEF TornOnlyHalfWay, HalfWay
  <2> QED BY <1>1, <2>1, <2>2, <2>3, QuietStep
<1> QED BY <1>4, <1>5, <1>6, <1>7

\* Two threads that copy from or to the same place are one.
LEMMA Exclusive ==
    ASSUME TypeOK, LocksOK, NEW t \in Threads, NEW u \in Threads, NEW s \in Stores,
           pc[t] = "copy", pc[u] = "copy", dev[t] = dev[u],
           From[op[t]] = s \/ To[op[t]] = s, From[op[u]] = s \/ To[op[u]] = s
    PROVE  t = u
<1>1. op[t] \in Ops /\ op[u] \in Ops /\ dev[t] \in Devices  BY DEF TypeOK, Ops
<1>2. CASE s \in {"rxPdo", "txPdo"}
  <2>1. op[t] \in LocksDevice /\ op[u] \in LocksDevice  BY <1>1, <1>2, Operations
  <2>2. deviceHolder[dev[t]] = t /\ deviceHolder[dev[t]] = u  BY <1>1, <2>1 DEF LocksOK
  <2> QED BY <2>2
<1>3. CASE s \in {"outputs", "inputs"}
  <2>1. op[t] \in LocksBus /\ op[u] \in LocksBus  BY <1>1, <1>3, Operations
  <2>2. busHolder = t /\ busHolder = u  BY <2>1 DEF LocksOK
  <2> QED BY <2>2
<1> QED BY <1>2, <1>3 DEF Stores

Source(t) == IF From[op[t]] = "caller" THEN local[t] ELSE mem[From[op[t]]][dev[t]]
Target(t) == IF To[op[t]] = "caller" THEN local[t] ELSE mem[To[op[t]]][dev[t]]

\* What a thread copies from is not torn, and neither is what it has not begun to write.
LEMMA SourceIsWhole ==
    ASSUME WholeInv, NEW t \in Threads, pc[t] = "copy"
    PROVE  ~Torn(Source(t))
<1> USE DEF WholeInv
<1>1. op[t] \in Ops /\ dev[t] \in Devices  BY DEF TypeOK, Ops
<1>2. From[op[t]] \in Stores \cup {"caller"} /\ From[op[t]] # To[op[t]]  BY <1>1, Operations
<1>3. CASE From[op[t]] = "caller"
  <2>1. op[t] \notin ToCaller  BY <1>1, <1>3, Operations
  <2>2. ~Torn(local[t])  BY <2>1 DEF TornOnlyHalfWay, HalfWay, ToCaller
  <2> QED BY <1>3, <2>2 DEF Source
<1>4. CASE From[op[t]] = "rxPdo"
  <2>1. op[t] \in LocksDevice /\ op[t] # "set"  BY <1>1, <1>4, Operations DEF From
  <2>2. deviceHolder[dev[t]] = t  BY <1>1, <2>1 DEF LocksOK
  <2> QED BY <1>1, <1>4, <2>1, <2>2 DEF TornOnlyHalfWay, HalfWay, Source
<1>5. CASE From[op[t]] = "txPdo"
  <2>1. op[t] \in LocksDevice /\ op[t] # "updateRead"  BY <1>1, <1>5, Operations DEF From
  <2>2. deviceHolder[dev[t]] = t  BY <1>1, <2>1 DEF LocksOK
  <2> QED BY <1>1, <1>5, <2>1, <2>2 DEF TornOnlyHalfWay, HalfWay, Source
<1>6. CASE From[op[t]] = "outputs"
  <2>1. op[t] \in LocksBus /\ op[t] \notin {"writeRx", "updateWrite"}  BY <1>1, <1>6, Operations DEF From
  <2>2. busHolder = t  BY <2>1 DEF LocksOK
  <2> QED BY <1>1, <1>6, <2>1, <2>2 DEF TornOnlyHalfWay, HalfWay, Source
<1>7. CASE From[op[t]] = "inputs"
  <2>1. op[t] \in LocksBus  BY <1>1, <1>7, Operations
  <2>2. busHolder = t  BY <2>1 DEF LocksOK
  <2> QED BY <1>1, <1>7, <2>2 DEF TornOnlyHalfWay, Source
<1> QED BY <1>2, <1>3, <1>4, <1>5, <1>6, <1>7 DEF Stores

\* The parts of the invariant other than TornOnlyHalfWay, and what a copied word changes.
LEMMA CopyWordFrame ==
    ASSUME WholeInv, NEW t \in Threads, CopyWord(t)
    PROVE  /\ TypeOK' /\ RolesOK' /\ LocksOK'
           /\ pc[t] = "copy" /\ word[t] \in Words
           /\ Source(t) \in [Words -> Nat]
           /\ IF To[op[t]] = "caller"
              THEN local' = [local EXCEPT ![t][word[t]] = Source(t)[word[t]]] /\ mem' = mem
              ELSE mem' = [mem EXCEPT ![To[op[t]]][dev[t]][word[t]] = Source(t)[word[t]]] /\ local' = local
           /\ word[t] = 1 => word' = [word EXCEPT ![t] = 2] /\ pc' = pc
           /\ word[t] = 2 => word' = word /\ pc' = [pc EXCEPT ![t] = "release"]
           /\ UNCHANGED <<deviceHolder, busHolder, op, dev>>
<1> USE ThreadsAssumption, BoundsAssumption DEF WholeInv
<1>1. pc[t] = "copy" /\ word[t] \in {1, 2} /\ word[t] \in Words /\ dev[t] \in Devices /\ op[t] \in Ops
  BY DEF CopyWord, At, TypeOK, Words, Ops
<1>2. UNCHANGED <<deviceHolder, busHolder, op, dev, todo, calls, writes, frames, setDone,
                  delivered, received, floor>>
  BY DEF CopyWord, lockVars, counters, history
<1>3. /\ word[t] = 1 => word' = [word EXCEPT ![t] = 2] /\ pc' = pc
      /\ word[t] = 2 => word' = word /\ pc' = [pc EXCEPT ![t] = "release"]
  BY DEF CopyWord, Goto
<1>4. Source(t) \in [Words -> Nat]
  <2>1. From[op[t]] \in Stores \cup {"caller"}  BY <1>1, Operations
  <2> QED BY <1>1, <2>1 DEF Source, TypeOK
<1>5. IF To[op[t]] = "caller"
      THEN local' = [local EXCEPT ![t][word[t]] = Source(t)[word[t]]] /\ mem' = mem
      ELSE mem' = [mem EXCEPT ![To[op[t]]][dev[t]][word[t]] = Source(t)[word[t]]] /\ local' = local
  BY DEF CopyWord, Source
<1>6. Source(t)[word[t]] \in Nat  BY <1>1, <1>4
<1>7. local' \in [Threads -> [Words -> Nat]] /\ mem' \in [Stores -> [Devices -> [Words -> Nat]]]
  <2>1. To[op[t]] \in Stores \cup {"caller"}  BY <1>1, Operations
  <2> DEFINE v == Source(t)[word[t]]
             w == word[t]
             s == To[op[t]]
             d == dev[t]
  <2>2. v \in Nat /\ w \in Words /\ d \in Devices  BY <1>1, <1>6
  <2>3. mem \in [Stores -> [Devices -> [Words -> Nat]]] /\ local \in [Threads -> [Words -> Nat]]
    BY DEF TypeOK
  <2>4. CASE s = "caller"
    <3>1. local' = [local EXCEPT ![t][w] = v] /\ mem' = mem  BY <1>5, <2>4
    <3> HIDE DEF v, w
    <3>2. [local[t] EXCEPT ![w] = v] \in [Words -> Nat]  BY <2>2, <2>3
    <3> QED BY <2>3, <3>1, <3>2
  <2>5. CASE s # "caller"
    <3>1. mem' = [mem EXCEPT ![s][d][w] = v] /\ local' = local  BY <1>5, <2>5
    <3>2. s \in Stores  BY <2>1, <2>5
    <3> HIDE DEF v, w, s, d
    <3>3. [mem[s][d] EXCEPT ![w] = v] \in [Words -> Nat]  BY <2>2, <2>3, <3>2
    <3>4. [mem[s] EXCEPT ![d][w] = v] \in [Devices -> [Words -> Nat]]  BY <2>2, <2>3, <3>2, <3>3
    <3> QED BY <2>2, <2>3, <3>1, <3>2, <3>4
  <2> QED BY <2>4, <2>5
<1>8. TypeOK'
  <2>1. word' \in [Threads -> Words]
    <3>1. 2 \in Words  BY DEF Words
    <3> QED BY <1>1, <1>3, <3>1 DEF TypeOK
  <2>2. pc' \in [Threads -> {"idle", "lockDevice", "lockBus", "copy", "release", "loop", "send", "receive"}]
    BY <1>1, <1>3 DEF TypeOK
  <2> QED BY <1>2, <1>7, <2>1, <2>2 DEF TypeOK
<1>9. CASE word[t] = 1
  <2>1. RolesOK'  BY <1>1, <1>2, <1>3, <1>9 DEF RolesOK, TypeOK
  <2>2. LocksOK'  BY <1>1, <1>2, <1>3, <1>9 DEF LocksOK, TypeOK
  <2> QED BY <1>1, <1>2, <1>3, <1>4, <1>5, <1>8, <2>1, <2>2
<1>10. CASE word[t] = 2
  <2>1. RolesOK'
    <3> SUFFICES ASSUME NEW u \in Threads
                 PROVE  /\ u \in Apps => op[u] \in AppOps /\ pc'[u] \notin {"loop", "send", "receive"}
                        /\ u \in RtCallers => op[u] \in RtOps
                        /\ pc'[u] = "lockDevice" => op[u] \in LocksDevice
                        /\ pc'[u] = "lockBus" => op[u] \in LocksBus
                        /\ pc'[u] \notin {"copy", "release", "receive"} => word[u] = 1
      BY <1>2, <1>3, <1>10 DEF RolesOK
    <3>1. pc' = [pc EXCEPT ![t] = "release"]  BY <1>3, <1>10
    <3>2. CASE u = t  BY <3>1, <3>2 DEF RolesOK, TypeOK
    <3>3. CASE u # t
      <4>1. pc'[u] = pc[u]  BY <3>1, <3>3 DEF TypeOK
      <4> QED BY <4>1 DEF RolesOK
    <3> QED BY <3>2, <3>3
  <2>2. LocksOK'
    <3>1. pc' = [pc EXCEPT ![t] = "release"]  BY <1>3, <1>10
    <3>2. \A u \in Threads : /\ pc'[u] \in {"copy", "release"} <=> pc[u] \in {"copy", "release"}
                             /\ pc'[u] = "lockBus" <=> pc[u] = "lockBus"
                             /\ pc'[u] \in {"send", "receive"} <=> pc[u] \in {"send", "receive"}
      BY <1>1, <3>1 DEF TypeOK
    <3>3. UNCHANGED <<deviceHolder, busHolder, op, dev>>  BY <1>2
    <3> QED BY <3>2, <3>3 DEF LocksOK
  <2> QED BY <1>1, <1>2, <1>3, <1>4, <1>5, <1>8, <2>1, <2>2
<1> QED BY <1>1, <1>9, <1>10

\* TornOnlyHalfWay, by the parts a step can disturb.
StoresOK ==
    \A d \in Devices :
        /\ Torn(mem["rxPdo"][d]) => HalfWay(deviceHolder[d], {"set"})
        /\ Torn(mem["txPdo"][d]) => HalfWay(deviceHolder[d], {"updateRead"})
        /\ Torn(mem["outputs"][d]) => /\ HalfWay(busHolder, {"writeRx", "updateWrite"})
                                      /\ dev[busHolder] = d
        /\ Torn(mem["inputs"][d]) => /\ busHolder \in Threads
                                     /\ pc[busHolder] = "receive" /\ word[busHolder] = 2
CopiesOK(u) ==
    /\ Torn(local[u]) => HalfWay(u, ToCaller)
    /\ HalfWay(u, Ops) => Target(u)[1] = Source(u)[1]

LEMMA TornParts == TornOnlyHalfWay <=> StoresOK /\ \A u \in Threads : CopiesOK(u)
  BY DEF TornOnlyHalfWay, StoresOK, CopiesOK, Source, Target, ToCaller, Ops

LEMMA CopyToCaller ==
    ASSUME WholeInv, NEW t \in Threads, CopyWord(t), To[op[t]] = "caller"
    PROVE  TornOnlyHalfWay'
<1> USE DEF WholeInv
<1>1. /\ pc[t] = "copy" /\ word[t] \in {1, 2} /\ Source(t) \in [Words -> Nat] /\ mem' = mem
      /\ local' = [local EXCEPT ![t][word[t]] = Source(t)[word[t]]]
      /\ word[t] = 1 => word' = [word EXCEPT ![t] = 2] /\ pc' = pc
      /\ word[t] = 2 => word' = word /\ pc' = [pc EXCEPT ![t] = "release"]
      /\ UNCHANGED <<deviceHolder, busHolder, op, dev>>
  BY CopyWordFrame DEF Words
<1>2. op[t] \in Ops /\ op[t] \in ToCaller /\ From[op[t]] # "caller"
  <2>1. op[t] \in Ops  BY DEF TypeOK, Ops
  <2> QED BY <2>1, Operations
<1>3. /\ Source(t)' = Source(t) /\ Target(t)' = local'[t] /\ Target(t) = local[t]
  BY <1>1, <1>2 DEF Source, Target
<1>4. \A u \in Threads \ {t} : pc'[u] = pc[u] /\ word'[u] = word[u] /\ local'[u] = local[u]
  BY <1>1 DEF TypeOK
<1>5. StoresOK /\ \A u \in Threads : CopiesOK(u)  BY TornParts
<1>7. StoresOK'
  <2> SUFFICES ASSUME NEW d \in Devices
               PROVE  /\ Torn(mem["rxPdo"][d]) => HalfWay(deviceHolder[d], {"set"})'
                      /\ Torn(mem["txPdo"][d]) => HalfWay(deviceHolder[d], {"updateRead"})'
                      /\ Torn(mem["outputs"][d]) => /\ HalfWay(busHolder, {"writeRx", "updateWrite"})'
                                                    /\ dev[busHolder] = d
                      /\ Torn(mem["inputs"][d]) => /\ busHolder \in Threads
                                                   /\ pc'[busHolder] = "receive" /\ word'[busHolder] = 2
    BY <1>1 DEF StoresOK, Torn
  <2>4. Torn(mem["rxPdo"][d]) => HalfWay(deviceHolder[d], {"set"})'
    <3>1. Torn(mem["rxPdo"][d]) => HalfWay(deviceHolder[d], {"set"})  BY <1>5 DEF StoresOK
    <3> QED BY <3>1, <1>1, <1>2, <1>4 DEF HalfWay, ToCaller
  <2>5. Torn(mem["txPdo"][d]) => HalfWay(deviceHolder[d], {"updateRead"})'
    <3>1. Torn(mem["txPdo"][d]) => HalfWay(deviceHolder[d], {"updateRead"})  BY <1>5 DEF StoresOK
    <3> QED BY <3>1, <1>1, <1>2, <1>4 DEF HalfWay, ToCaller
  <2>6. Torn(mem["outputs"][d]) => /\ HalfWay(busHolder, {"writeRx", "updateWrite"})'
                                   /\ dev[busHolder] = d
    <3>1. Torn(mem["outputs"][d]) => HalfWay(busHolder, {"writeRx", "updateWrite"}) /\ dev[busHolder] = d
      BY <1>5 DEF StoresOK
    <3> QED BY <3>1, <1>1, <1>2, <1>4 DEF HalfWay, ToCaller
  <2>7. Torn(mem["inputs"][d]) => /\ busHolder \in Threads
                                  /\ pc'[busHolder] = "receive" /\ word'[busHolder] = 2
    <3>1. Torn(mem["inputs"][d]) => /\ busHolder \in Threads
                                    /\ pc[busHolder] = "receive" /\ word[busHolder] = 2
      BY <1>5 DEF StoresOK
    <3> QED BY <3>1, <1>1, <1>4
  <2> QED BY <2>4, <2>5, <2>6, <2>7
<1>8. CopiesOK(t)'
  <2>1. local[t] \in [Words -> Nat] /\ ~Torn(Source(t))  BY <1>1, SourceIsWhole DEF TypeOK
  <2>2. local'[t] = [local[t] EXCEPT ![word[t]] = Source(t)[word[t]]]  BY <1>1 DEF TypeOK
  <2>3. CASE word[t] = 1
    <3>1. HalfWay(t, ToCaller)'  BY <1>1, <1>2, <2>3 DEF HalfWay, TypeOK
    <3>2. local'[t][1] = Source(t)[1]  BY <2>1, <2>2, <2>3 DEF Words
    <3> QED BY <1>3, <3>1, <3>2 DEF CopiesOK
  <2>4. CASE word[t] = 2
    <3>1. local[t][1] = Source(t)[1]
      BY <1>1, <1>2, <1>3, <1>5, <2>4 DEF CopiesOK, HalfWay
    <3>2. local'[t][1] = local[t][1] /\ local'[t][2] = Source(t)[2]  BY <2>1, <2>2, <2>4 DEF Words
    <3>3. ~Torn(local'[t])  BY <2>1, <3>1, <3>2 DEF Torn
    <3>4. ~HalfWay(t, Ops)'  BY <1>1, <2>4 DEF HalfWay, TypeOK
    <3> QED BY <3>3, <3>4 DEF CopiesOK, Torn
  <2> QED BY <1>1, <2>3, <2>4
<1>9. ASSUME NEW u \in Threads, u # t
      PROVE  CopiesOK(u)'
  <2>1. /\ pc'[u] = pc[u] /\ word'[u] = word[u] /\ local'[u] = local[u] /\ mem' = mem
        /\ op' = op /\ dev' = dev
    BY <1>1, <1>4, <1>9
  <2>2. Source(u)' = Source(u) /\ Target(u)' = Target(u)  BY <2>1 DEF Source, Target
  <2>3. Torn(local[u])' = Torn(local[u])  BY <2>1 DEF Torn
  <2>4. /\ HalfWay(u, Ops)' = HalfWay(u, Ops)
        /\ HalfWay(u, ToCaller)' = HalfWay(u, ToCaller)
    BY <2>1 DEF HalfWay
  <2> QED BY <1>5, <2>2, <2>3, <2>4 DEF CopiesOK
<1>10. StoresOK' /\ (\A u \in Threads : CopiesOK(u))'  BY <1>7, <1>8, <1>9
<1> QED BY <1>10, TornParts, PTL

LEMMA CopyToStore ==
    ASSUME WholeInv, NEW t \in Threads, CopyWord(t), To[op[t]] # "caller"
    PROVE  TornOnlyHalfWay'
<1> USE DEF WholeInv
<1> DEFINE s == To[op[t]]
           e == dev[t]
           v == Source(t)[word[t]]
<1>1. /\ pc[t] = "copy" /\ word[t] \in {1, 2} /\ Source(t) \in [Words -> Nat] /\ local' = local
      /\ mem' = [mem EXCEPT ![s][e][word[t]] = v]
      /\ word[t] = 1 => word' = [word EXCEPT ![t] = 2] /\ pc' = pc
      /\ word[t] = 2 => word' = word /\ pc' = [pc EXCEPT ![t] = "release"]
      /\ UNCHANGED <<deviceHolder, busHolder, op, dev>>
  BY CopyWordFrame DEF Words
<1>2. /\ op[t] \in Ops /\ op[t] \notin ToCaller /\ s \in Stores /\ From[op[t]] # s /\ e \in Devices
      /\ s # "inputs"
  <2>1. op[t] \in Ops /\ e \in Devices  BY DEF TypeOK, Ops
  <2> QED BY <2>1, Operations
<1>3. \A u \in Threads \ {t} : pc'[u] = pc[u] /\ word'[u] = word[u]
  BY <1>1 DEF TypeOK
<1>4. StoresOK /\ \A u \in Threads : CopiesOK(u)  BY TornParts
<1>5. /\ \A r \in Stores, d \in Devices : r # s \/ d # e => mem'[r][d] = mem[r][d]
      /\ mem'[s][e] = [mem[s][e] EXCEPT ![word[t]] = v]
  <2>1. mem \in [Stores -> [Devices -> [Words -> Nat]]]  BY DEF TypeOK
  <2> HIDE DEF s, e, v
  <2> QED BY <1>1, <1>2, <2>1
<1>6. Source(t)' = Source(t)
  <2>1. From[op[t]] \in Stores \cup {"caller"}  BY <1>2, Operations
  <2> QED BY <1>1, <1>2, <1>5, <2>1 DEF Source
<1>7. Target(t)' = mem'[s][e] /\ Target(t) = mem[s][e]  BY <1>1, <1>2 DEF Target
<1>8. /\ word[t] = 1 => mem'[s][e][1] = Source(t)[1]
      /\ word[t] = 2 => ~Torn(mem'[s][e])
  <2>1. mem[s][e] \in [Words -> Nat]  BY <1>2 DEF TypeOK
  <2>2. ~Torn(Source(t))  BY <1>1, SourceIsWhole
  <2>3. word[t] = 2 => mem[s][e][1] = Source(t)[1]
    BY <1>1, <1>2, <1>4, <1>7 DEF CopiesOK, HalfWay
  <2> DEFINE m == mem[s][e]
             n == mem'[s][e]
             x == Source(t)
  <2>4. n = [m EXCEPT ![word[t]] = x[word[t]]]  BY <1>5
  <2> HIDE DEF m, n, x
  <2>5. m \in [Words -> Nat] /\ ~Torn(x) /\ (word[t] = 2 => m[1] = x[1])  BY <2>1, <2>2, <2>3 DEF m, x
  <2>6. /\ word[t] = 1 => n[1] = x[1]
        /\ word[t] = 2 => ~Torn(n)
    BY <2>4, <2>5 DEF Words, Torn
  <2> QED BY <2>6 DEF n, x
<1>9. /\ s \in {"rxPdo", "txPdo"} => deviceHolder[e] = t
      /\ s = "outputs" => busHolder = t
  <2>1. s \in {"rxPdo", "txPdo"} => op[t] \in LocksDevice  BY <1>2, Operations
  <2>2. s = "outputs" => op[t] \in LocksBus  BY <1>2, Operations
  <2> QED BY <1>1, <1>2, <2>1, <2>2 DEF LocksOK
<1>10. HalfWay(t, {op[t]})' <=> word[t] = 1  BY <1>1 DEF HalfWay, TypeOK
<1> HIDE DEF v
<1>11. StoresOK'
  <2> SUFFICES ASSUME NEW d \in Devices
               PROVE  /\ Torn(mem'["rxPdo"][d]) => HalfWay(deviceHolder[d], {"set"})'
                      /\ Torn(mem'["txPdo"][d]) => HalfWay(deviceHolder[d], {"updateRead"})'
                      /\ Torn(mem'["outputs"][d]) => /\ HalfWay(busHolder, {"writeRx", "updateWrite"})'
                                                     /\ dev[busHolder] = d
                      /\ Torn(mem'["inputs"][d]) => /\ busHolder \in Threads
                                                    /\ pc'[busHolder] = "receive" /\ word'[busHolder] = 2
    BY <1>1 DEF StoresOK, Torn
  <2>1. Torn(mem'["rxPdo"][d]) => HalfWay(deviceHolder[d], {"set"})'
    <3>1. CASE s = "rxPdo" /\ d = e
      <4>1. op[t] = "set"  BY <1>2, <3>1, Operations
      <4> QED BY <1>1, <1>8, <1>9, <1>10, <3>1, <4>1 DEF HalfWay
    <3>2. CASE ~(s = "rxPdo" /\ d = e)
      <4>1. mem'["rxPdo"][d] = mem["rxPdo"][d]  BY <1>5, <3>2 DEF Stores
      <4>2. Torn(mem["rxPdo"][d]) => HalfWay(deviceHolder[d], {"set"})  BY <1>4 DEF StoresOK
      <4>3. deviceHolder[d] = t /\ op[t] = "set" => FALSE
        <5>1. op[t] = "set" => s = "rxPdo"  BY DEF To
        <5> QED BY <3>2, <5>1 DEF LocksOK
      <4> QED BY <1>1, <1>3, <4>1, <4>2, <4>3 DEF HalfWay
    <3> QED BY <3>1, <3>2
  <2>2. Torn(mem'["txPdo"][d]) => HalfWay(deviceHolder[d], {"updateRead"})'
    <3>1. CASE s = "txPdo" /\ d = e
      <4>1. op[t] = "updateRead"  BY <1>2, <3>1, Operations
      <4> QED BY <1>1, <1>8, <1>9, <1>10, <3>1, <4>1 DEF HalfWay
    <3>2. CASE ~(s = "txPdo" /\ d = e)
      <4>1. mem'["txPdo"][d] = mem["txPdo"][d]  BY <1>5, <3>2 DEF Stores
      <4>2. Torn(mem["txPdo"][d]) => HalfWay(deviceHolder[d], {"updateRead"})  BY <1>4 DEF StoresOK
      <4>3. deviceHolder[d] = t /\ op[t] = "updateRead" => FALSE
        <5>1. op[t] = "updateRead" => s = "txPdo"  BY DEF To
        <5> QED BY <3>2, <5>1 DEF LocksOK
      <4> QED BY <1>1, <1>3, <4>1, <4>2, <4>3 DEF HalfWay
    <3> QED BY <3>1, <3>2
  <2>3. Torn(mem'["outputs"][d]) => /\ HalfWay(busHolder, {"writeRx", "updateWrite"})'
                                    /\ dev[busHolder] = d
    <3>1. CASE s = "outputs" /\ d = e
      <4>1. op[t] \in {"writeRx", "updateWrite"}  BY <1>2, <3>1, Operations
      <4> QED BY <1>1, <1>8, <1>9, <1>10, <3>1, <4>1 DEF HalfWay
    <3>2. CASE ~(s = "outputs" /\ d = e)
      <4>1. mem'["outputs"][d] = mem["outputs"][d]  BY <1>5, <3>2 DEF Stores
      <4>2. Torn(mem["outputs"][d]) => HalfWay(busHolder, {"writeRx", "updateWrite"}) /\ dev[busHolder] = d
        BY <1>4 DEF StoresOK
      <4>3. dev[t] = d => op[t] \notin {"writeRx", "updateWrite"}
        <5>1. op[t] \in {"writeRx", "updateWrite"} => s = "outputs"  BY DEF To
        <5> QED BY <3>2, <5>1
      <4> QED BY <1>1, <1>3, <4>1, <4>2, <4>3 DEF HalfWay
    <3> QED BY <3>1, <3>2
  <2>4. Torn(mem'["inputs"][d]) => /\ busHolder \in Threads
                                   /\ pc'[busHolder] = "receive" /\ word'[busHolder] = 2
    <3>1. mem'["inputs"][d] = mem["inputs"][d]  BY <1>2, <1>5 DEF Stores
    <3>2. Torn(mem["inputs"][d]) => /\ busHolder \in Threads
                                    /\ pc[busHolder] = "receive" /\ word[busHolder] = 2
      BY <1>4 DEF StoresOK
    <3> QED BY <1>1, <1>3, <3>1, <3>2
  <2> QED BY <2>1, <2>2, <2>3, <2>4
<1>12. CopiesOK(t)'
  <2>1. ~Torn(local[t])  BY <1>2, <1>4 DEF CopiesOK, HalfWay
  <2>2. HalfWay(t, Ops)' => word[t] = 1  BY <1>1 DEF HalfWay, TypeOK
  <2> QED BY <1>1, <1>6, <1>7, <1>8, <2>1, <2>2 DEF CopiesOK, Torn
<1>13. ASSUME NEW u \in Threads, u # t
       PROVE  CopiesOK(u)'
  <2>1. pc'[u] = pc[u] /\ word'[u] = word[u] /\ local' = local /\ op' = op /\ dev' = dev
    BY <1>1, <1>3, <1>13
  <2>2. Torn(local[u])' = Torn(local[u]) /\ HalfWay(u, ToCaller)' = HalfWay(u, ToCaller)
        /\ HalfWay(u, Ops)' = HalfWay(u, Ops)
    BY <2>1 DEF HalfWay, Torn
  <2>3. HalfWay(u, Ops) => Source(u)' = Source(u) /\ Target(u)' = Target(u)
    <3> SUFFICES ASSUME HalfWay(u, Ops) PROVE Source(u)' = Source(u) /\ Target(u)' = Target(u)
      OBVIOUS
    <3>1. pc[u] = "copy" /\ op[u] \in Ops /\ dev[u] \in Devices  BY DEF HalfWay, TypeOK
    <3>2. From[op[u]] \in Stores \cup {"caller"} /\ To[op[u]] \in Stores \cup {"caller"}
      BY <3>1, Operations
    <3>3. From[op[u]] = s \/ To[op[u]] = s => dev[u] # e
      BY <1>1, <1>2, <1>13, <3>1, Exclusive
    <3>4. From[op[u]] # "caller" => mem'[From[op[u]]][dev[u]] = mem[From[op[u]]][dev[u]]
      BY <1>5, <3>1, <3>2, <3>3
    <3>5. To[op[u]] # "caller" => mem'[To[op[u]]][dev[u]] = mem[To[op[u]]][dev[u]]
      BY <1>5, <3>1, <3>2, <3>3
    <3> QED BY <2>1, <3>4, <3>5 DEF Source, Target
  <2> QED BY <1>4, <2>2, <2>3 DEF CopiesOK
<1>14. StoresOK' /\ (\A u \in Threads : CopiesOK(u))'  BY <1>11, <1>12, <1>13
<1> QED BY <1>14, TornParts, PTL

LEMMA RtReceivePreserves ==
    ASSUME WholeInv, NEW t \in RtCallers, RtReceive(t)
    PROVE  WholeInv'
<1> USE ThreadsAssumption, BoundsAssumption DEF WholeInv
<1>1. /\ t \in Threads /\ NoThread \notin Threads /\ t \notin Apps
      /\ pc[t] = "receive" /\ word[t] \in {1, 2} /\ busHolder = t /\ op[t] \in RtOps
      /\ UNCHANGED <<local, deviceHolder, dev, calls, writes, setDone, delivered, floor>>
  BY DEF RtReceive, At, Threads, TypeOK, LocksOK, RolesOK, Words
<1>2. /\ mem["inputs"] \in [Devices -> [Words -> Nat]] /\ mem \in [Stores -> [Devices -> [Words -> Nat]]]
      /\ "inputs" \in Stores /\ frames \in 0..MaxFrames /\ {1, 2} = Words
  BY DEF TypeOK, Stores, Words
<1>3. StoresOK /\ \A u \in Threads : CopiesOK(u)  BY TornParts
<1>4. \A d \in Devices : ~Torn(mem["outputs"][d])  BY <1>1, <1>3 DEF StoresOK, HalfWay
<1>5. \A u \in Threads : pc[u] = "copy" => From[op[u]] # "inputs" /\ To[op[u]] # "inputs"
  <2> SUFFICES ASSUME NEW u \in Threads, pc[u] = "copy", From[op[u]] = "inputs" \/ To[op[u]] = "inputs"
               PROVE  FALSE
    OBVIOUS
  <2>1. op[u] \in LocksBus
    <3>1. op[u] \in Ops  BY DEF TypeOK, Ops
    <3> QED BY <3>1, Operations
  <2>2. busHolder = u  BY <2>1 DEF LocksOK
  <2> QED BY <1>1, <2>2
<1>6. ASSUME \A r \in Stores \ {"inputs"} : mem'[r] = mem[r],
             \A u \in Threads \ {t} : pc'[u] = pc[u] /\ op'[u] = op[u] /\ word'[u] = word[u],
             pc'[t] # "copy",
             \A d \in Devices : Torn(mem'["inputs"][d]) =>
                 busHolder' = t /\ pc'[t] = "receive" /\ word'[t] = 2
      PROVE  TornOnlyHalfWay'
  <2>1. StoresOK'
    <3> SUFFICES ASSUME NEW d \in Devices
                 PROVE  /\ Torn(mem'["rxPdo"][d]) => HalfWay(deviceHolder[d], {"set"})'
                        /\ Torn(mem'["txPdo"][d]) => HalfWay(deviceHolder[d], {"updateRead"})'
                        /\ ~Torn(mem'["outputs"][d])
                        /\ Torn(mem'["inputs"][d]) => /\ busHolder' \in Threads
                                                      /\ pc'[busHolder'] = "receive" /\ word'[busHolder'] = 2
      BY <1>1 DEF StoresOK, Torn
    <3>1. \A r \in Stores \ {"inputs"} : mem'[r][d] = mem[r][d]  BY <1>6
    <3>3. Torn(mem["rxPdo"][d]) => HalfWay(deviceHolder[d], {"set"})  BY <1>3 DEF StoresOK
    <3>4. Torn(mem["txPdo"][d]) => HalfWay(deviceHolder[d], {"updateRead"})  BY <1>3 DEF StoresOK
    <3>5. mem'["rxPdo"][d] = mem["rxPdo"][d] /\ mem'["txPdo"][d] = mem["txPdo"][d]
          /\ mem'["outputs"][d] = mem["outputs"][d]
      BY <3>1 DEF Stores
    <3>6. Torn(mem["rxPdo"][d]) => HalfWay(deviceHolder[d], {"set"})'
      BY <1>1, <1>6, <3>3 DEF HalfWay
    <3>7. Torn(mem["txPdo"][d]) => HalfWay(deviceHolder[d], {"updateRead"})'
      BY <1>1, <1>6, <3>4 DEF HalfWay
    <3> QED BY <1>1, <1>4, <1>6, <3>5, <3>6, <3>7
  <2>2. ASSUME NEW u \in Threads PROVE CopiesOK(u)'
    <3>1. CASE u = t
      <4>1. ~HalfWay(t, Ops)' /\ ~Torn(local[t])  BY <1>1, <1>3, <1>6 DEF HalfWay, CopiesOK
      <4> QED BY <1>1, <3>1, <4>1 DEF CopiesOK, Torn
    <3>2. CASE u # t
      <4>1. pc'[u] = pc[u] /\ op'[u] = op[u] /\ word'[u] = word[u] /\ local' = local /\ dev' = dev
        BY <1>1, <1>6, <3>2
      <4>2. Torn(local[u])' = Torn(local[u]) /\ HalfWay(u, ToCaller)' = HalfWay(u, ToCaller)
            /\ HalfWay(u, Ops)' = HalfWay(u, Ops)
        BY <4>1 DEF HalfWay, Torn
      <4>3. HalfWay(u, Ops) => Source(u)' = Source(u) /\ Target(u)' = Target(u)
        <5> SUFFICES ASSUME HalfWay(u, Ops) PROVE Source(u)' = Source(u) /\ Target(u)' = Target(u)
          OBVIOUS
        <5>1. pc[u] = "copy" /\ op[u] \in Ops  BY DEF HalfWay
        <5>2. From[op[u]] \in Stores \cup {"caller"} /\ To[op[u]] \in Stores \cup {"caller"}
          BY <5>1, Operations
        <5> QED BY <1>5, <1>6, <4>1, <5>1, <5>2 DEF Source, Target
      <4> QED BY <1>3, <4>2, <4>3 DEF CopiesOK
    <3> QED BY <3>1, <3>2
  <2>3. StoresOK' /\ (\A u \in Threads : CopiesOK(u))'  BY <2>1, <2>2
  <2> QED BY <2>3, TornParts, PTL
<1>7. CASE /\ word[t] = 1 /\ frames < MaxFrames /\ frames' = frames + 1
           /\ mem' = [mem EXCEPT !["inputs"] = [d \in Devices |-> [@[d] EXCEPT ![1] = frames + 1]]]
           /\ word' = [word EXCEPT ![t] = 2]
           /\ UNCHANGED <<busHolder, pc, op, todo, received>>
  <2>1. [d \in Devices |-> [mem["inputs"][d] EXCEPT ![1] = frames + 1]] \in [Devices -> [Words -> Nat]]
    BY <1>2
  <2>2. mem' \in [Stores -> [Devices -> [Words -> Nat]]] /\ \A r \in Stores \ {"inputs"} : mem'[r] = mem[r]
    BY <1>2, <1>7, <2>1
  <2>3. TypeOK'  BY <1>1, <1>2, <1>7, <2>2 DEF TypeOK
  <2>4. RolesOK'  BY <1>1, <1>7 DEF RolesOK, TypeOK
  <2>5. LocksOK'  BY <1>1, <1>7 DEF LocksOK
  <2>6. TornOnlyHalfWay'  BY <1>1, <1>6, <1>7, <2>2 DEF TypeOK
  <2> QED BY <2>3, <2>4, <2>5, <2>6
<1>8. CASE /\ \/ /\ word[t] = 2
                 /\ mem' = [mem EXCEPT !["inputs"] = [d \in Devices |-> Pdo(@[d][1])]]
                 /\ received' = [received EXCEPT ![t] = frames]
              \/ word[t] = 1 /\ UNCHANGED <<mem, received>>
           /\ busHolder' = NoThread /\ pc' = [pc EXCEPT ![t] = "loop"]
           /\ op' = [op EXCEPT ![t] = "updateRead"] /\ todo' = [todo EXCEPT ![t] = Devices]
           /\ word' = [word EXCEPT ![t] = 1] /\ frames' = frames
  <2>1. /\ mem' \in [Stores -> [Devices -> [Words -> Nat]]] /\ \A r \in Stores \ {"inputs"} : mem'[r] = mem[r]
        /\ \A d \in Devices : ~Torn(mem'["inputs"][d])
    <3>1. CASE mem' = [mem EXCEPT !["inputs"] = [d \in Devices |-> Pdo(@[d][1])]]
      <4>1. \A n \in Nat : Pdo(n) \in [Words -> Nat] /\ ~Torn(Pdo(n))  BY DEF Pdo, Torn, Words
      <4>2. \A d \in Devices : mem["inputs"][d][1] \in Nat  BY <1>2
      <4> DEFINE new == [d \in Devices |-> Pdo(mem["inputs"][d][1])]
      <4>3. new \in [Devices -> [Words -> Nat]] /\ \A d \in Devices : ~Torn(new[d])  BY <4>1, <4>2
      <4>4. mem' = [mem EXCEPT !["inputs"] = new]  BY <3>1
      <4> HIDE DEF new
      <4> QED BY <1>2, <4>3, <4>4
    <3>2. CASE word[t] = 1 /\ UNCHANGED mem
      <4>1. \A d \in Devices : ~Torn(mem["inputs"][d])  BY <1>1, <1>3, <3>2 DEF StoresOK
      <4> QED BY <1>2, <3>2, <4>1
    <3> QED BY <1>8, <3>1, <3>2
  <2>2. TypeOK'
    <3>1. received' \in [RtCallers -> Nat]
      <4>1. received' = received \/ received' = [received EXCEPT ![t] = frames]  BY <1>8
      <4>2. frames \in Nat /\ received \in [RtCallers -> Nat]  BY <1>2 DEF TypeOK
      <4> QED BY <4>1, <4>2
    <3> QED BY <1>1, <1>2, <1>8, <2>1, <3>1 DEF TypeOK, RtOps
  <2>3. RolesOK'  BY <1>1, <1>8 DEF RolesOK, TypeOK, RtOps
  <2>4. LocksOK'  BY <1>1, <1>8 DEF LocksOK, TypeOK
  <2>5. TornOnlyHalfWay'  BY <1>1, <1>6, <1>8, <2>1 DEF TypeOK
  <2> QED BY <2>2, <2>3, <2>4, <2>5
<1>9. word[t] = 1 => word = [word EXCEPT ![t] = 1]  BY DEF TypeOK
<1> QED BY <1>7, <1>8, <1>9 DEF RtReceive, Goto

LEMMA StutterPreserves == WholeInv /\ UNCHANGED vars => WholeInv'
<1> SUFFICES ASSUME WholeInv, UNCHANGED vars PROVE WholeInv'  OBVIOUS
<1>1. UNCHANGED <<mem, local, deviceHolder, busHolder, pc, op, dev, word, todo, calls, writes, frames,
                  setDone, delivered, received, floor>>
  BY DEF vars, memoryVars, lockVars, threadVars, counters, history
<1> QED BY <1>1 DEF WholeInv, TypeOK, RolesOK, LocksOK, TornOnlyHalfWay, HalfWay, Torn

\* Who owns a mutex, who copies and what may be torn agree with each other.
THEOREM WholeInvHolds == Spec => []WholeInv
<1>1. Init => WholeInv  BY InitWholeInv
<1>2. WholeInv /\ [Next]_vars => WholeInv'
  <2> SUFFICES ASSUME WholeInv, [Next]_vars PROVE WholeInv'  OBVIOUS
  <2>1. ASSUME NEW t \in Apps, NEW o \in AppOps, NEW d \in Devices, AppCalls(t, o, d)
        PROVE  WholeInv'
    BY <2>1, AppCallsPreserves
  <2>2. ASSUME NEW t \in Threads, Copy(t) PROVE WholeInv'
    <3>1. CASE LockDevice(t)  BY <3>1, LockDevicePreserves
    <3>2. CASE LockBus(t)  BY <3>1, <3>2, LockBusPreserves
    <3>3. CASE CopyWord(t)
      <4>1. TypeOK' /\ RolesOK' /\ LocksOK'  BY <3>3, CopyWordFrame
      <4>2. TornOnlyHalfWay'  BY <3>3, CopyToCaller, CopyToStore
      <4> QED BY <4>1, <4>2 DEF WholeInv
    <3>4. CASE Release(t)  BY <3>4, ReleasePreserves
    <3> QED BY <2>2, <3>1, <3>2, <3>3, <3>4 DEF Copy
  <2>3. ASSUME NEW t \in RtCallers, RtBegin(t) \/ RtStep(t) PROVE WholeInv'
    BY <2>3, RtBeginPreserves, RtVisitPreserves, RtLockFramePreserves, RtSendPreserves,
       RtReceivePreserves, RtEndPreserves DEF RtStep
  <2>4. CASE UNCHANGED vars  BY <2>4, StutterPreserves
  <2> QED BY <2>1, <2>2, <2>3, <2>4 DEF Next
<1> QED BY <1>1, <1>2, PTL DEF Spec

-----------------------------------------------------------------------------
(* The properties.                                                         *)

\* NothingTorn: a frame carries, and a reader gets, PDOs that one call has written, for
\* any number of devices, callers and update_rt() threads.
THEOREM PdosAreWhole == Spec => []NothingTorn
<1>1. WholeInv => NothingTorn
  <2> SUFFICES ASSUME WholeInv, NEW t \in Threads
               PROVE  /\ pc[t] = "send" => \A d \in Devices : ~Torn(mem["outputs"][d])
                      /\ pc[t] = "release" /\ To[op[t]] = "caller" => ~Torn(local[t])
    BY DEF NothingTorn, At
  <2>1. pc[t] = "send" => busHolder = t  BY DEF WholeInv, LocksOK
  <2> QED BY <2>1 DEF WholeInv, TornOnlyHalfWay, HalfWay
<1> QED BY <1>1, WholeInvHolds, PTL

\* LocksAreOrdered: the device's mutex is taken before the bus's, whose owner waits for none.
THEOREM NoLockCycle == Spec => []LocksAreOrdered
<1>1. WholeInv => LocksAreOrdered  BY DEF WholeInv, LocksOK, LocksAreOrdered, At
<1> QED BY <1>1, WholeInvHolds, PTL
=============================================================================
