------------------------ MODULE PdoRegisters_proofs ------------------------
(***************************************************************************)
(* For any number of devices, application threads and callers of           *)
(* update_rt(), frames and accessors are up to date, no buffer gets older, *)
(* and the word by word copies under the two mutexes implement the atomic  *)
(* PdoRegisters.                                                           *)
(***************************************************************************)
EXTENDS PdoExchange_proofs

\* Which operations write a new PDO, and which copy from and to each place.
LEMMA Places ==
    \A o \in Ops :
        /\ From[o] = "caller" <=> o \in {"set", "writeRx"}
        /\ To[o] = "rxPdo" <=> o = "set"
        /\ To[o] = "txPdo" <=> o = "updateRead"
        /\ To[o] = "outputs" <=> o \in {"writeRx", "updateWrite"}
        /\ To[o] = "caller" <=> o \in {"getRx", "getTx", "readRx", "readTx"}
        /\ From[o] = "rxPdo" <=> o \in {"getRx", "updateWrite"}
        /\ From[o] = "txPdo" <=> o = "getTx"
        /\ From[o] = "inputs" <=> o \in {"readTx", "updateRead"}
        /\ o \in LocksDevice <=> o \in {"set", "getRx", "getTx", "updateWrite", "updateRead"}
        /\ o \in LocksBus <=> o \in {"writeRx", "readRx", "readTx", "updateWrite", "updateRead"}
  BY SMT DEF Ops, AppOps, RtOps, From, To, LocksDevice, LocksBus

\* No thread is both, and none has the name of the owner of a free mutex.
LEMMA ThreadKinds ==
    /\ NoThread \notin Threads
    /\ \A t \in Threads : t \in Apps <=> t \notin RtCallers
    /\ \A t \in Apps : t \in Threads
    /\ \A t \in RtCallers : t \in Threads
  BY ThreadsAssumption DEF Threads

\* The operations of the two kinds of threads.
LEMMA RoleOps ==
    ASSUME WholeInv
    PROVE  \A t \in Threads :
             /\ op[t] \in Ops
             /\ t \in Apps => op[t] \in {"set", "getRx", "getTx", "writeRx", "readRx", "readTx"}
             /\ t \in RtCallers => op[t] \in {"updateWrite", "updateRead"}
  BY ThreadKinds DEF WholeInv, TypeOK, RolesOK, Ops, AppOps, RtOps

-----------------------------------------------------------------------------
(* CurrentInv.                                                             *)

\* On a configured bus nothing has been written, sent or read.
LEMMA InitCurrent == Init => CurrentInv
<1> SUFFICES ASSUME Init PROVE CurrentInv  OBVIOUS
<1>1. HandsOK  BY ThreadKinds DEF HandsOK, Init
<1>2. FloorsOK
  <2>1. \A t \in Threads : op[t] \notin {"getTx", "readRx", "readTx"}  BY DEF Init
  <2>2. \A t \in Threads, d \in Devices : floor[t][d] = 0 /\ setDone[d] = 0  BY DEF Init
  <2> QED BY <2>1, <2>2 DEF FloorsOK
<1>3. WritersOK  BY DEF WritersOK, Pdo, Stores, Words, Init
<1>4. OutputsOK  BY ThreadKinds DEF OutputsOK, Pdo, Stores, Words, Init
<1>5. InputsOK
  <2>1. \A d \in Devices, w \in Words : mem["inputs"][d][w] = 0 /\ mem["txPdo"][d][w] = 0
    BY DEF Pdo, Stores, Init
  <2>2. 1 \in Words /\ 2 \in Words  BY DEF Words
  <2>3. frames = 0 /\ delivered = 0 /\ \A t \in RtCallers : received[t] = 0  BY DEF Init
  <2>4. \A d \in Devices, w \in Words : mem["inputs"][d][w] <= 0 /\ 0 <= mem["txPdo"][d][w]
                                        /\ mem["txPdo"][d][w] <= mem["inputs"][d][w]
    BY <2>1
  <2> QED BY <2>1, <2>2, <2>3, <2>4 DEF InputsOK
<1>6. ReadIsCurrent  BY ThreadKinds DEF ReadIsCurrent, At, Init
<1> QED BY <1>1, <1>2, <1>3, <1>4, <1>5, <1>6 DEF CurrentInv

\* AppCalls: who writes draws a number nobody else has.
LEMMA AppCallsCurrent ==
    ASSUME WholeInv, CurrentInv, NEW t \in Apps, NEW o \in AppOps, NEW d \in Devices, AppCalls(t, o, d)
    PROVE  CurrentInv'
<1> USE ThreadKinds DEF CurrentInv, WholeInv
<1>1. /\ t \in Threads /\ pc[t] = "idle" /\ pc' = [pc EXCEPT ![t] = IF o \in LocksDevice THEN "lockDevice" ELSE "lockBus"]
      /\ op' = [op EXCEPT ![t] = o] /\ dev' = [dev EXCEPT ![t] = d] /\ word' = [word EXCEPT ![t] = 1]
      /\ floor' = [floor EXCEPT ![t] = [e \in Devices |-> IF o = "getTx" THEN delivered
                                                          ELSE IF o = "getRx" THEN setDone[e] ELSE 0]]
      /\ UNCHANGED <<mem, local, deviceHolder, busHolder, todo, writes, frames, setDone, delivered, received>>
  BY DEF AppCalls, BeginCopy, At, Goto, memoryVars, lockVars
<1>2. HandsOK'  BY <1>1 DEF HandsOK, TypeOK
<1>3. FloorsOK'  BY <1>1 DEF FloorsOK, TypeOK
<1>4. \A u \in RtCallers : /\ pc'[u] = pc[u] /\ op'[u] = op[u] /\ dev'[u] = dev[u]
                           /\ word'[u] = word[u] /\ todo'[u] = todo[u] /\ floor'[u] = floor[u]
  BY <1>1 DEF TypeOK
<1>5. WritersOK'
  <2>1. local[t] = Pdo(0)  BY <1>1 DEF HandsOK
  <2>2. \A w \in Words : local[t][w] <= writes  BY <2>1 DEF Pdo, TypeOK
  <2>3. pc'[t] \notin {"copy", "release"}  BY <1>1 DEF TypeOK
  <2> QED BY <1>1, <1>4, <2>2, <2>3 DEF WritersOK, TypeOK, HasCopied
<1>6. OutputsOK'  BY <1>1, <1>4 DEF OutputsOK, HasCopied
<1>7. InputsOK'  BY <1>1, <1>4 DEF InputsOK, HasCopied
<1>8. ReadIsCurrent'  BY <1>1 DEF ReadIsCurrent, At, TypeOK
<1> QED BY <1>2, <1>3, <1>5, <1>6, <1>7, <1>8

\* LockDevice: the write that gets its device's mutex is the device's latest.
LEMMA LockDeviceCurrent ==
    ASSUME WholeInv, CurrentInv, NEW t \in Threads, LockDevice(t)
    PROVE  CurrentInv'
<1> USE ThreadKinds DEF CurrentInv, WholeInv
<1>1. /\ pc[t] = "lockDevice" /\ pc' = [pc EXCEPT ![t] = IF op[t] \in LocksBus THEN "lockBus" ELSE "copy"]
      /\ UNCHANGED <<mem, op, dev, word, todo, frames, setDone, delivered, received, floor>>
  BY DEF LockDevice, At, Goto, history
<1>2. op[t] \in {"set", "getRx", "getTx", "updateWrite", "updateRead"}
  BY <1>1, RoleOps, Places DEF RolesOK
<1>3. /\ op[t] = "set" => writes' = writes + 1 /\ local' = [local EXCEPT ![t] = Pdo(writes + 1)]
      /\ op[t] # "set" => writes' = writes /\ local' = local
  BY <1>2, RoleOps, Places DEF LockDevice, NumberWrite
<1>4. pc'[t] = IF op[t] \in {"updateWrite", "updateRead"} THEN "lockBus" ELSE "copy"
  BY <1>1, <1>2, RoleOps, Places DEF TypeOK
<1>5. writes <= writes' /\ writes' \in Nat  BY <1>3 DEF TypeOK
<1>6. \A u \in Threads \ {t} : local'[u] = local[u] /\ pc'[u] = pc[u]  BY <1>1, <1>3 DEF TypeOK
<1>7. op[t] = "set" => local'[t] = Pdo(writes + 1) /\ t \notin RtCallers
  BY <1>3, RoleOps DEF TypeOK
<1>8. HandsOK'
  <2>1. pc'[t] \notin {"send", "receive", "idle", "lockDevice"}  BY <1>4
  <2>2. local[t] = Pdo(0)  BY <1>1 DEF HandsOK
  <2>3. op[t] # "set" => local'[t] = local[t]  BY <1>3
  <2> QED BY <1>1, <1>4, <1>6, <1>7, <2>1, <2>2, <2>3 DEF HandsOK
<1>9. FloorsOK'  BY <1>1 DEF FloorsOK
<1>10. WritersOK'
  <2>1. \A d \in Devices : /\ setDone'[d] <= writes'
                           /\ \A w \in Words : setDone'[d] <= mem'["rxPdo"][d][w]
    BY <1>1, <1>5 DEF WritersOK, TypeOK
  <2>2. ASSUME NEW u \in Threads, NEW w \in Words
        PROVE  /\ From[op'[u]] = "caller" => local'[u][w] <= writes'
               /\ op'[u] = "set" /\ pc'[u] \in {"copy", "release"} => setDone'[dev'[u]] <= local'[u][w]
               /\ op'[u] = "set" /\ pc'[u] = "release" => local'[u][2] <= mem'["rxPdo"][dev'[u]][w]
               /\ op'[u] = "writeRx" /\ pc'[u] = "copy" =>
                    \A v \in RtCallers, x \in Words :
                      HasCopied(v, "updateWrite", dev[u], x)' => floor'[v][dev'[u]] <= local'[u][w]
    <3>1. CASE u = t
      <4>1. CASE op[t] = "set"
        <5>1. local'[t][w] = writes + 1 /\ writes' = writes + 1  BY <1>3, <1>7, <4>1 DEF Pdo
        <5>2. setDone[dev[t]] <= writes  BY DEF WritersOK, TypeOK
        <5>3. pc'[t] = "copy" /\ op'[t] = "set"  BY <1>1, <1>4, <4>1
        <5> QED BY <1>1, <3>1, <5>1, <5>2, <5>3 DEF TypeOK
      <4>2. CASE op[t] # "set"
        <5>1. From[op[t]] # "caller" /\ op[t] # "writeRx"  BY <1>2, <4>2, RoleOps, Places
        <5> QED BY <1>1, <3>1, <4>2, <5>1
      <4> QED BY <4>1, <4>2
    <3>2. CASE u # t
      <4>1. /\ From[op[u]] = "caller" => local[u][w] <= writes
            /\ local[u][w] \in Nat
        BY DEF WritersOK, TypeOK
      <4>2. \A v \in RtCallers, x \in Words :
               HasCopied(v, "updateWrite", dev[u], x)' => HasCopied(v, "updateWrite", dev[u], x)
        BY <1>1, <1>4, <1>6 DEF HasCopied
      <4> QED BY <1>1, <1>5, <1>6, <3>2, <4>1, <4>2 DEF WritersOK, TypeOK
    <3> QED BY <3>1, <3>2
  <2> QED BY <2>1, <2>2 DEF WritersOK
<1>11. OutputsOK'  BY <1>1, <1>4, <1>6 DEF OutputsOK, HasCopied
<1>12. InputsOK'  BY <1>1, <1>4, <1>6 DEF InputsOK, HasCopied
<1>13. ReadIsCurrent'
  <2>1. \A u \in Apps : pc'[u] = "release" => u # t  BY <1>4
  <2> QED BY <1>1, <1>6, <2>1 DEF ReadIsCurrent, At
<1> QED BY <1>8, <1>9, <1>10, <1>11, <1>12, <1>13

\* LockBus: as LockDevice, for what the accessor of the bus locks by itself.
LEMMA LockBusCurrent ==
    ASSUME WholeInv, CurrentInv, NEW t \in Threads, LockBus(t)
    PROVE  CurrentInv'
<1> USE ThreadKinds DEF CurrentInv, WholeInv
<1>1. /\ pc[t] = "lockBus" /\ pc' = [pc EXCEPT ![t] = "copy"] /\ word[t] = 1
      /\ UNCHANGED <<mem, op, dev, word, todo, frames, setDone, delivered, received, floor>>
  BY DEF LockBus, At, Goto, history, RolesOK
<1>2. op[t] \in {"writeRx", "readRx", "readTx", "updateWrite", "updateRead"}
  BY <1>1, RoleOps, Places DEF RolesOK
<1>3. /\ op[t] = "writeRx" => writes' = writes + 1 /\ local' = [local EXCEPT ![t] = Pdo(writes + 1)]
      /\ op[t] # "writeRx" => writes' = writes /\ local' = local
  BY <1>2, RoleOps, Places DEF LockBus, NumberWrite
<1>4. pc'[t] = "copy"  BY <1>1 DEF TypeOK
<1>5. writes <= writes' /\ writes' \in Nat  BY <1>3 DEF TypeOK
<1>6. \A u \in Threads \ {t} : local'[u] = local[u] /\ pc'[u] = pc[u]  BY <1>1, <1>3 DEF TypeOK
<1>7. op[t] = "writeRx" => local'[t] = Pdo(writes + 1) /\ t \notin RtCallers
  BY <1>3, RoleOps DEF TypeOK
<1>8. HandsOK'
  <2>1. local[t] = Pdo(0)  BY <1>1 DEF HandsOK
  <2>2. op[t] # "writeRx" => local'[t] = local[t]  BY <1>3
  <2> QED BY <1>1, <1>4, <1>6, <1>7, <2>1, <2>2 DEF HandsOK
<1>9. FloorsOK'  BY <1>1 DEF FloorsOK
<1>10. WritersOK'
  <2>1. \A d \in Devices : /\ setDone'[d] <= writes'
                           /\ \A w \in Words : setDone'[d] <= mem'["rxPdo"][d][w]
    BY <1>1, <1>5 DEF WritersOK, TypeOK
  <2>2. \A v \in RtCallers, d \in Devices, x \in Words :
           HasCopied(v, "updateWrite", d, x)' => HasCopied(v, "updateWrite", d, x)
    <3>1. \A x \in Words : ~(x < 1)  BY DEF Words
    <3> QED BY <1>1, <1>4, <1>6, <3>1 DEF HasCopied
  <2>3. ASSUME NEW u \in Threads, NEW w \in Words
        PROVE  /\ From[op'[u]] = "caller" => local'[u][w] <= writes'
               /\ op'[u] = "set" /\ pc'[u] \in {"copy", "release"} => setDone'[dev'[u]] <= local'[u][w]
               /\ op'[u] = "set" /\ pc'[u] = "release" => local'[u][2] <= mem'["rxPdo"][dev'[u]][w]
               /\ op'[u] = "writeRx" /\ pc'[u] = "copy" =>
                    \A v \in RtCallers, x \in Words :
                      HasCopied(v, "updateWrite", dev[u], x)' => floor'[v][dev'[u]] <= local'[u][w]
    <3>1. CASE u = t
      <4>1. CASE op[t] = "writeRx"
        <5>1. local'[t][w] = writes + 1 /\ writes' = writes + 1  BY <1>3, <1>7, <4>1 DEF Pdo
        <5>2. dev[t] \in Devices /\ setDone[dev[t]] <= writes  BY DEF WritersOK, TypeOK
        <5>3. \A v \in RtCallers : floor[v][dev[t]] <= setDone[dev[t]]
          BY <5>2, RoleOps DEF FloorsOK
        <5>4. \A v \in RtCallers : floor[v][dev[t]] \in Nat /\ setDone[dev[t]] \in Nat /\ writes \in Nat
          BY <5>2 DEF TypeOK
        <5>5. \A v \in RtCallers : floor[v][dev[t]] <= writes + 1  BY <5>2, <5>3, <5>4
        <5> QED BY <1>1, <3>1, <4>1, <5>1, <5>4, <5>5
      <4>2. CASE op[t] # "writeRx"
        <5>1. From[op[t]] # "caller" /\ op[t] # "set"  BY <1>2, <4>2, RoleOps, Places
        <5> QED BY <1>1, <3>1, <4>2, <5>1
      <4> QED BY <4>1, <4>2
    <3>2. CASE u # t
      <4>1. /\ From[op[u]] = "caller" => local[u][w] <= writes
            /\ local[u][w] \in Nat /\ dev[u] \in Devices
        BY DEF WritersOK, TypeOK
      <4> QED BY <1>1, <1>5, <1>6, <2>2, <3>2, <4>1 DEF WritersOK, TypeOK
    <3> QED BY <3>1, <3>2
  <2> QED BY <2>1, <2>3 DEF WritersOK
<1>11. \A x \in Words : ~(x < 1)  BY DEF Words
<1>12. OutputsOK'  BY <1>1, <1>4, <1>6, <1>11 DEF OutputsOK, HasCopied
<1>13. InputsOK'  BY <1>1, <1>4, <1>6, <1>11 DEF InputsOK, HasCopied
<1>14. ReadIsCurrent'
  <2>1. \A u \in Apps : pc'[u] = "release" => u # t  BY <1>4
  <2> QED BY <1>1, <1>6, <2>1 DEF ReadIsCurrent, At
<1> QED BY <1>8, <1>9, <1>10, <1>12, <1>13, <1>14

\* Release: a set_rx_pdo() that returns has raised the floor that the frames keep.
LEMMA ReleaseCurrent ==
    ASSUME WholeInv, CurrentInv, NEW t \in Threads, Release(t)
    PROVE  CurrentInv'
<1> USE ThreadKinds DEF CurrentInv, WholeInv
<1>1. /\ pc[t] = "release" /\ word' = [word EXCEPT ![t] = 1]
      /\ setDone' = IF op[t] = "set" THEN [setDone EXCEPT ![dev[t]] = local[t][2]] ELSE setDone
      /\ UNCHANGED <<mem, dev, todo, writes, frames, delivered, received>>
  BY DEF Release, At, counters
<1>2. /\ t \in Apps => /\ pc' = [pc EXCEPT ![t] = "idle"] /\ op' = [op EXCEPT ![t] = "set"]
                       /\ local' = [local EXCEPT ![t] = Pdo(0)]
                       /\ floor' = [floor EXCEPT ![t] = [d \in Devices |-> 0]]
      /\ t \notin Apps => pc' = [pc EXCEPT ![t] = "loop"] /\ UNCHANGED <<op, local, floor>>
  BY DEF Release, Goto
<1>3. pc'[t] = IF t \in Apps THEN "idle" ELSE "loop"  BY <1>2 DEF TypeOK
<1>4. \A u \in Threads \ {t} : /\ pc'[u] = pc[u] /\ op'[u] = op[u] /\ word'[u] = word[u]
                              /\ local'[u] = local[u] /\ floor'[u] = floor[u]
  <2>1. CASE t \in Apps  BY <1>1, <1>2, <2>1 DEF TypeOK
  <2>2. CASE t \notin Apps  BY <1>1, <1>2, <2>2 DEF TypeOK
  <2> QED BY <2>1, <2>2
<1>5. /\ t \in Apps => op'[t] = "set" /\ local'[t] = Pdo(0) /\ \A d \in Devices : floor'[t][d] = 0
      /\ t \notin Apps => op'[t] = op[t] /\ local'[t] = local[t] /\ floor'[t] = floor[t]
  BY <1>2 DEF TypeOK
<1>6. /\ \A d \in Devices : setDone[d] <= setDone'[d] /\ setDone'[d] \in Nat
      /\ \A d \in Devices : d # dev[t] \/ op[t] # "set" => setDone'[d] = setDone[d]
      /\ op[t] = "set" => setDone'[dev[t]] = local[t][2]
  <2>1. CASE op[t] = "set"
    <3>1. setDone[dev[t]] <= local[t][2] /\ local[t][2] \in Nat /\ dev[t] \in Devices
      BY <1>1, <2>1 DEF WritersOK, TypeOK, Words
    <3> QED BY <1>1, <2>1, <3>1 DEF TypeOK
  <2>2. CASE op[t] # "set"  BY <1>1, <2>2 DEF TypeOK
  <2> QED BY <2>1, <2>2
<1>7. HandsOK'  BY <1>1, <1>3, <1>4, <1>5 DEF HandsOK
<1>8. FloorsOK'
  <2> SUFFICES ASSUME NEW u \in Threads, NEW d \in Devices
               PROVE  /\ floor'[u][d] <= IF op'[u] = "getTx" THEN delivered ELSE setDone'[d]
                      /\ op'[u] \in {"readRx", "readTx"} => floor'[u][d] = 0
    BY <1>1 DEF FloorsOK
  <2>1. /\ floor[u][d] <= IF op[u] = "getTx" THEN delivered ELSE setDone[d]
        /\ op[u] \in {"readRx", "readTx"} => floor[u][d] = 0
        /\ floor[u][d] \in Nat /\ setDone[d] \in Nat /\ delivered \in Nat
    BY DEF FloorsOK, TypeOK
  <2>2. CASE u = t /\ t \in Apps  BY <1>5, <1>6, <2>2
  <2>3. CASE u # t \/ t \notin Apps
    <3>1. op'[u] = op[u] /\ floor'[u] = floor[u]  BY <1>4, <1>5, <2>3
    <3> QED BY <1>6, <2>1, <3>1
  <2> QED BY <2>2, <2>3
<1>9. \A u \in Threads \ {t} : op[t] = "set" /\ op[u] = "set" /\ pc[u] \in {"copy", "release"} => dev[u] # dev[t]
  <2> SUFFICES ASSUME NEW u \in Threads, op[t] = "set", op[u] = "set",
                      pc[u] \in {"copy", "release"}, dev[u] = dev[t]
               PROVE  u = t
    OBVIOUS
  <2>1. op[t] \in LocksDevice /\ dev[t] \in Devices  BY RoleOps, Places DEF TypeOK
  <2>2. deviceHolder[dev[t]] = t /\ deviceHolder[dev[t]] = u  BY <1>1, <2>1 DEF LocksOK
  <2> QED BY <2>2
<1>10. \A u \in RtCallers, d \in Devices, x \in Words : \A o \in RtOps :
          HasCopied(u, o, d, x)' <=> HasCopied(u, o, d, x)
  <2>1. \A u \in RtCallers : u \in Threads /\ (u = t => pc'[t] = "loop" /\ op'[t] = op[t])
    BY <1>3, <1>5
  <2> QED BY <1>1, <1>4, <2>1 DEF HasCopied
<1>11. WritersOK'
  <2>1. \A d \in Devices : /\ setDone'[d] <= writes
                           /\ \A w \in Words : setDone'[d] <= mem["rxPdo"][d][w]
    <3>1. CASE op[t] = "set"
      <4>1. /\ local[t][2] <= writes
            /\ \A w \in Words : local[t][2] <= mem["rxPdo"][dev[t]][w]
        BY <1>1, <3>1, RoleOps, Places DEF WritersOK, Words
      <4> QED BY <1>6, <4>1 DEF WritersOK
    <3>2. CASE op[t] # "set"  BY <1>6, <3>2 DEF WritersOK
    <3> QED BY <3>1, <3>2
  <2>2. ASSUME NEW u \in Threads, NEW w \in Words
        PROVE  /\ From[op'[u]] = "caller" => local'[u][w] <= writes
               /\ op'[u] = "set" /\ pc'[u] \in {"copy", "release"} => setDone'[dev[u]] <= local'[u][w]
               /\ op'[u] = "set" /\ pc'[u] = "release" => local'[u][2] <= mem["rxPdo"][dev[u]][w]
               /\ op'[u] = "writeRx" /\ pc'[u] = "copy" =>
                    \A v \in RtCallers, x \in Words :
                      HasCopied(v, "updateWrite", dev[u], x)' => floor'[v][dev[u]] <= local'[u][w]
    <3>1. CASE u = t
      <4>1. CASE t \in Apps
        <5>1. local'[t][w] = 0  BY <1>5, <4>1 DEF Pdo
        <5> QED BY <1>3, <3>1, <4>1, <5>1 DEF TypeOK
      <4>2. CASE t \notin Apps
        <5>1. op[t] \notin {"set", "writeRx"} /\ From[op[t]] # "caller"  BY <4>2, RoleOps, Places
        <5> QED BY <1>5, <3>1, <4>2, <5>1
      <4> QED BY <4>1, <4>2
    <3>2. CASE u # t
      <4>1. op[u] = "set" /\ pc[u] \in {"copy", "release"} => setDone'[dev[u]] = setDone[dev[u]]
        BY <1>6, <1>9, <3>2 DEF TypeOK
      <4>2. \A v \in RtCallers : floor'[v] = floor[v]  BY <1>4, <1>5
      <4>3. dev[u] \in Devices /\ "updateWrite" \in RtOps  BY DEF TypeOK, RtOps
      <4>4. \A v \in RtCallers, x \in Words :
               HasCopied(v, "updateWrite", dev[u], x)' => HasCopied(v, "updateWrite", dev[u], x)
        BY <1>1, <1>10, <4>3
      <4>5. pc'[u] = pc[u] /\ op'[u] = op[u] /\ local'[u] = local[u]  BY <1>4, <3>2
      <4> QED BY <1>1, <4>1, <4>2, <4>4, <4>5 DEF WritersOK
    <3> QED BY <3>1, <3>2
  <2> QED BY <1>1, <2>1, <2>2 DEF WritersOK
<1>12. OutputsOK'
  <2>1. \A v \in RtCallers : floor'[v] = floor[v]  BY <1>4, <1>5
  <2>2. "updateWrite" \in RtOps  BY DEF RtOps
  <2> QED BY <1>1, <1>10, <2>1, <2>2 DEF OutputsOK
<1>13. InputsOK'
  <2>1. "updateRead" \in RtOps  BY DEF RtOps
  <2> QED BY <1>1, <1>10, <2>1 DEF InputsOK
<1>14. ReadIsCurrent'
  <2>1. \A u \in Apps : pc'[u] = "release" => u # t  BY <1>3
  <2> QED BY <1>1, <1>4, <2>1 DEF ReadIsCurrent, At
<1> QED BY <1>7, <1>8, <1>11, <1>12, <1>13, <1>14

\* RtBegin: update_rt() has copied nothing yet.
LEMMA RtBeginCurrent ==
    ASSUME WholeInv, CurrentInv, NEW t \in RtCallers, RtBegin(t)
    PROVE  CurrentInv'
<1> USE ThreadKinds DEF CurrentInv, WholeInv
<1>1. /\ t \in Threads /\ pc[t] = "idle" /\ pc' = [pc EXCEPT ![t] = "loop"]
      /\ op' = [op EXCEPT ![t] = "updateWrite"] /\ todo' = [todo EXCEPT ![t] = Devices]
      /\ floor' = [floor EXCEPT ![t] = setDone]
      /\ UNCHANGED <<mem, local, dev, word, writes, frames, setDone, delivered, received>>
  BY DEF RtBegin, At, Goto, memoryVars, counters
<1>2. \A u \in Threads \ {t} : /\ pc'[u] = pc[u] /\ op'[u] = op[u] /\ todo'[u] = todo[u] /\ floor'[u] = floor[u]
  BY <1>1 DEF TypeOK
<1>3. pc'[t] = "loop" /\ op'[t] = "updateWrite" /\ todo'[t] = Devices /\ floor'[t] = setDone
  BY <1>1 DEF TypeOK
<1>4. HandsOK'  BY <1>1, <1>2, <1>3 DEF HandsOK
<1>5. FloorsOK'  BY <1>1, <1>2, <1>3 DEF FloorsOK, TypeOK
<1>6. WritersOK'
  <2>1. From["updateWrite"] # "caller"  BY Places DEF Ops, RtOps
  <2> QED BY <1>1, <1>2, <1>3, <2>1 DEF WritersOK, HasCopied, TypeOK
<1>7. OutputsOK'  BY <1>1, <1>2, <1>3 DEF OutputsOK, HasCopied
<1>8. InputsOK'  BY <1>1, <1>2, <1>3 DEF InputsOK, HasCopied
<1>9. ReadIsCurrent'  BY <1>1, <1>2 DEF ReadIsCurrent, At
<1> QED BY <1>4, <1>5, <1>6, <1>7, <1>8, <1>9

\* RtVisit: the loop goes on to the next device.
LEMMA RtVisitCurrent ==
    ASSUME WholeInv, CurrentInv, NEW t \in RtCallers, RtVisit(t)
    PROVE  CurrentInv'
<1> USE ThreadKinds DEF CurrentInv, WholeInv
<1>1. PICK d \in todo[t] : BeginCopy(t, op[t], d) /\ todo' = [todo EXCEPT ![t] = @ \ {d}]
  BY DEF RtVisit
<1>2. /\ t \in Threads /\ pc[t] = "loop" /\ d \in Devices
      /\ UNCHANGED <<mem, local, op, writes, frames, setDone, delivered, received, floor>>
  <2>1. op[t] \in Ops /\ op' = [op EXCEPT ![t] = op[t]]  BY <1>1, RoleOps DEF BeginCopy
  <2> QED BY <1>1, <2>1 DEF RtVisit, At, memoryVars, counters, history, TypeOK
<1>3. pc'[t] = "lockDevice" /\ dev'[t] = d /\ todo'[t] = todo[t] \ {d}
  <2>1. op[t] \in LocksDevice  BY RoleOps, Places
  <2> QED BY <1>1, <1>2, <2>1 DEF BeginCopy, Goto, TypeOK
<1>4. \A u \in Threads \ {t} : /\ pc'[u] = pc[u] /\ dev'[u] = dev[u] /\ todo'[u] = todo[u] /\ word'[u] = word[u]
  BY <1>1 DEF BeginCopy, Goto, TypeOK
<1>5. HandsOK'  BY <1>2, <1>3, <1>4 DEF HandsOK
<1>6. FloorsOK'  BY <1>2 DEF FloorsOK
<1>7. \A u \in RtCallers, e \in Devices, x \in Words : \A o \in RtOps :
          HasCopied(u, o, e, x)' => HasCopied(u, o, e, x)
  BY <1>2, <1>3, <1>4 DEF HasCopied
<1>8. "updateWrite" \in RtOps /\ "updateRead" \in RtOps  BY DEF RtOps
<1>9. WritersOK'
  <2>1. From[op[t]] # "caller" /\ op[t] \notin {"set", "writeRx"}  BY RoleOps, Places
  <2>2. \A u \in Threads : dev[u] \in Devices  BY DEF TypeOK
  <2> QED BY <1>2, <1>4, <1>7, <1>8, <2>1, <2>2 DEF WritersOK
<1>10. OutputsOK'  BY <1>2, <1>7, <1>8 DEF OutputsOK
<1>11. InputsOK'  BY <1>2, <1>7, <1>8 DEF InputsOK
<1>12. ReadIsCurrent'  BY <1>2, <1>4 DEF ReadIsCurrent, At
<1> QED BY <1>5, <1>6, <1>9, <1>10, <1>11, <1>12

\* The frame is locked and sent after the loop of update_write().
LEMMA RtFrameCurrent ==
    ASSUME WholeInv, CurrentInv, NEW t \in RtCallers, RtLockFrame(t) \/ RtSend(t)
    PROVE  CurrentInv'
<1> USE ThreadKinds DEF CurrentInv, WholeInv
<1>1. /\ t \in Threads /\ pc[t] \in {"loop", "send"} /\ op[t] = "updateWrite" /\ todo[t] = {}
      /\ pc' = [pc EXCEPT ![t] = IF pc[t] = "loop" THEN "send" ELSE "receive"]
      /\ word' = word \/ word' = [word EXCEPT ![t] = 1]
      /\ UNCHANGED <<mem, local, op, dev, todo, writes, frames, setDone, delivered, received, floor>>
  BY DEF RtLockFrame, RtSend, At, Goto, memoryVars, lockVars, counters, history, HandsOK
<1>2. pc'[t] \in {"send", "receive"}  BY <1>1 DEF TypeOK
<1>3. \A u \in Threads \ {t} : pc'[u] = pc[u] /\ word'[u] = word[u]  BY <1>1 DEF TypeOK
<1>4. HandsOK'  BY <1>1, <1>2, <1>3 DEF HandsOK
<1>5. FloorsOK'  BY <1>1 DEF FloorsOK
<1>6. \A u \in RtCallers, e \in Devices, x \in Words : \A o \in RtOps :
          HasCopied(u, o, e, x)' => HasCopied(u, o, e, x)
  BY <1>1, <1>2, <1>3 DEF HasCopied
<1>7. "updateWrite" \in RtOps /\ "updateRead" \in RtOps  BY DEF RtOps
<1>8. WritersOK'
  <2>1. \A u \in Threads : dev[u] \in Devices  BY DEF TypeOK
  <2> QED BY <1>1, <1>2, <1>3, <1>6, <1>7, <2>1 DEF WritersOK
<1>9. OutputsOK'  BY <1>1, <1>6, <1>7 DEF OutputsOK
<1>10. InputsOK'  BY <1>1, <1>6, <1>7 DEF InputsOK
<1>11. ReadIsCurrent'  BY <1>1, <1>3 DEF ReadIsCurrent, At
<1> QED BY <1>4, <1>5, <1>8, <1>9, <1>10, <1>11

\* RtEnd: every device has its outputs in the frame and its inputs copied.
LEMMA RtEndCurrent ==
    ASSUME WholeInv, CurrentInv, NEW t \in RtCallers, RtEnd(t)
    PROVE  CurrentInv'
<1> USE ThreadKinds DEF CurrentInv, WholeInv
<1>1. /\ t \in Threads /\ pc[t] = "loop" /\ todo[t] = {} /\ op[t] = "updateRead"
      /\ pc' = [pc EXCEPT ![t] = "idle"] /\ op' = [op EXCEPT ![t] = "updateWrite"]
      /\ delivered' = Bigger(delivered, received[t])
      /\ received' = [received EXCEPT ![t] = 0]
      /\ floor' = [floor EXCEPT ![t] = [d \in Devices |-> 0]]
      /\ UNCHANGED <<mem, local, dev, word, todo, writes, frames, setDone>>
  BY DEF RtEnd, At, Goto, memoryVars, lockVars, counters
<1>2. /\ pc'[t] = "idle" /\ op'[t] = "updateWrite" /\ received'[t] = 0
      /\ \A d \in Devices : floor'[t][d] = 0
  BY <1>1 DEF TypeOK
<1>3. \A u \in Threads \ {t} : pc'[u] = pc[u] /\ op'[u] = op[u] /\ floor'[u] = floor[u]  BY <1>1 DEF TypeOK
<1>4. \A u \in RtCallers \ {t} : received'[u] = received[u]  BY <1>1 DEF TypeOK
<1>5. delivered <= delivered' /\ delivered' \in {delivered, received[t]} /\ delivered' \in Nat
  BY <1>1 DEF Bigger, TypeOK
<1>6. HandsOK'  BY <1>1, <1>2, <1>3 DEF HandsOK
<1>7. FloorsOK'
  <2>1. \A u \in Threads, d \in Devices : floor[u][d] \in Nat /\ setDone[d] \in Nat /\ delivered \in Nat
    BY DEF TypeOK
  <2> QED BY <1>1, <1>2, <1>3, <1>5, <2>1 DEF FloorsOK
<1>8. WritersOK'
  <2>1. From["updateWrite"] # "caller"  BY Places DEF Ops, RtOps
  <2>2. \A u \in Threads, w \in Words : local[u][w] \in Nat /\ dev[u] \in Devices  BY DEF TypeOK
  <2> QED BY <1>1, <1>2, <1>3, <2>1, <2>2 DEF WritersOK, HasCopied
<1>9. OutputsOK'
  <2>1. \A d \in Devices, w \in Words : mem["outputs"][d][w] \in Nat  BY DEF TypeOK, Stores
  <2> QED BY <1>1, <1>2, <1>3, <2>1 DEF OutputsOK, HasCopied
<1>10. InputsOK'
  <2>1. \A d \in Devices, w \in Words : mem["inputs"][d][w] \in Nat /\ mem["txPdo"][d][w] \in Nat
    BY DEF TypeOK, Stores
  <2>2. \A d \in Devices, w \in Words : received[t] <= mem["txPdo"][d][w]
    BY <1>1 DEF InputsOK, HasCopied
  <2> QED BY <1>1, <1>2, <1>3, <1>4, <1>5, <2>1, <2>2 DEF InputsOK, HasCopied
<1>11. ReadIsCurrent'  BY <1>1, <1>2, <1>3 DEF ReadIsCurrent, At
<1> QED BY <1>6, <1>7, <1>8, <1>9, <1>10, <1>11

\* RtReceive: the frame's answer is newer than every input a reader knows of.
LEMMA RtReceiveCurrent ==
    ASSUME WholeInv, CurrentInv, NEW t \in RtCallers, RtReceive(t)
    PROVE  CurrentInv'
<1> USE ThreadKinds DEF CurrentInv, WholeInv
<1>1. /\ t \in Threads /\ pc[t] = "receive" /\ op[t] = "updateWrite" /\ todo[t] = {}
      /\ UNCHANGED <<local, dev, writes, setDone, delivered, floor>>
  BY DEF RtReceive, At, HandsOK
<1>2. 1 \in Words /\ 2 \in Words /\ \A w \in Words : w = 1 \/ w = 2  BY DEF Words

\* The outcome: a frame arrives, its last word arrives, or it is lost.
<1>3. \/ /\ frames' = frames + 1
         /\ mem' = [mem EXCEPT !["inputs"] = [d \in Devices |-> [@[d] EXCEPT ![1] = frames + 1]]]
         /\ word' = [word EXCEPT ![t] = 2] /\ UNCHANGED <<pc, op, todo, received>>
      \/ /\ mem' = [mem EXCEPT !["inputs"] = [d \in Devices |-> Pdo(@[d][1])]]
         /\ received' = [received EXCEPT ![t] = frames]
         /\ pc' = [pc EXCEPT ![t] = "loop"] /\ op' = [op EXCEPT ![t] = "updateRead"]
         /\ todo' = [todo EXCEPT ![t] = Devices] /\ word' = [word EXCEPT ![t] = 1] /\ frames' = frames
      \/ /\ pc' = [pc EXCEPT ![t] = "loop"] /\ op' = [op EXCEPT ![t] = "updateRead"]
         /\ todo' = [todo EXCEPT ![t] = Devices] /\ UNCHANGED <<mem, frames, word, received>>
  BY DEF RtReceive, Goto
<1>4. \A s \in Stores \ {"inputs"} : mem'[s] = mem[s]  BY <1>3 DEF TypeOK
<1>5. \A d \in Devices : /\ mem'["inputs"][d][1] = frames' /\ mem'["inputs"][d][2] <= frames'
                         /\ \A w \in Words : mem["inputs"][d][w] <= mem'["inputs"][d][w]
  <2> SUFFICES ASSUME NEW d \in Devices
               PROVE  /\ mem'["inputs"][d][1] = frames' /\ mem'["inputs"][d][2] <= frames'
                      /\ mem["inputs"][d][1] <= mem'["inputs"][d][1]
                      /\ mem["inputs"][d][2] <= mem'["inputs"][d][2]
    BY <1>2
  <2>1. /\ mem["inputs"][d][1] = frames /\ mem["inputs"][d][2] <= frames /\ frames \in Nat
        /\ mem["inputs"][d][2] \in Nat /\ mem["inputs"][d] \in [Words -> Nat] /\ "inputs" \in Stores
    BY <1>2 DEF InputsOK, TypeOK, Stores
  <2>2. CASE /\ frames' = frames + 1
             /\ mem' = [mem EXCEPT !["inputs"] = [e \in Devices |-> [@[e] EXCEPT ![1] = frames + 1]]]
    <3>1. mem'["inputs"][d] = [mem["inputs"][d] EXCEPT ![1] = frames + 1]
      BY <2>1, <2>2 DEF TypeOK
    <3>2. mem'["inputs"][d][1] = frames + 1 /\ mem'["inputs"][d][2] = mem["inputs"][d][2]
      BY <1>2, <2>1, <3>1
    <3> QED BY <2>1, <2>2, <3>2
  <2>3. CASE frames' = frames /\ mem' = [mem EXCEPT !["inputs"] = [e \in Devices |-> Pdo(@[e][1])]]
    <3>1. mem'["inputs"][d] = Pdo(mem["inputs"][d][1])  BY <2>1, <2>3 DEF TypeOK
    <3>2. mem'["inputs"][d][1] = frames /\ mem'["inputs"][d][2] = frames  BY <1>2, <2>1, <3>1 DEF Pdo
    <3> QED BY <2>1, <2>3, <3>2
  <2>4. CASE frames' = frames /\ mem' = mem  BY <2>1, <2>4
  <2> QED BY <1>3, <2>2, <2>3, <2>4
<1>6. \A u \in Threads \ {t} : /\ pc'[u] = pc[u] /\ op'[u] = op[u] /\ todo'[u] = todo[u] /\ word'[u] = word[u]
  BY <1>3 DEF TypeOK
<1>7. \/ pc'[t] = "receive" /\ op'[t] = "updateWrite" /\ todo'[t] = {}
      \/ pc'[t] = "loop" /\ op'[t] = "updateRead" /\ todo'[t] = Devices
  BY <1>1, <1>3 DEF TypeOK
<1>8. \A u \in RtCallers, d \in Devices, w \in Words : received'[u] <= mem'["inputs"][d][w]
  <2> SUFFICES ASSUME NEW u \in RtCallers, NEW d \in Devices, NEW w \in Words
               PROVE  received'[u] <= mem'["inputs"][d][w]
    OBVIOUS
  <2>1. received[u] <= mem["inputs"][d][w] /\ mem["inputs"][d][w] <= mem'["inputs"][d][w]
    BY <1>5 DEF InputsOK
  <2>2. received[u] \in Nat /\ mem["inputs"][d][w] \in Nat /\ mem'["inputs"][d][w] \in Nat
    <3>1. TypeOK'  BY RtReceivePreserves DEF WholeInv
    <3> QED BY <3>1 DEF TypeOK, Stores
  <2>3. CASE received' = received  BY <2>1, <2>2, <2>3
  <2>4. CASE /\ received' = [received EXCEPT ![t] = frames]
             /\ mem' = [mem EXCEPT !["inputs"] = [e \in Devices |-> Pdo(@[e][1])]]
    <3>1. "inputs" \in Stores /\ mem["inputs"][d][1] = frames /\ frames \in Nat
      BY DEF Stores, InputsOK, TypeOK
    <3>2. mem'["inputs"][d][w] = frames  BY <2>4, <3>1 DEF TypeOK, Pdo
    <3>3. CASE u = t  BY <2>4, <3>1, <3>2, <3>3 DEF TypeOK
    <3>4. CASE u # t  BY <2>1, <2>2, <2>4, <3>4 DEF TypeOK
    <3> QED BY <3>3, <3>4
  <2> QED BY <1>3, <2>3, <2>4
<1>9. \A u \in RtCallers \ {t} : received'[u] = received[u]  BY <1>3 DEF TypeOK
<1>10. HandsOK'  BY <1>1, <1>6, <1>7 DEF HandsOK
<1>11. FloorsOK'
  <2>1. \A d \in Devices : floor[t][d] <= setDone[d]  BY <1>1 DEF FloorsOK
  <2> QED BY <1>1, <1>6, <1>7, <2>1 DEF FloorsOK
<1>12. \A u \in RtCallers, e \in Devices, x \in Words : \A o \in RtOps :
          HasCopied(u, o, e, x)' => HasCopied(u, o, e, x) /\ (o = "updateRead" => u # t)
  BY <1>1, <1>6, <1>7 DEF HasCopied
<1>13. "updateWrite" \in RtOps /\ "updateRead" \in RtOps  BY DEF RtOps
<1>14. WritersOK'
  <2>1. \A u \in Threads : dev[u] \in Devices  BY DEF TypeOK
  <2>2. op'[t] \notin {"set", "writeRx"} /\ From[op'[t]] # "caller"  BY <1>7, <1>13, Places DEF Ops
  <2> QED BY <1>1, <1>4, <1>6, <1>12, <1>13, <2>1, <2>2 DEF WritersOK, Stores
<1>15. OutputsOK'  BY <1>1, <1>4, <1>12, <1>13 DEF OutputsOK, Stores
<1>16. InputsOK'
  <2> SUFFICES ASSUME NEW d \in Devices, NEW w \in Words
               PROVE  /\ delivered <= mem'["txPdo"][d][w] /\ mem'["txPdo"][d][w] <= mem'["inputs"][d][w]
                      /\ \A u \in RtCallers : HasCopied(u, "updateRead", d, w)' => received'[u] <= mem'["txPdo"][d][w]
    BY <1>1, <1>5, <1>8 DEF InputsOK
  <2>1. mem["inputs"][d][w] \in Nat /\ mem'["inputs"][d][w] \in Nat /\ mem["txPdo"][d][w] \in Nat
    <3>1. TypeOK'  BY RtReceivePreserves DEF WholeInv
    <3> QED BY <3>1 DEF TypeOK, Stores
  <2>2. mem'["txPdo"] = mem["txPdo"]  BY <1>4 DEF Stores
  <2> QED BY <1>5, <1>9, <1>12, <1>13, <2>1, <2>2 DEF InputsOK
<1>17. ReadIsCurrent'  BY <1>1, <1>6 DEF ReadIsCurrent, At
<1> QED BY <1>10, <1>11, <1>14, <1>15, <1>16, <1>17

\* What a copied word changes, place by place, and what update_rt() then has copied.
LEMMA CopyWordFacts ==
    ASSUME WholeInv, NEW t \in Threads, CopyWord(t)
    PROVE  /\ pc[t] = "copy" /\ word[t] \in {1, 2} /\ dev[t] \in Devices
           /\ pc'[t] = IF word[t] = 1 THEN "copy" ELSE "release"
           /\ word'[t] = 2
           /\ \A u \in Threads \ {t} : pc'[u] = pc[u] /\ word'[u] = word[u]
           /\ UNCHANGED <<deviceHolder, busHolder, op, dev, todo, writes, frames, setDone, delivered, received, floor>>
           /\ \A s \in Stores, e \in Devices, w \in Words :
                mem'[s][e][w] = IF To[op[t]] = s /\ dev[t] = e /\ w = word[t] THEN Source(t)[w] ELSE mem[s][e][w]
           /\ \A u \in Threads, w \in Words :
                local'[u][w] = IF u = t /\ To[op[t]] = "caller" /\ w = word[t] THEN Source(t)[w] ELSE local[u][w]
<1>1. /\ pc[t] = "copy" /\ word[t] \in Words /\ word[t] \in {1, 2} /\ Source(t) \in [Words -> Nat]
      /\ IF To[op[t]] = "caller"
         THEN local' = [local EXCEPT ![t][word[t]] = Source(t)[word[t]]] /\ mem' = mem
         ELSE mem' = [mem EXCEPT ![To[op[t]]][dev[t]][word[t]] = Source(t)[word[t]]] /\ local' = local
      /\ word[t] = 1 => word' = [word EXCEPT ![t] = 2] /\ pc' = pc
      /\ word[t] = 2 => word' = word /\ pc' = [pc EXCEPT ![t] = "release"]
  BY CopyWordFrame DEF Words
<1>2. UNCHANGED <<deviceHolder, busHolder, op, dev, todo, writes, frames, setDone, delivered, received, floor>>
  BY DEF CopyWord, lockVars, counters, history
<1>3. /\ dev[t] \in Devices /\ op[t] \in Ops /\ To[op[t]] \in Stores \cup {"caller"}
      /\ mem \in [Stores -> [Devices -> [Words -> Nat]]] /\ local \in [Threads -> [Words -> Nat]]
      /\ word \in [Threads -> Words] /\ pc \in [Threads -> {"idle", "lockDevice", "lockBus", "copy", "release",
                                                            "loop", "send", "receive"}]
  BY Operations DEF WholeInv, TypeOK, Ops
<1>4. "caller" \notin Stores  BY DEF Stores
<1>5. /\ pc'[t] = IF word[t] = 1 THEN "copy" ELSE "release"
      /\ word'[t] = 2
      /\ \A u \in Threads \ {t} : pc'[u] = pc[u] /\ word'[u] = word[u]
  BY <1>1, <1>3
<1>6. ASSUME NEW s \in Stores, NEW e \in Devices, NEW w \in Words
      PROVE  mem'[s][e][w] = IF To[op[t]] = s /\ dev[t] = e /\ w = word[t] THEN Source(t)[w] ELSE mem[s][e][w]
  <2> DEFINE v == Source(t)[word[t]]
             x == word[t]
             r == To[op[t]]
             d == dev[t]
  <2>1. CASE r = "caller"  BY <1>1, <1>4, <2>1
  <2>2. CASE r # "caller"
    <3>1. mem' = [mem EXCEPT ![r][d][x] = v] /\ r \in Stores /\ d \in Devices /\ x \in Words
      BY <1>1, <1>3, <2>2
    <3>2. w = x => v = Source(t)[w]  OBVIOUS
    <3> HIDE DEF v, x, r, d
    <3>3. mem'[s][e][w] = IF r = s /\ d = e /\ w = x THEN v ELSE mem[s][e][w]
      <4>1. CASE r = s /\ d = e  BY <1>3, <3>1, <4>1
      <4>2. CASE r = s /\ d # e  BY <1>3, <3>1, <4>2
      <4>3. CASE r # s  BY <1>3, <3>1, <4>3
      <4> QED BY <4>1, <4>2, <4>3
    <3> QED BY <3>2, <3>3 DEF x, r, d
  <2> QED BY <2>1, <2>2
<1>7. ASSUME NEW u \in Threads, NEW w \in Words
      PROVE  local'[u][w] = IF u = t /\ To[op[t]] = "caller" /\ w = word[t] THEN Source(t)[w] ELSE local[u][w]
  <2> DEFINE v == Source(t)[word[t]]
             x == word[t]
  <2>1. CASE To[op[t]] = "caller"
    <3>1. local' = [local EXCEPT ![t][x] = v] /\ x \in Words  BY <1>1, <2>1
    <3>2. w = x => v = Source(t)[w]  OBVIOUS
    <3> HIDE DEF v, x
    <3>3. local'[u][w] = IF u = t /\ w = x THEN v ELSE local[u][w]  BY <1>3, <3>1
    <3> QED BY <2>1, <3>2, <3>3 DEF x
  <2>2. CASE To[op[t]] # "caller"  BY <1>1, <2>2
  <2> QED BY <2>1, <2>2
<1> QED BY <1>1, <1>2, <1>3, <1>5, <1>6, <1>7

\* CopyWord: a copy makes nothing older, as its source is no older than its target.
LEMMA CopyWordCurrent ==
    ASSUME WholeInv, CurrentInv, NEW t \in Threads, CopyWord(t)
    PROVE  CurrentInv'
<1> USE ThreadKinds DEF CurrentInv, WholeInv
<1> DEFINE d == dev[t]
           x == word[t]
<1>1. /\ pc[t] = "copy" /\ x \in {1, 2} /\ d \in Devices
      /\ pc'[t] = IF x = 1 THEN "copy" ELSE "release"
      /\ word'[t] = 2
      /\ \A u \in Threads \ {t} : pc'[u] = pc[u] /\ word'[u] = word[u]
      /\ UNCHANGED <<deviceHolder, busHolder, op, dev, todo, writes, frames, setDone, delivered, received, floor>>
  BY CopyWordFacts
<1>2. \A s \in Stores, e \in Devices, w \in Words :
        mem'[s][e][w] = IF To[op[t]] = s /\ d = e /\ w = x THEN Source(t)[w] ELSE mem[s][e][w]
  BY CopyWordFacts
<1>3. \A u \in Threads, w \in Words :
        local'[u][w] = IF u = t /\ To[op[t]] = "caller" /\ w = x THEN Source(t)[w] ELSE local[u][w]
  BY CopyWordFacts
<1>4. /\ op[t] \in Ops /\ 1 \in Words /\ 2 \in Words /\ x \in Words
      /\ "rxPdo" \in Stores /\ "txPdo" \in Stores /\ "outputs" \in Stores /\ "inputs" \in Stores
      /\ "updateWrite" \in RtOps /\ "updateRead" \in RtOps
  BY <1>1, RoleOps DEF Words, Stores, RtOps
<1>5. \A u \in RtCallers, e \in Devices, w \in Words : \A o \in RtOps :
        HasCopied(u, o, e, w)' => HasCopied(u, o, e, w) \/ (u = t /\ o = op[t] /\ e = d /\ w = x)
  <2>1. \A w \in Words : w = 1 \/ w = 2  BY DEF Words
  <2> QED BY <1>1, <2>1 DEF HasCopied
\* Nobody else copies under the mutexes that t owns.
<1>6. ASSUME NEW u \in Threads, u # t, pc[u] \in {"copy", "release"}
      PROVE  /\ ~(op[t] \in LocksBus /\ op[u] \in LocksBus)
             /\ ~(op[t] \in LocksDevice /\ op[u] \in LocksDevice /\ dev[u] = d)
  <2>1. op[t] \in LocksBus => busHolder = t  BY <1>1 DEF LocksOK
  <2>2. op[u] \in LocksBus => busHolder = u  BY <1>6 DEF LocksOK
  <2>3. op[t] \in LocksDevice => deviceHolder[d] = t  BY <1>1 DEF LocksOK
  <2>4. op[u] \in LocksDevice /\ dev[u] = d => deviceHolder[d] = u  BY <1>1, <1>6 DEF LocksOK
  <2> QED BY <1>6, <2>1, <2>2, <2>3, <2>4
<1> HIDE DEF d, x
<1>7. HandsOK'
  <2>1. \A u \in Threads : u # t \/ u \in RtCallers => local'[u] = local[u]
    <3> SUFFICES ASSUME NEW u \in Threads, u # t \/ u \in RtCallers PROVE local'[u] = local[u]
      OBVIOUS
    <3>1. u = t => To[op[t]] # "caller"  BY RoleOps, Places
    <3>2. \A w \in Words : local'[u][w] = local[u][w]  BY <1>3, <3>1
    <3>3. local[u] \in [Words -> Nat] /\ local'[u] \in [Words -> Nat]
      <4>1. TypeOK'  BY CopyWordFrame
      <4> QED BY <4>1 DEF TypeOK
    <3> QED BY <3>2, <3>3
  <2> QED BY <1>1, <2>1 DEF HandsOK
<1>8. FloorsOK'  BY <1>1 DEF FloorsOK
<1>9. WritersOK'
  <2>1. \A e \in Devices : /\ setDone[e] <= writes
                           /\ \A w \in Words : setDone[e] <= mem'["rxPdo"][e][w]
    <3> SUFFICES ASSUME NEW e \in Devices, NEW w \in Words PROVE setDone[e] <= mem'["rxPdo"][e][w]
      BY DEF WritersOK
    <3>1. CASE To[op[t]] = "rxPdo" /\ d = e /\ w = x
      <4>1. op[t] = "set" /\ mem'["rxPdo"][e][w] = local[t][w]
        BY <1>2, <1>4, <3>1, Places DEF Source
      <4> QED BY <1>1, <3>1, <4>1 DEF WritersOK, d
    <3>2. CASE ~(To[op[t]] = "rxPdo" /\ d = e /\ w = x)  BY <1>2, <1>4, <3>2 DEF WritersOK
    <3> QED BY <3>1, <3>2
  <2>2. ASSUME NEW u \in Threads, NEW w \in Words
        PROVE  /\ From[op[u]] = "caller" => local'[u][w] <= writes
               /\ op[u] = "set" /\ pc'[u] \in {"copy", "release"} => setDone[dev[u]] <= local'[u][w]
               /\ op[u] = "set" /\ pc'[u] = "release" => local'[u][2] <= mem'["rxPdo"][dev[u]][w]
               /\ op[u] = "writeRx" /\ pc'[u] = "copy" =>
                    \A v \in RtCallers, y \in Words :
                      HasCopied(v, "updateWrite", dev[u], y)' => floor[v][dev[u]] <= local'[u][w]
    <3>1. dev[u] \in Devices /\ op[u] \in Ops  BY RoleOps DEF TypeOK
    <3>2. From[op[u]] = "caller" => local'[u][w] = local[u][w] /\ local'[u][2] = local[u][2]
      <4>1. From[op[t]] = "caller" => To[op[t]] # "caller"  BY <1>4, Operations, Places
      <4> QED BY <1>3, <1>4, <4>1
    <3>3. op[u] \in {"set", "writeRx"} => From[op[u]] = "caller"  BY <3>1, Places
    <3>4. From[op[u]] = "caller" => local'[u][w] <= writes  BY <3>2 DEF WritersOK
    <3>5. op[u] = "set" /\ pc'[u] \in {"copy", "release"} => setDone[dev[u]] <= local'[u][w]
      <4>1. pc'[u] \in {"copy", "release"} => pc[u] \in {"copy", "release"}  BY <1>1
      <4> QED BY <3>2, <3>3, <4>1 DEF WritersOK
    <3>6. ASSUME op[u] = "set", pc'[u] = "release"
          PROVE  local'[u][2] <= mem'["rxPdo"][dev[u]][w]
      <4>1. To[op[u]] = "rxPdo" /\ From[op[u]] = "caller" /\ op[u] \in LocksDevice  BY <3>1, <3>6, Places
      <4>2. CASE u = t
        <5>1. x = 2 /\ dev[u] = d  BY <1>1, <3>6, <4>2 DEF d
        <5>2. CASE w = 2
          <6>1. mem'["rxPdo"][d][2] = local[t][2]  BY <1>1, <1>2, <1>4, <4>1, <4>2, <5>1 DEF Source
          <6>2. local[t][2] \in Nat  BY <1>4 DEF TypeOK
          <6> QED BY <3>2, <4>1, <4>2, <5>1, <5>2, <6>1, <6>2
        <5>3. CASE w = 1
          <6>1. mem'["rxPdo"][d][1] = mem["rxPdo"][d][1]  BY <1>1, <1>2, <1>4, <5>1
          <6>2. HalfWay(t, Ops)  BY <1>1, <1>4, <5>1 DEF HalfWay, x
          <6>3. CopiesOK(t)  BY TornParts
          <6>4. Target(t)[1] = Source(t)[1]  BY <6>2, <6>3 DEF CopiesOK
          <6>5. mem["rxPdo"][d][1] = local[t][1]
            BY <4>1, <4>2, <6>4 DEF Target, Source, Stores, d
          <6>6. local[t][1] = local[t][2]
            <7>1. ~Torn(Source(t))  BY <1>1, SourceIsWhole
            <7> QED BY <4>1, <4>2, <7>1 DEF Torn, Source
          <6>7. local[t][2] \in Nat  BY <1>4 DEF TypeOK
          <6> QED BY <3>2, <4>1, <4>2, <5>1, <5>3, <6>1, <6>5, <6>6, <6>7
        <5> QED BY <5>2, <5>3 DEF Words
      <4>3. CASE u # t
        <5>1. pc[u] = "release"  BY <1>1, <3>6, <4>3
        <5>2. ~(To[op[t]] = "rxPdo" /\ d = dev[u])
          <6>1. To[op[t]] = "rxPdo" => op[t] \in LocksDevice  BY <1>4, Places
          <6> QED BY <1>6, <4>1, <4>3, <5>1, <6>1
        <5>3. mem'["rxPdo"][dev[u]][w] = mem["rxPdo"][dev[u]][w]  BY <1>2, <1>4, <3>1, <5>2
        <5> QED BY <3>2, <3>6, <4>1, <5>1, <5>3 DEF WritersOK
      <4> QED BY <4>2, <4>3
    <3>7. ASSUME op[u] = "writeRx", pc'[u] = "copy", NEW v \in RtCallers, NEW y \in Words,
                 HasCopied(v, "updateWrite", dev[u], y)'
          PROVE  floor[v][dev[u]] <= local'[u][w]
      <4>1. pc[u] = "copy" /\ op[u] \in LocksBus  BY <1>1, <3>1, <3>7, Places
      <4>2. HasCopied(v, "updateWrite", dev[u], y)
        <5>1. v = t => op[t] \in LocksBus /\ u # t  BY <1>4, <3>1, <3>7, RoleOps, Places
        <5>2. v # t  BY <1>6, <4>1, <5>1
        <5> QED BY <1>1, <1>4, <1>5, <3>1, <3>7, <5>2
      <4> QED BY <3>2, <3>3, <3>7, <4>1, <4>2 DEF WritersOK
    <3> QED BY <1>1, <3>4, <3>5, <3>6, <3>7
  <2> QED BY <1>1, <2>1, <2>2 DEF WritersOK
<1>10. OutputsOK'
  <2> SUFFICES ASSUME NEW u \in RtCallers, NEW e \in Devices, NEW w \in Words,
                      HasCopied(u, "updateWrite", e, w)'
               PROVE  floor[u][e] <= mem'["outputs"][e][w]
    BY <1>1 DEF OutputsOK
  <2>1. op[u] = "updateWrite"  BY <1>1 DEF HasCopied
  <2>2. CASE To[op[t]] = "outputs" /\ d = e /\ w = x
    <3>1. mem'["outputs"][e][w] = Source(t)[w]  BY <1>2, <1>4, <2>2
    <3>2. CASE op[t] = "updateWrite"
      <4>1. Source(t)[w] = mem["rxPdo"][e][w]  BY <1>4, <2>2, <3>2, Places DEF Source, Stores, d
      <4>2. floor[u][e] <= setDone[e] /\ setDone[e] <= mem["rxPdo"][e][w]
        BY <2>1 DEF FloorsOK, WritersOK
      <4>3. floor[u][e] \in Nat /\ setDone[e] \in Nat /\ mem["rxPdo"][e][w] \in Nat
        BY <1>4 DEF TypeOK
      <4> QED BY <3>1, <4>1, <4>2, <4>3
    <3>3. CASE op[t] = "writeRx"
      <4>1. Source(t)[w] = local[t][w]  BY <1>4, <3>3, Places DEF Source
      <4>2. u # t  BY <2>1, <3>3
      <4>3. HasCopied(u, "updateWrite", e, w)  BY <1>4, <1>5, <4>2
      <4> QED BY <1>1, <2>2, <3>1, <3>3, <4>1, <4>3 DEF WritersOK, d
    <3> QED BY <1>4, <2>2, <3>2, <3>3, Places
  <2>3. CASE ~(To[op[t]] = "outputs" /\ d = e /\ w = x)
    <3>1. mem'["outputs"][e][w] = mem["outputs"][e][w]  BY <1>2, <1>4, <2>3
    <3>2. HasCopied(u, "updateWrite", e, w)
      <4>1. u = t => To[op[t]] = "outputs"  BY <1>4, <2>1, Places
      <4> QED BY <1>4, <1>5, <2>3, <4>1
    <3> QED BY <3>1, <3>2 DEF OutputsOK
  <2> QED BY <2>2, <2>3
<1>11. InputsOK'
  <2>1. To[op[t]] # "inputs"  BY <1>4, Operations
  <2>2. \A e \in Devices, w \in Words : mem'["inputs"][e][w] = mem["inputs"][e][w]
    BY <1>2, <1>4, <2>1
  <2> SUFFICES ASSUME NEW e \in Devices, NEW w \in Words
               PROVE  /\ delivered <= mem'["txPdo"][e][w] /\ mem'["txPdo"][e][w] <= mem["inputs"][e][w]
                      /\ \A u \in RtCallers : HasCopied(u, "updateRead", e, w)' => received[u] <= mem'["txPdo"][e][w]
    BY <1>1, <1>4, <2>2 DEF InputsOK
  <2>3. CASE To[op[t]] = "txPdo" /\ d = e /\ w = x
    <3>1. op[t] = "updateRead" /\ From[op[t]] = "inputs"  BY <1>4, <2>3, Places
    <3>2. mem'["txPdo"][e][w] = mem["inputs"][e][w]  BY <1>2, <1>4, <2>3, <3>1 DEF Source, d
    <3>3. delivered \in Nat /\ mem["inputs"][e][w] \in Nat /\ mem["txPdo"][e][w] \in Nat  BY <1>4 DEF TypeOK
    <3> QED BY <3>2, <3>3 DEF InputsOK
  <2>4. CASE ~(To[op[t]] = "txPdo" /\ d = e /\ w = x)
    <3>1. mem'["txPdo"][e][w] = mem["txPdo"][e][w]  BY <1>2, <1>4, <2>4
    <3>2. \A u \in RtCallers : HasCopied(u, "updateRead", e, w)' => HasCopied(u, "updateRead", e, w)
      <4>1. op[t] = "updateRead" => To[op[t]] = "txPdo"  BY <1>4, Places
      <4> QED BY <1>4, <1>5, <2>4, <4>1
    <3> QED BY <3>1, <3>2 DEF InputsOK
  <2> QED BY <2>3, <2>4
<1>12. ReadIsCurrent'
  <2> SUFFICES ASSUME NEW u \in Apps, pc'[u] = "release", To[op[u]] = "caller"
               PROVE  local'[u][2] >= floor[u][dev[u]]
    BY <1>1 DEF ReadIsCurrent, At
  <2>1. CASE u # t
    <3>1. pc[u] = "release" /\ local'[u][2] = local[u][2]  BY <1>1, <1>3, <1>4, <2>1
    <3> QED BY <2>1, <3>1 DEF ReadIsCurrent, At
  <2>2. CASE u = t
    <3>1. x = 2 /\ local'[t][2] = Source(t)[2]  BY <1>1, <1>3, <1>4, <2>2
    <3>2. /\ floor[t][d] <= IF op[t] = "getTx" THEN delivered ELSE setDone[d]
          /\ op[t] \in {"readRx", "readTx"} => floor[t][d] = 0
      BY <1>1 DEF FloorsOK
    <3>3. /\ floor[t][d] \in Nat /\ delivered \in Nat /\ setDone[d] \in Nat
          /\ mem["rxPdo"][d][2] \in Nat /\ mem["txPdo"][d][2] \in Nat
          /\ Source(t) \in [Words -> Nat]
      <4>1. Source(t) \in [Words -> Nat]  BY CopyWordFrame
      <4>2. mem["rxPdo"] \in [Devices -> [Words -> Nat]] /\ mem["txPdo"] \in [Devices -> [Words -> Nat]]
        BY <1>4 DEF TypeOK
      <4>3. floor[t] \in [Devices -> Nat]  BY DEF TypeOK
      <4>4. delivered \in Nat /\ setDone \in [Devices -> Nat]  BY DEF TypeOK
      <4> QED BY <1>1, <1>4, <4>1, <4>2, <4>3, <4>4
    <3>4. CASE op[t] = "getRx"
      <4>1. Source(t)[2] = mem["rxPdo"][d][2] /\ setDone[d] <= mem["rxPdo"][d][2]
        BY <1>1, <1>4, <3>4, Places DEF Source, Stores, WritersOK, d
      <4> QED BY <2>2, <3>1, <3>2, <3>3, <3>4, <4>1 DEF d
    <3>5. CASE op[t] = "getTx"
      <4>1. Source(t)[2] = mem["txPdo"][d][2] /\ delivered <= mem["txPdo"][d][2]
        BY <1>1, <1>4, <3>5, Places DEF Source, Stores, InputsOK, d
      <4> QED BY <2>2, <3>1, <3>2, <3>3, <3>5, <4>1 DEF d
    <3>6. CASE op[t] \in {"readRx", "readTx"}
      <4>1. Source(t)[2] \in Nat  BY <1>4, <3>3
      <4> QED BY <2>2, <3>1, <3>2, <3>6, <4>1 DEF d
    <3> QED BY <1>4, <2>2, <3>4, <3>5, <3>6, Places
  <2> QED BY <2>1, <2>2
<1> QED BY <1>7, <1>8, <1>9, <1>10, <1>11, <1>12

\* Steps that change nothing.
LEMMA StutterCurrent == CurrentInv /\ UNCHANGED vars => CurrentInv'
<1> SUFFICES ASSUME CurrentInv, UNCHANGED vars PROVE CurrentInv'  OBVIOUS
<1>1. UNCHANGED <<mem, local, deviceHolder, busHolder, pc, op, dev, word, todo, calls, writes, frames,
                  setDone, delivered, received, floor>>
  BY DEF vars, memoryVars, lockVars, threadVars, counters, history
<1>2. HandsOK'  BY <1>1 DEF CurrentInv, HandsOK
<1>3. FloorsOK'  BY <1>1 DEF CurrentInv, FloorsOK
<1>4. WritersOK'  BY <1>1 DEF CurrentInv, WritersOK, HasCopied
<1>5. OutputsOK'  BY <1>1 DEF CurrentInv, OutputsOK, HasCopied
<1>6. InputsOK'  BY <1>1 DEF CurrentInv, InputsOK, HasCopied
<1>7. ReadIsCurrent'  BY <1>1 DEF CurrentInv, ReadIsCurrent, At
<1> QED BY <1>2, <1>3, <1>4, <1>5, <1>6, <1>7 DEF CurrentInv

\* BuffersOK holds on a configured bus: nothing has been written.
LEMMA InitBuffers == Init => BuffersOK
<1> SUFFICES ASSUME Init PROVE BuffersOK  OBVIOUS
<1>1. \A d \in Devices, w \in Words : mem["rxPdo"][d][w] = 0  BY DEF Init, Pdo, Stores
<1>2. writes = 0 /\ \A t \in Threads : pc[t] # "copy"  BY DEF Init
<1> QED BY <1>1, <1>2 DEF BuffersOK

\* A write that gets its mutex is newer than everything in the buffers.
LEMMA OrderBuffers ==
    ASSUME WholeInv, BuffersOK, NEW t \in Threads, pc[t] \in {"lockDevice", "lockBus"}, NumberWrite(t),
           pc' = [pc EXCEPT ![t] = pc'[t]], UNCHANGED <<mem, op, dev>>,
           op[t] = "set" => pc[t] = "lockDevice"
    PROVE  BuffersOK'
<1> USE ThreadKinds DEF WholeInv
<1>1. /\ op[t] \in {"set", "writeRx"} =>
           writes' = writes + 1 /\ local' = [local EXCEPT ![t] = Pdo(writes + 1)]
      /\ op[t] \notin {"set", "writeRx"} => writes' = writes /\ local' = local
  BY RoleOps, Places DEF NumberWrite
<1>2. writes \in Nat /\ writes' \in Nat /\ writes <= writes'  BY <1>1 DEF TypeOK
<1>3. \A u \in Threads \ {t} : pc'[u] = pc[u] /\ local'[u] = local[u]  BY <1>1 DEF TypeOK
<1> SUFFICES ASSUME NEW d \in Devices, NEW w \in Words
             PROVE  /\ mem["rxPdo"][d][w] <= writes'
                    /\ \A u \in Threads : op[u] = "set" /\ pc'[u] = "copy" /\ dev[u] = d =>
                         mem["rxPdo"][d][w] <= local'[u][w]
  BY DEF BuffersOK
<1>4. mem["rxPdo"][d][w] \in Nat /\ mem["rxPdo"][d][w] <= writes  BY DEF BuffersOK, TypeOK, Stores
<1>5. ASSUME NEW u \in Threads, op[u] = "set", pc'[u] = "copy", dev[u] = d
      PROVE  mem["rxPdo"][d][w] <= local'[u][w]
  <2>1. CASE u = t
    <3>1. local'[t][w] = writes + 1  BY <1>1, <1>5, <2>1 DEF TypeOK, Pdo
    <3> QED BY <1>2, <1>4, <2>1, <3>1
  <2>2. CASE u # t  BY <1>3, <1>5, <2>2 DEF BuffersOK
  <2> QED BY <2>1, <2>2
<1> QED BY <1>2, <1>4, <1>5

\* A copied word is a newer one: to the buffer it goes with its number, and nobody else is
\* copying there.
LEMMA CopyWordBuffers ==
    ASSUME WholeInv, CurrentInv, BuffersOK, NEW t \in Threads, CopyWord(t)
    PROVE  BuffersOK' /\ \A d \in Devices, w \in Words : mem["rxPdo"][d][w] <= mem'["rxPdo"][d][w]
<1> USE ThreadKinds DEF WholeInv
<1>1. /\ pc[t] = "copy" /\ dev[t] \in Devices
      /\ pc'[t] \in {"copy", "release"}
      /\ \A u \in Threads \ {t} : pc'[u] = pc[u]
      /\ UNCHANGED <<op, dev, writes>>
  BY CopyWordFacts
<1>2. "rxPdo" \in Stores /\ op[t] \in Ops  BY RoleOps DEF Stores
<1>3. \A e \in Devices, w \in Words :
        mem'["rxPdo"][e][w] = IF op[t] = "set" /\ dev[t] = e /\ w = word[t] THEN Source(t)[w]
                              ELSE mem["rxPdo"][e][w]
  <2>1. \A e \in Devices, w \in Words :
          mem'["rxPdo"][e][w] = IF To[op[t]] = "rxPdo" /\ dev[t] = e /\ w = word[t] THEN Source(t)[w]
                                ELSE mem["rxPdo"][e][w]
    BY <1>2, CopyWordFacts
  <2> QED BY <1>2, <2>1, Places
<1>4. op[t] = "set" => Source(t) = local[t]  BY <1>2, Places DEF Source
<1>5. \A u \in Threads, w \in Words : op[u] = "set" => local'[u][w] = local[u][w]
  <2>1. \A u \in Threads : op[u] = "set" /\ u = t => To[op[t]] # "caller"  BY <1>2, Places
  <2> QED BY <2>1, CopyWordFacts
<1>6. ASSUME NEW d \in Devices, NEW w \in Words
      PROVE  /\ mem["rxPdo"][d][w] <= mem'["rxPdo"][d][w]
             /\ mem'["rxPdo"][d][w] <= writes
             /\ \A u \in Threads : op[u] = "set" /\ pc'[u] = "copy" /\ dev[u] = d =>
                  mem'["rxPdo"][d][w] <= local'[u][w]
  <2>1. /\ mem["rxPdo"][d][w] \in Nat /\ mem["rxPdo"][d][w] <= writes
        /\ \A u \in Threads : op[u] = "set" /\ pc[u] = "copy" /\ dev[u] = d =>
             mem["rxPdo"][d][w] <= local[u][w]
    BY DEF BuffersOK, TypeOK, Stores
  <2>2. \A u \in Threads : local[u][w] \in Nat  BY DEF TypeOK
  <2>3. CASE op[t] = "set" /\ dev[t] = d /\ w = word[t]
    <3>1. mem'["rxPdo"][d][w] = local[t][w]  BY <1>3, <1>4, <2>3
    <3>2. local[t][w] <= writes  BY <1>2, <2>3, Places DEF CurrentInv, WritersOK
    <3>3. \A u \in Threads : op[u] = "set" /\ pc'[u] = "copy" /\ dev[u] = d => u = t
      <4>1. ASSUME NEW u \in Threads, op[u] = "set", pc'[u] = "copy", dev[u] = d PROVE u = t
        <5>1. pc[u] = "copy"  BY <1>1, <4>1
        <5>2. To[op[t]] = "rxPdo" /\ To[op[u]] = "rxPdo"  BY <1>2, <2>3, <4>1, Places
        <5> QED BY <1>1, <1>2, <2>3, <4>1, <5>1, <5>2, Exclusive
      <4> QED BY <4>1
    <3> QED BY <1>1, <1>5, <2>1, <2>2, <2>3, <3>1, <3>2, <3>3
  <2>4. CASE ~(op[t] = "set" /\ dev[t] = d /\ w = word[t])
    <3>1. mem'["rxPdo"][d][w] = mem["rxPdo"][d][w]  BY <1>3, <2>4
    <3>2. \A u \in Threads : pc'[u] = "copy" => pc[u] = "copy"  BY <1>1
    <3> QED BY <1>5, <2>1, <3>1, <3>2
  <2> QED BY <2>3, <2>4
<1> QED BY <1>1, <1>6 DEF BuffersOK

\* A step that neither numbers a write nor copies a word leaves the buffers alone.
LEMMA QuietBuffers ==
    ASSUME WholeInv, BuffersOK, mem'["rxPdo"] = mem["rxPdo"], writes' = writes,
           \A u \in Threads : pc'[u] = "copy" =>
              /\ pc[u] = "copy" /\ op'[u] = op[u] /\ dev'[u] = dev[u] /\ local'[u] = local[u]
    PROVE  BuffersOK'
  BY DEF BuffersOK

\* Every step preserves BuffersOK.
LEMMA NextPreservesBuffers ==
    ASSUME WholeInv, CurrentInv, BuffersOK, [Next]_vars
    PROVE  BuffersOK'
<1> USE ThreadKinds DEF WholeInv
<1>1. ASSUME NEW t \in Apps, NEW o \in AppOps, NEW d \in Devices, AppCalls(t, o, d)
      PROVE  BuffersOK'
  <2>1. \A u \in Threads : pc'[u] = "copy" => u # t /\ pc[u] = "copy"
    BY <1>1 DEF AppCalls, BeginCopy, At, Goto, TypeOK
  <2>2. \A u \in Threads \ {t} : op'[u] = op[u] /\ dev'[u] = dev[u]
    BY <1>1 DEF AppCalls, BeginCopy, TypeOK
  <2>3. UNCHANGED <<mem, local, writes>>  BY <1>1 DEF AppCalls, memoryVars
  <2> QED BY <2>1, <2>2, <2>3, QuietBuffers
<1>2. ASSUME NEW t \in Threads, Copy(t) PROVE BuffersOK'
  <2>1. CASE LockDevice(t)
    <3>1. /\ pc[t] = "lockDevice" /\ NumberWrite(t) /\ UNCHANGED <<mem, op, dev>>
          /\ pc' = [pc EXCEPT ![t] = IF op[t] \in LocksBus THEN "lockBus" ELSE "copy"]
      BY <2>1 DEF LockDevice, At, Goto
    <3>2. pc' = [pc EXCEPT ![t] = pc'[t]]  BY <3>1 DEF TypeOK
    <3> QED BY <3>1, <3>2, OrderBuffers
  <2>2. CASE LockBus(t)
    <3>1. /\ pc[t] = "lockBus" /\ NumberWrite(t) /\ UNCHANGED <<mem, op, dev>>
          /\ pc' = [pc EXCEPT ![t] = "copy"]
      BY <2>2 DEF LockBus, At, Goto
    <3>2. pc' = [pc EXCEPT ![t] = pc'[t]]  BY <3>1 DEF TypeOK
    <3>3. op[t] # "set"  BY <3>1, RoleOps, Places DEF RolesOK
    <3> QED BY <3>1, <3>2, <3>3, OrderBuffers
  <2>3. CASE Release(t)
    <3>1. /\ pc[t] = "release" /\ UNCHANGED <<mem, dev, writes>>
          /\ \E l \in {"idle", "loop"} : pc' = [pc EXCEPT ![t] = l]
          /\ \A u \in Threads \ {t} : op'[u] = op[u] /\ local'[u] = local[u]
      BY <2>3 DEF Release, At, Goto, counters, TypeOK
    <3>2. \A u \in Threads : pc'[u] = "copy" => u # t /\ pc[u] = "copy"  BY <3>1 DEF TypeOK
    <3> QED BY <3>1, <3>2, QuietBuffers
  <2> QED BY <1>2, <2>1, <2>2, <2>3, CopyWordBuffers DEF Copy
<1>3. ASSUME NEW t \in RtCallers, RtBegin(t) \/ RtStep(t) PROVE BuffersOK'
  <2>1. \A u \in Threads : pc'[u] = "copy" => u # t /\ pc[u] = "copy"
    BY <1>3 DEF RtBegin, RtStep, RtVisit, RtLockFrame, RtSend, RtReceive, RtEnd, BeginCopy, At, Goto, TypeOK
  <2>2. \A u \in Threads \ {t} : op'[u] = op[u] /\ dev'[u] = dev[u]
    BY <1>3 DEF RtBegin, RtStep, RtVisit, RtLockFrame, RtSend, RtReceive, RtEnd, BeginCopy, TypeOK
  <2>3. mem'["rxPdo"] = mem["rxPdo"] /\ local' = local /\ writes' = writes
    BY <1>3 DEF RtBegin, RtStep, RtVisit, RtLockFrame, RtSend, RtReceive, RtEnd, memoryVars, counters,
                TypeOK, Stores
  <2> QED BY <2>1, <2>2, <2>3, QuietBuffers
<1>4. CASE UNCHANGED vars
  BY <1>4, QuietBuffers DEF vars, memoryVars, threadVars, counters
<1> QED BY <1>1, <1>2, <1>3, <1>4 DEF Next

\* Copies under way, mutexes, and what is how old agree with each other.
THEOREM PdoIInvHolds == Spec => []IInv
<1>1. Init => CurrentInv /\ BuffersOK  BY InitCurrent, InitBuffers
<1>2. WholeInv /\ CurrentInv /\ [Next]_vars => CurrentInv'
  <2> SUFFICES ASSUME WholeInv, CurrentInv, [Next]_vars PROVE CurrentInv'  OBVIOUS
  <2>1. ASSUME NEW t \in Apps, NEW o \in AppOps, NEW d \in Devices, AppCalls(t, o, d)
        PROVE  CurrentInv'
    BY <2>1, AppCallsCurrent
  <2>2. ASSUME NEW t \in Threads, Copy(t) PROVE CurrentInv'
    BY <2>2, LockDeviceCurrent, LockBusCurrent, CopyWordCurrent, ReleaseCurrent DEF Copy
  <2>3. ASSUME NEW t \in RtCallers, RtBegin(t) \/ RtStep(t) PROVE CurrentInv'
    BY <2>3, RtBeginCurrent, RtVisitCurrent, RtFrameCurrent, RtReceiveCurrent, RtEndCurrent DEF RtStep
  <2>4. CASE UNCHANGED vars  BY <2>4, StutterCurrent
  <2> QED BY <2>1, <2>2, <2>3, <2>4 DEF Next
<1>3. WholeInv /\ CurrentInv /\ BuffersOK /\ [Next]_vars => BuffersOK'
  BY NextPreservesBuffers
<1> QED BY <1>1, <1>2, <1>3, WholeInvHolds, PTL DEF Spec, IInv

\* OnlyGetsNewer: no caller puts an older PDO over a newer one, for any number of devices,
\* callers of set_rx_pdo() and callers of update_rt().
THEOREM NeverOlder == Spec => OnlyGetsNewer
<1> DEFINE Newer == \A s \in Stores \ {"outputs"}, d \in Devices, w \in Words :
                       mem'[s][d][w] >= mem[s][d][w]
<1>1. IInv /\ [Next]_vars => Newer
  <2> SUFFICES ASSUME IInv, [Next]_vars PROVE Newer  OBVIOUS
  <2> USE ThreadKinds DEF IInv
  <2>1. mem \in [Stores -> [Devices -> [Words -> Nat]]]  BY DEF WholeInv, TypeOK
  <2>2. CASE mem' = mem  BY <2>1, <2>2
  <2>3. ASSUME NEW t \in Threads, CopyWord(t) PROVE Newer
    <3> SUFFICES ASSUME NEW s \in Stores \ {"outputs"}, NEW d \in Devices, NEW w \in Words
                 PROVE  mem'[s][d][w] >= mem[s][d][w]
      OBVIOUS
    <3>1. CASE s = "rxPdo"
      <4>1. mem["rxPdo"][d][w] <= mem'["rxPdo"][d][w]  BY <2>3, CopyWordBuffers
      <4> QED BY <3>1, <4>1
    <3>2. CASE s # "rxPdo"
      <4>1. op[t] \in Ops /\ s \in {"inputs", "txPdo"}  BY <3>2, RoleOps DEF IInv, Stores
      <4>2. mem'[s][d][w] = IF To[op[t]] = s /\ dev[t] = d /\ w = word[t] THEN Source(t)[w]
                            ELSE mem[s][d][w]
        BY <2>3, CopyWordFacts
      <4>3. CASE To[op[t]] = s /\ dev[t] = d /\ w = word[t]
        <5>1. op[t] = "updateRead" /\ s = "txPdo"  BY <4>1, <4>3, Places, Operations
        <5>2. Source(t) = mem["inputs"][d]  BY <4>3, <5>1, Places DEF Source, Ops, RtOps
        <5>3. mem["txPdo"][d][w] <= mem["inputs"][d][w]  BY DEF CurrentInv, InputsOK
        <5> QED BY <4>2, <4>3, <5>1, <5>2, <5>3
      <4>4. CASE ~(To[op[t]] = s /\ dev[t] = d /\ w = word[t])  BY <2>1, <4>2, <4>4
      <4> QED BY <4>3, <4>4
    <3> QED BY <3>1, <3>2
  <2>4. ASSUME NEW t \in RtCallers, RtReceive(t), mem' # mem PROVE Newer
    <3> SUFFICES ASSUME NEW s \in Stores \ {"outputs"}, NEW d \in Devices, NEW w \in Words
                 PROVE  mem'[s][d][w] >= mem[s][d][w]
      OBVIOUS
    <3>1. /\ mem["inputs"][d] \in [Words -> Nat] /\ "inputs" \in Stores /\ frames \in Nat
          /\ mem["inputs"][d][1] = frames /\ mem["inputs"][d][2] <= frames
          /\ w \in {1, 2} /\ mem["inputs"][d][w] \in Nat /\ mem["inputs"][d][w] <= frames
      BY <2>1 DEF CurrentInv, InputsOK, WholeInv, TypeOK, Stores, Words
    <3>2. CASE s # "inputs"
      <4>1. mem'[s] = mem[s]  BY <2>1, <2>4, <3>2 DEF RtReceive
      <4> QED BY <2>1, <4>1
    <3>3. CASE s = "inputs" /\ mem' = [mem EXCEPT !["inputs"] =
                                        [e \in Devices |-> [@[e] EXCEPT ![1] = frames + 1]]]
      <4>1. mem'["inputs"][d] = [mem["inputs"][d] EXCEPT ![1] = frames + 1]
        BY <2>1, <3>1, <3>3
      <4> QED BY <3>1, <3>3, <4>1
    <3>4. CASE s = "inputs" /\ mem' = [mem EXCEPT !["inputs"] = [e \in Devices |-> Pdo(@[e][1])]]
      <4>1. mem'["inputs"][d] = Pdo(mem["inputs"][d][1])  BY <2>1, <3>1, <3>4
      <4>2. mem'["inputs"][d][w] = frames  BY <3>1, <4>1 DEF Pdo, Words
      <4> QED BY <3>1, <3>4, <4>2
    <3> QED BY <2>4, <3>2, <3>3, <3>4 DEF RtReceive
  <2>5. ASSUME NEW t \in Apps, NEW o \in AppOps, NEW d \in Devices, AppCalls(t, o, d) PROVE mem' = mem
    BY <2>5 DEF AppCalls, memoryVars
  <2>6. ASSUME NEW t \in Threads, LockDevice(t) \/ LockBus(t) \/ Release(t) PROVE mem' = mem
    BY <2>6 DEF LockDevice, LockBus, Release
  <2>7. ASSUME NEW t \in RtCallers,
               RtBegin(t) \/ RtVisit(t) \/ RtLockFrame(t) \/ RtSend(t) \/ RtEnd(t)
        PROVE  mem' = mem
    BY <2>7 DEF RtBegin, RtVisit, RtLockFrame, RtSend, RtEnd, memoryVars
  <2>8. CASE UNCHANGED vars  BY <2>2, <2>8 DEF vars, memoryVars
  <2> QED BY <2>2, <2>3, <2>4, <2>5, <2>6, <2>7, <2>8 DEF Next, Copy, RtStep
<1> QED BY <1>1, PdoIInvHolds, PTL DEF Spec, OnlyGetsNewer

\* SentIsCurrent: a frame carries the last PDO whose set_rx_pdo() returned before its
\* update_rt() began, or a later one, for any number of devices and threads.
THEOREM SentCurrent == Spec => []SentIsCurrent
<1>1. IInv => SentIsCurrent
  <2> SUFFICES ASSUME IInv, NEW t \in Threads, pc[t] = "send", NEW d \in Devices
               PROVE  mem["outputs"][d][1] >= floor[t][d]
    BY DEF SentIsCurrent, At
  <2>1. t \in RtCallers  BY ThreadKinds DEF IInv, WholeInv, RolesOK
  <2>2. HasCopied(t, "updateWrite", d, 1)  BY DEF IInv, CurrentInv, HandsOK, HasCopied
  <2>3. floor[t][d] <= mem["outputs"][d][1]  BY <2>1, <2>2 DEF IInv, CurrentInv, OutputsOK, Words
  <2> QED BY <2>3
<1> QED BY <1>1, PdoIInvHolds, PTL

\* ReadIsCurrent: get_rx_pdo() and get_tx_pdo() return nothing older than what their
\* caller may know of, for any number of devices and threads.
THEOREM ReadCurrent == Spec => []ReadIsCurrent
<1>1. IInv => ReadIsCurrent  BY DEF IInv, CurrentInv
<1> QED BY <1>1, PdoIInvHolds, PTL
-----------------------------------------------------------------------------
(* The refinement.                                                         *)

\* What a step is to the callers: a step of the registers, or nothing.
RegisterStep == [Registers!RegistersNext]_Registers!registerVars

LastWords == [s \in Stores |-> [d \in Devices |-> Pdo(mem[s][d][2])]]
LastWordsInHand == [t \in Threads |-> Pdo(local[t][2])]
LastWordTells == Contents = LastWords /\ InHand = LastWordsInHand

\* A whole PDO is its last word twice.
LEMMA WholePdo ==
    ASSUME NEW pdo \in [Words -> Nat], NEW halfWay, Torn(pdo) => halfWay
    PROVE  Whole(pdo, halfWay) = Pdo(pdo[2])
<1>1. CASE halfWay  BY <1>1 DEF Whole
<1>2. CASE ~halfWay
  <2>1. pdo[1] = pdo[2]  BY <1>2 DEF Torn
  <2>2. pdo = [w \in Words |-> pdo[2]]  BY <2>1 DEF Words
  <2> QED BY <1>2, <2>2 DEF Whole, Pdo
<1> QED BY <1>1, <1>2

\* What is torn is half-way, so that the last word tells what a register holds.
LEMMA LastWordsTell == WholeInv => LastWordTells
<1> SUFFICES ASSUME WholeInv PROVE Contents = LastWords /\ InHand = LastWordsInHand
  BY DEF LastWordTells
<1> USE ThreadKinds DEF WholeInv
<1>1. ASSUME NEW s \in Stores, NEW d \in Devices
      PROVE  Torn(mem[s][d]) => \/ \E t \in Threads : HalfWay(t, CopiesTo(s)) /\ dev[t] = d
                                \/ s = "inputs" /\ FrameHalfWay
  <2> SUFFICES ASSUME Torn(mem[s][d])
               PROVE  \/ \E t \in Threads : HalfWay(t, CopiesTo(s)) /\ dev[t] = d
                      \/ s = "inputs" /\ FrameHalfWay
    OBVIOUS
  <2>1. CASE s \in {"rxPdo", "txPdo"}
    <3> DEFINE t == deviceHolder[d]
    <3>1. t \in Threads /\ pc[t] = "copy" /\ word[t] = 2 /\ op[t] \in Ops /\ To[op[t]] = s
      BY <2>1, Places DEF TornOnlyHalfWay, HalfWay, Ops, AppOps, RtOps
    <3>2. dev[t] = d  BY <3>1 DEF LocksOK
    <3>3. HalfWay(t, CopiesTo(s))  BY <3>1 DEF HalfWay, CopiesTo, Ops
    <3> QED BY <3>1, <3>2, <3>3
  <2>2. CASE s = "outputs"
    <3> DEFINE t == busHolder
    <3>1. t \in Threads /\ pc[t] = "copy" /\ word[t] = 2 /\ op[t] \in Ops /\ To[op[t]] = s /\ dev[t] = d
      BY <2>2, Places DEF TornOnlyHalfWay, HalfWay, Ops, AppOps, RtOps
    <3>2. HalfWay(t, CopiesTo(s))  BY <3>1 DEF HalfWay, CopiesTo, Ops
    <3> QED BY <3>1, <3>2
  <2>3. CASE s = "inputs"
    <3>1. busHolder \in Threads /\ pc[busHolder] = "receive" /\ word[busHolder] = 2
      BY <2>3 DEF TornOnlyHalfWay
    <3>2. busHolder \in RtCallers  BY <3>1 DEF RolesOK
    <3> QED BY <2>3, <3>1, <3>2 DEF FrameHalfWay
  <2> QED BY <2>1, <2>2, <2>3 DEF Stores
<1>2. ASSUME NEW t \in Threads
      PROVE  Torn(local[t]) => HalfWay(t, CopiesTo("caller"))
  <2>1. ToCaller \subseteq CopiesTo("caller")  BY Operations DEF ToCaller, CopiesTo, Ops, AppOps
  <2> QED BY <2>1 DEF TornOnlyHalfWay, HalfWay, ToCaller
<1>3. \A s \in Stores, d \in Devices : mem[s][d] \in [Words -> Nat]  BY DEF TypeOK
<1>4. \A t \in Threads : local[t] \in [Words -> Nat]  BY DEF TypeOK
<1>5. Contents = LastWords
  <2>1. ASSUME NEW s \in Stores, NEW d \in Devices
        PROVE  Whole(mem[s][d], \/ \E t \in Threads : HalfWay(t, CopiesTo(s)) /\ dev[t] = d
                                \/ s = "inputs" /\ FrameHalfWay) = Pdo(mem[s][d][2])
    BY <1>1, <1>3, WholePdo
  <2> QED BY <2>1 DEF Contents, LastWords
<1>6. InHand = LastWordsInHand
  <2>1. ASSUME NEW t \in Threads
        PROVE  Whole(local[t], HalfWay(t, CopiesTo("caller"))) = Pdo(local[t][2])
    BY <1>2, <1>4, WholePdo
  <2> QED BY <2>1 DEF InHand, LastWordsInHand
<1> QED BY <1>5, <1>6

\* The same of the state after a step.
LEMMA LastWordsTellNext == WholeInv' => LastWordTells'
  BY LastWordsTell, PTL

\* A step that copies no last word changes no register.
LEMMA LastWordsKept ==
    ASSUME WholeInv, WholeInv',
           \A s \in Stores, d \in Devices : mem'[s][d][2] = mem[s][d][2],
           \A t \in Threads : local'[t][2] = local[t][2]
    PROVE  Contents' = Contents /\ InHand' = InHand
  BY LastWordsTell, LastWordsTellNext DEF LastWordTells, LastWords, LastWordsInHand

\* The buffers of zeros.
LEMMA InitRefines == Init => Registers!RegistersInit
<1> SUFFICES ASSUME Init PROVE Registers!RegistersInit  OBVIOUS
<1>1. WholeInv  BY InitWholeInv
<1>2. /\ \A s \in Stores, d \in Devices : mem[s][d] = Pdo(0)
      /\ \A t \in Threads : local[t] = Pdo(0) /\ pc[t] = "idle"
      /\ writes = 0 /\ frames = 0
  BY DEF Init
<1>3. Pdo(0)[2] = 0  BY DEF Pdo, Words
<1>4. Contents = [s \in Stores |-> [d \in Devices |-> Registers!Zero]]
  BY <1>1, <1>2, <1>3, LastWordsTell DEF LastWordTells, LastWords, Registers!Zero, Registers!Pdo, Pdo
<1>5. InHand = [t \in Threads |-> Registers!Zero]
  BY <1>1, <1>2, <1>3, LastWordsTell DEF LastWordTells, LastWordsInHand, Registers!Zero, Registers!Pdo, Pdo
<1>6. CallOf = [t \in Threads |-> Registers!NoCall]  BY <1>2 DEF CallOf, Registers!NoCall
<1>7. WholeFrames = 0  BY <1>2, ThreadKinds DEF WholeFrames, FrameHalfWay
<1> QED BY <1>2, <1>4, <1>5, <1>6, <1>7 DEF Registers!RegistersInit

\* Only the frame of a thread that is between its words is not counted yet.
LEMMA FramesKept ==
    ASSUME NEW t \in Threads, frames' = frames,
           ~(pc[t] = "receive" /\ word[t] = 2), ~(pc'[t] = "receive" /\ word'[t] = 2),
           \A u \in Threads \ {t} : pc'[u] = pc[u] /\ word'[u] = word[u]
    PROVE  WholeFrames' = WholeFrames
  BY ThreadKinds DEF WholeFrames, FrameHalfWay

\* For extensionality.
LEMMA CallsAreFunctions ==
    CallOf = [t \in Threads |-> CallOf[t]] /\ CallOf' = [t \in Threads |-> CallOf'[t]]
  BY DEF CallOf

\* A call begins.
LEMMA BeginRefines ==
    ASSUME WholeInv, WholeInv', NEW t \in Threads, NEW o \in Ops, NEW d \in Devices,
           pc[t] \in {"idle", "loop"}, pc'[t] \in {"lockDevice", "lockBus"},
           op' = [op EXCEPT ![t] = o], dev' = [dev EXCEPT ![t] = d],
           pc' = [pc EXCEPT ![t] = pc'[t]], word' = [word EXCEPT ![t] = 1],
           UNCHANGED <<mem, local, writes, frames>>
    PROVE  RegisterStep
<1>1. Contents' = Contents /\ InHand' = InHand  BY LastWordsKept
<1>2. WholeFrames' = WholeFrames
  <2>1. \A u \in Threads \ {t} : pc'[u] = pc[u] /\ word'[u] = word[u]  BY DEF WholeInv, TypeOK
  <2> QED BY <2>1, FramesKept
<1>3. CallOf[t] = Registers!NoCall  BY DEF CallOf, Registers!NoCall
<1>4. CallOf' = [CallOf EXCEPT ![t] = [op |-> o, dev |-> d, done |-> FALSE]]
  <2>1. op'[t] = o /\ dev'[t] = d /\ pc'[t] # "release"  BY DEF WholeInv, TypeOK
  <2>2. CallOf'[t] = [op |-> o, dev |-> d, done |-> FALSE]  BY <2>1 DEF CallOf
  <2>3. \A u \in Threads \ {t} : CallOf'[u] = CallOf[u]  BY DEF CallOf, WholeInv, TypeOK
  <2> QED BY <2>2, <2>3, CallsAreFunctions
<1>5. Registers!Call(t, o, d)  BY <1>1, <1>2, <1>3, <1>4 DEF Registers!Call
<1> QED BY <1>5 DEF RegisterStep, Registers!RegistersNext, Ops

\* Steps between the calls do not show.
LEMMA BetweenCallsIsInvisible ==
    ASSUME WholeInv, WholeInv', NEW t \in Threads,
           pc[t] \notin {"lockDevice", "lockBus", "copy", "release"},
           pc'[t] \notin {"lockDevice", "lockBus", "copy", "release"},
           ~(pc[t] = "receive" /\ word[t] = 2), ~(pc'[t] = "receive" /\ word'[t] = 2),
           \A u \in Threads \ {t} : pc'[u] = pc[u] /\ word'[u] = word[u] /\ op'[u] = op[u] /\ dev'[u] = dev[u],
           UNCHANGED <<mem, local, writes, frames>>
    PROVE  RegisterStep
<1>1. Contents' = Contents /\ InHand' = InHand  BY LastWordsKept
<1>2. WholeFrames' = WholeFrames  BY FramesKept
<1>3. CallOf' = CallOf
  <2>1. \A u \in Threads : CallOf'[u] = CallOf[u]  BY DEF CallOf
  <2> QED BY <2>1, CallsAreFunctions
<1> QED BY <1>1, <1>2, <1>3 DEF RegisterStep, Registers!registerVars

\* A thread that gets a mutex takes its place in the order of the writes, if it writes.
LEMMA OrderRefines ==
    ASSUME WholeInv, WholeInv', NEW t \in Threads, pc[t] \in {"lockDevice", "lockBus"},
           pc'[t] \in {"lockBus", "copy"}, pc' = [pc EXCEPT ![t] = pc'[t]],
           local[t] = Pdo(0), NumberWrite(t), UNCHANGED <<mem, op, dev, word, frames>>
    PROVE  RegisterStep
<1>1. \A u \in Threads \ {t} : pc'[u] = pc[u] /\ word'[u] = word[u]  BY DEF WholeInv, TypeOK
<1>2. WholeFrames' = WholeFrames  BY <1>1, FramesKept
<1>3. CallOf' = CallOf
  <2>1. \A u \in Threads : CallOf'[u] = CallOf[u]  BY <1>1 DEF CallOf
  <2> QED BY <2>1, CallsAreFunctions
<1>4. CASE From[op[t]] = "caller"
  <2>1. writes' = writes + 1 /\ local' = [local EXCEPT ![t] = Pdo(writes + 1)]
    BY <1>4 DEF NumberWrite
  <2>2. CallOf[t] = [op |-> op[t], dev |-> dev[t], done |-> FALSE]  BY DEF CallOf
  <2>3. op[t] # "none"  BY RoleOps DEF Ops, AppOps, RtOps
  <2>4. Registers!Pending(t) /\ From[CallOf[t].op] = "caller"
    BY <1>4, <2>2, <2>3 DEF Registers!Pending, Registers!NoCall
  <2>5. Contents' = Contents /\ Contents = LastWords /\ InHand = LastWordsInHand /\ InHand' = LastWordsInHand'
    BY LastWordsTell, LastWordsTellNext DEF LastWordTells, LastWords
  <2>6. InHand[t] = Registers!Zero
    BY <2>5 DEF LastWordsInHand, Registers!Zero, Registers!Pdo, Pdo, Words
  <2>7. InHand' = [InHand EXCEPT ![t] = Registers!Pdo(writes + 1)]
    <3>1. local'[t][2] = writes + 1  BY <2>1 DEF Pdo, Words, WholeInv, TypeOK
    <3>2. \A u \in Threads \ {t} : local'[u] = local[u]  BY <2>1 DEF WholeInv, TypeOK
    <3> QED BY <2>5, <3>1, <3>2 DEF LastWordsInHand, Registers!Pdo, Pdo
  <2>8. Registers!Order(t)  BY <1>2, <1>3, <2>1, <2>4, <2>5, <2>6, <2>7 DEF Registers!Order
  <2> QED BY <2>8 DEF RegisterStep, Registers!RegistersNext
<1>5. CASE From[op[t]] # "caller"
  <2>1. writes' = writes /\ local' = local  BY <1>5 DEF NumberWrite
  <2>2. Contents' = Contents /\ InHand' = InHand  BY <2>1, LastWordsKept
  <2> QED BY <1>2, <1>3, <2>1, <2>2 DEF RegisterStep, Registers!registerVars
<1> QED BY <1>4, <1>5

\* One entry of a table.
LEMMA ExceptTwice ==
    ASSUME NEW f \in [Stores -> [Devices -> [Words -> Nat]]],
           NEW g \in [Stores -> [Devices -> [Words -> Nat]]],
           NEW a \in Stores, NEW b \in Devices, NEW v,
           \A s \in Stores, e \in Devices : g[s][e] = IF a = s /\ b = e THEN v ELSE f[s][e]
    PROVE  g = [f EXCEPT ![a][b] = v]
<1>1. v = g[a][b] /\ v \in [Words -> Nat]
  OBVIOUS
<1>2. ASSUME NEW s \in Stores
      PROVE  g[s] = IF s = a THEN [f[a] EXCEPT ![b] = v] ELSE f[s]
  <2>1. g[s] \in [Devices -> [Words -> Nat]] /\ f[s] \in [Devices -> [Words -> Nat]]
    OBVIOUS
  <2>2. CASE s = a
    <3>1. \A e \in Devices : g[a][e] = [f[a] EXCEPT ![b] = v][e]  BY <2>1, <2>2
    <3>2. [f[a] EXCEPT ![b] = v] \in [Devices -> [Words -> Nat]]  BY <1>1, <2>1, <2>2
    <3> QED BY <2>1, <2>2, <3>1, <3>2
  <2>3. CASE s # a
    <3>1. \A e \in Devices : g[s][e] = f[s][e]  BY <2>3
    <3> QED BY <2>1, <2>3, <3>1
  <2> QED BY <2>2, <2>3
<1>3. [f EXCEPT ![a][b] = v] = [s \in Stores |-> IF s = a THEN [f[a] EXCEPT ![b] = v] ELSE f[s]]
  OBVIOUS
<1> QED BY <1>2, <1>3

\* The first word is invisible, the last word is the moment the call takes effect.
LEMMA CopyWordRefines ==
    ASSUME WholeInv, WholeInv', NEW t \in Threads, CopyWord(t)
    PROVE  RegisterStep
<1> DEFINE d == dev[t]
           x == word[t]
           from == From[op[t]]
           to == To[op[t]]
<1>1. /\ pc[t] = "copy" /\ x \in {1, 2} /\ d \in Devices
      /\ pc'[t] = IF x = 1 THEN "copy" ELSE "release"
      /\ word'[t] = 2
      /\ \A u \in Threads \ {t} : pc'[u] = pc[u] /\ word'[u] = word[u]
      /\ UNCHANGED <<deviceHolder, busHolder, op, dev, todo, writes, frames, setDone, delivered, received, floor>>
  BY CopyWordFacts
<1>2. \A s \in Stores, e \in Devices, w \in Words :
        mem'[s][e][w] = IF to = s /\ d = e /\ w = x THEN Source(t)[w] ELSE mem[s][e][w]
  BY CopyWordFacts
<1>3. \A u \in Threads, w \in Words :
        local'[u][w] = IF u = t /\ to = "caller" /\ w = x THEN Source(t)[w] ELSE local[u][w]
  BY CopyWordFacts
<1>4. /\ op[t] \in Ops /\ op[t] # "none" /\ 2 \in Words
      /\ from \in Stores \cup {"caller"} /\ to \in Stores \cup {"caller"} /\ from # to /\ "caller" \notin Stores
  <2>1. op[t] \in Ops  BY RoleOps
  <2> QED BY <2>1, Operations DEF Ops, AppOps, RtOps, Words, Stores
<1>5. WholeFrames' = WholeFrames  BY <1>1, FramesKept
<1>6. CASE x = 1
  <2>1. Contents' = Contents /\ InHand' = InHand
    <3>1. \A s \in Stores, e \in Devices : mem'[s][e][2] = mem[s][e][2]  BY <1>2, <1>4, <1>6
    <3>2. \A u \in Threads : local'[u][2] = local[u][2]  BY <1>3, <1>4, <1>6
    <3> QED BY <3>1, <3>2, LastWordsKept
  <2>2. CallOf' = CallOf
    <3>1. \A u \in Threads : CallOf'[u] = CallOf[u]  BY <1>1, <1>6 DEF CallOf
    <3> QED BY <3>1, CallsAreFunctions
  <2> QED BY <1>1, <1>5, <2>1, <2>2 DEF RegisterStep, Registers!registerVars
<1>7. CASE x = 2
  <2>1. CallOf[t] = [op |-> op[t], dev |-> d, done |-> FALSE]
    <3>1. pc[t] # "release"  BY <1>1
    <3> QED BY <1>1, <3>1 DEF CallOf
  <2>2. CallOf' = [CallOf EXCEPT ![t] = [op |-> @.op, dev |-> @.dev, done |-> TRUE]]
    <3>1. CallOf'[t] = [op |-> op[t], dev |-> d, done |-> TRUE]
      <4>1. pc'[t] = "release"  BY <1>1, <1>7
      <4> QED BY <1>1, <4>1 DEF CallOf
    <3>2. \A u \in Threads \ {t} : CallOf'[u] = CallOf[u]  BY <1>1 DEF CallOf
    <3>3. CallOf[t].op = op[t] /\ CallOf[t].dev = d  BY <2>1
    <3> HIDE DEF d
    <3> QED BY <3>1, <3>2, <3>3, CallsAreFunctions
  <2>3. Registers!Pending(t) /\ CallOf[t].dev = d /\ From[CallOf[t].op] = from /\ To[CallOf[t].op] = to
    BY <1>4, <2>1 DEF Registers!Pending, Registers!NoCall
  <2>4. /\ Contents = LastWords /\ InHand = LastWordsInHand
        /\ Contents' = LastWords' /\ InHand' = LastWordsInHand'
    BY LastWordsTell, LastWordsTellNext DEF LastWordTells
  <2> DEFINE pdo == IF from = "caller" THEN InHand[t] ELSE Contents[from][d]
  <2>5. pdo = Pdo(Source(t)[2])
    BY <1>1, <1>4, <2>4 DEF LastWords, LastWordsInHand, Source
  <2>6. CASE to = "caller"
    <3>1. Contents' = Contents  BY <1>2, <1>4, <2>4, <2>6 DEF LastWords
    <3>2. InHand' = [InHand EXCEPT ![t] = pdo]
      <4>1. \A u \in Threads : local'[u][2] = IF u = t THEN Source(t)[2] ELSE local[u][2]
        BY <1>3, <1>4, <1>7, <2>6
      <4> HIDE DEF pdo
      <4> QED BY <2>4, <2>5, <4>1 DEF LastWordsInHand
    <3>3. Registers!Move(t)
      BY <1>1, <1>5, <2>2, <2>3, <2>6, <3>1, <3>2 DEF Registers!Move
    <3> QED BY <3>3 DEF RegisterStep, Registers!RegistersNext
  <2>7. CASE to # "caller"
    <3>1. InHand' = InHand  BY <1>3, <1>4, <2>4, <2>7 DEF LastWordsInHand
    <3>2. Contents' = [Contents EXCEPT ![to][d] = pdo]
      <4>1. \A s \in Stores, e \in Devices :
              LastWords'[s][e] = IF to = s /\ d = e THEN pdo ELSE LastWords[s][e]
        BY <1>2, <1>4, <1>7, <2>5 DEF LastWords
      <4>2. to \in Stores /\ d \in Devices  BY <1>1, <1>4, <2>7
      <4>3. LastWords \in [Stores -> [Devices -> [Words -> Nat]]]
        <5>1. \A s \in Stores, e \in Devices : mem[s][e][2] \in Nat  BY <1>4 DEF WholeInv, TypeOK
        <5> QED BY <5>1 DEF LastWords, Pdo
      <4>4. LastWords' \in [Stores -> [Devices -> [Words -> Nat]]]
        <5>1. \A s \in Stores, e \in Devices : mem'[s][e][2] \in Nat  BY <1>4 DEF WholeInv, TypeOK
        <5> QED BY <5>1 DEF LastWords, Pdo
      <4> HIDE DEF pdo, to, d
      <4>5. LastWords' = [LastWords EXCEPT ![to][d] = pdo]  BY <4>1, <4>2, <4>3, <4>4, ExceptTwice
      <4> QED BY <2>4, <4>5
    <3>3. Registers!Move(t)
      BY <1>1, <1>5, <2>2, <2>3, <2>7, <3>1, <3>2 DEF Registers!Move
    <3> QED BY <3>3 DEF RegisterStep, Registers!RegistersNext
  <2> QED BY <2>6, <2>7
<1> QED BY <1>1, <1>6, <1>7

\* The call returns.
LEMMA ReleaseRefines ==
    ASSUME WholeInv, WholeInv', CurrentInv, NEW t \in Threads, Release(t)
    PROVE  RegisterStep
<1> USE ThreadKinds
<1>1. /\ pc[t] = "release" /\ word' = [word EXCEPT ![t] = 1]
      /\ UNCHANGED <<mem, dev, todo, writes, frames, delivered, received>>
  BY DEF Release, At, counters
<1>2. /\ t \in Apps => /\ pc' = [pc EXCEPT ![t] = "idle"] /\ op' = [op EXCEPT ![t] = "set"]
                       /\ local' = [local EXCEPT ![t] = Pdo(0)]
      /\ t \notin Apps => pc' = [pc EXCEPT ![t] = "loop"] /\ UNCHANGED <<op, local>>
  BY DEF Release, Goto
<1>3. /\ pc'[t] \in {"idle", "loop"} /\ local'[t] = Pdo(0)
      /\ \A u \in Threads \ {t} : /\ pc'[u] = pc[u] /\ op'[u] = op[u] /\ word'[u] = word[u] /\ local'[u] = local[u]
  <2>1. CASE t \in Apps  BY <1>1, <1>2, <2>1 DEF WholeInv, TypeOK
  <2>2. CASE t \notin Apps  BY <1>1, <1>2, <2>2 DEF WholeInv, TypeOK, CurrentInv, HandsOK
  <2> QED BY <2>1, <2>2
<1>4. WholeFrames' = WholeFrames  BY <1>1, <1>3, FramesKept
<1>5. /\ Contents = LastWords /\ InHand = LastWordsInHand
      /\ Contents' = LastWords' /\ InHand' = LastWordsInHand'
  BY LastWordsTell, LastWordsTellNext DEF LastWordTells
<1>6. Contents' = Contents  BY <1>1, <1>5 DEF LastWords
<1>7. InHand' = [InHand EXCEPT ![t] = Registers!Zero]
  <2>1. local'[t][2] = 0  BY <1>3 DEF Pdo, Words
  <2>2. InHand' = [InHand EXCEPT ![t] = Pdo(0)]  BY <1>3, <1>5, <2>1 DEF LastWordsInHand
  <2> QED BY <2>2 DEF Registers!Zero, Registers!Pdo, Pdo
<1>8. CallOf[t] # Registers!NoCall /\ CallOf[t].done
  <2>1. op[t] # "none"  BY RoleOps DEF Ops, AppOps, RtOps
  <2>2. CallOf[t] = [op |-> op[t], dev |-> dev[t], done |-> TRUE]  BY <1>1 DEF CallOf
  <2> QED BY <2>1, <2>2 DEF Registers!NoCall
<1>9. CallOf' = [CallOf EXCEPT ![t] = Registers!NoCall]
  <2>1. CallOf'[t] = Registers!NoCall  BY <1>3 DEF CallOf, Registers!NoCall
  <2>2. \A u \in Threads \ {t} : CallOf'[u] = CallOf[u]  BY <1>1, <1>3 DEF CallOf
  <2> QED BY <2>1, <2>2, CallsAreFunctions
<1>10. Registers!Return(t)  BY <1>1, <1>4, <1>6, <1>7, <1>8, <1>9 DEF Registers!Return
<1> QED BY <1>10 DEF RegisterStep, Registers!RegistersNext

\* The last word of the frame is the moment the inputs of all devices are replaced.
LEMMA RtReceiveRefines ==
    ASSUME WholeInv, WholeInv', CurrentInv, NEW t \in RtCallers, RtReceive(t)
    PROVE  RegisterStep
<1> USE ThreadKinds
<1>1. /\ t \in Threads /\ pc[t] = "receive" /\ UNCHANGED <<local, dev, writes>>  BY DEF RtReceive, At
<1>2. /\ Contents = LastWords /\ InHand = LastWordsInHand
      /\ Contents' = LastWords' /\ InHand' = LastWordsInHand'
  BY LastWordsTell, LastWordsTellNext DEF LastWordTells
<1>3. InHand' = InHand  BY <1>1, <1>2 DEF LastWordsInHand
<1>4. \A u \in RtCallers : pc[u] = "receive" => u = t  BY <1>1 DEF WholeInv, LocksOK
<1>5. "inputs" \in Stores /\ 2 \in Words /\ 1 \in Words  BY DEF Stores, Words
<1>6. ASSUME word[t] = 1, word' = [word EXCEPT ![t] = 2], UNCHANGED <<pc, op>>, frames' = frames + 1,
             mem' = [mem EXCEPT !["inputs"] = [d \in Devices |-> [@[d] EXCEPT ![1] = frames + 1]]]
      PROVE  RegisterStep
  <2>1. \A s \in Stores, d \in Devices : mem'[s][d][2] = mem[s][d][2]
    <3>1. \A d \in Devices : mem'["inputs"][d] = [mem["inputs"][d] EXCEPT ![1] = frames + 1]
      <4>1. mem \in [Stores -> [Devices -> [Words -> Nat]]]  BY DEF WholeInv, TypeOK
      <4>2. mem'["inputs"] = [d \in Devices |-> [mem["inputs"][d] EXCEPT ![1] = frames + 1]]
        BY <1>5, <1>6, <4>1
      <4> QED BY <4>2
    <3>2. \A d \in Devices : mem["inputs"][d] \in [Words -> Nat]
      <4>1. mem \in [Stores -> [Devices -> [Words -> Nat]]]  BY DEF WholeInv, TypeOK
      <4> QED BY <1>5, <4>1
    <3>3. ASSUME NEW d \in Devices PROVE mem'["inputs"][d][2] = mem["inputs"][d][2]
      <4>1. [mem["inputs"][d] EXCEPT ![1] = frames + 1][2] = mem["inputs"][d][2]  BY <1>5, <3>2
      <4> QED BY <3>1, <4>1
    <3>4. \A s \in Stores \ {"inputs"} : mem'[s] = mem[s]  BY <1>6 DEF WholeInv, TypeOK
    <3> QED BY <3>3, <3>4
  <2>2. Contents' = Contents  BY <1>1, <2>1, LastWordsKept
  <2>3. CallOf' = CallOf  BY <1>1, <1>6 DEF CallOf
  <2>4. ~FrameHalfWay  BY <1>4, <1>6 DEF FrameHalfWay
  <2>5. FrameHalfWay'  BY <1>1, <1>6 DEF FrameHalfWay, WholeInv, TypeOK
  <2>6. WholeFrames' = WholeFrames  BY <1>6, <2>4, <2>5 DEF WholeFrames, WholeInv, TypeOK
  <2> QED BY <1>1, <1>3, <2>2, <2>3, <2>6 DEF RegisterStep, Registers!registerVars
<1>7. ASSUME pc' = [pc EXCEPT ![t] = "loop"], op' = [op EXCEPT ![t] = "updateRead"], frames' = frames,
             word' = [word EXCEPT ![t] = 1]
      PROVE  CallOf' = CallOf /\ ~FrameHalfWay'
  <2>1. pc'[t] = "loop" /\ \A u \in Threads \ {t} : pc'[u] = pc[u] /\ op'[u] = op[u]
    BY <1>1, <1>7 DEF WholeInv, TypeOK
  <2>2. \A u \in Threads : CallOf'[u] = CallOf[u]  BY <1>1, <2>1 DEF CallOf
  <2>3. ~FrameHalfWay'  BY <1>4, <2>1 DEF FrameHalfWay
  <2> QED BY <2>2, <2>3, CallsAreFunctions
<1>8. ASSUME word[t] = 2, pc' = [pc EXCEPT ![t] = "loop"], op' = [op EXCEPT ![t] = "updateRead"],
             frames' = frames, word' = [word EXCEPT ![t] = 1],
             mem' = [mem EXCEPT !["inputs"] = [d \in Devices |-> Pdo(@[d][1])]]
      PROVE  RegisterStep
  <2>1. FrameHalfWay  BY <1>1, <1>8 DEF FrameHalfWay
  <2>2. WholeFrames' = WholeFrames + 1  BY <1>7, <1>8, <2>1 DEF WholeFrames, WholeInv, TypeOK
  <2>3. WholeFrames + 1 = frames  BY <2>1 DEF WholeFrames, WholeInv, TypeOK
  <2>4. Contents' = [Contents EXCEPT !["inputs"] = [d \in Devices |-> Registers!Pdo(frames)]]
    <3>1. \A d \in Devices : mem'["inputs"][d][2] = frames
      <4>1. \A d \in Devices : mem'["inputs"][d] = Pdo(mem["inputs"][d][1])
        <5>1. mem \in [Stores -> [Devices -> [Words -> Nat]]]  BY DEF WholeInv, TypeOK
        <5>2. mem'["inputs"] = [d \in Devices |-> Pdo(mem["inputs"][d][1])]
          BY <1>5, <1>8, <5>1
        <5> QED BY <5>2
      <4>2. \A d \in Devices : mem["inputs"][d][1] = frames  BY DEF CurrentInv, InputsOK
      <4>3. Pdo(frames)[2] = frames  BY <1>5 DEF Pdo
      <4> QED BY <4>1, <4>2, <4>3
    <3>2. \A s \in Stores \ {"inputs"} : mem'[s] = mem[s]  BY <1>8 DEF WholeInv, TypeOK
    <3>3. LastWords'["inputs"] = [d \in Devices |-> Registers!Pdo(frames)]
      BY <1>5, <3>1 DEF LastWords, Registers!Pdo, Pdo
    <3>4. \A s \in Stores \ {"inputs"} : LastWords'[s] = LastWords[s]  BY <3>2 DEF LastWords
    <3>5. LastWords = [s \in Stores |-> LastWords[s]] /\ LastWords' = [s \in Stores |-> LastWords'[s]]
      BY DEF LastWords
    <3> QED BY <1>2, <1>5, <3>3, <3>4, <3>5
  <2>5. CallOf' = CallOf  BY <1>7, <1>8
  <2>6. Registers!Receive  BY <1>1, <1>3, <2>2, <2>3, <2>4, <2>5 DEF Registers!Receive
  <2> QED BY <2>6 DEF RegisterStep, Registers!RegistersNext
<1>9. ASSUME word[t] = 1, pc' = [pc EXCEPT ![t] = "loop"], op' = [op EXCEPT ![t] = "updateRead"],
             UNCHANGED <<mem, frames, word>>
      PROVE  RegisterStep
  <2>1. word' = [word EXCEPT ![t] = 1]  BY <1>1, <1>9 DEF WholeInv, TypeOK
  <2>2. CallOf' = CallOf /\ ~FrameHalfWay'  BY <1>7, <1>9, <2>1
  <2>3. ~FrameHalfWay  BY <1>4, <1>9 DEF FrameHalfWay
  <2>4. WholeFrames' = WholeFrames  BY <1>9, <2>2, <2>3 DEF WholeFrames
  <2>5. Contents' = Contents  BY <1>2, <1>9 DEF LastWords
  <2> QED BY <1>1, <1>3, <2>2, <2>4, <2>5 DEF RegisterStep, Registers!registerVars
<1> QED BY <1>6, <1>8, <1>9 DEF RtReceive, Goto

\* Every step is a step of the registers.
LEMMA NextRefines == WholeInv /\ WholeInv' /\ CurrentInv /\ [Next]_vars => RegisterStep
<1> SUFFICES ASSUME WholeInv, WholeInv', CurrentInv, [Next]_vars PROVE RegisterStep  OBVIOUS
<1> USE ThreadKinds
<1>1. ASSUME NEW t \in Apps, NEW o \in AppOps, NEW d \in Devices, AppCalls(t, o, d) PROVE RegisterStep
  <2>1. /\ pc[t] = "idle" /\ pc' = [pc EXCEPT ![t] = IF o \in LocksDevice THEN "lockDevice" ELSE "lockBus"]
        /\ op' = [op EXCEPT ![t] = o] /\ dev' = [dev EXCEPT ![t] = d] /\ word' = [word EXCEPT ![t] = 1]
        /\ UNCHANGED <<mem, local, writes, frames>>
    BY <1>1 DEF AppCalls, BeginCopy, At, Goto, memoryVars
  <2>2. pc'[t] \in {"lockDevice", "lockBus"} /\ pc' = [pc EXCEPT ![t] = pc'[t]]
    BY <2>1 DEF WholeInv, TypeOK
  <2> QED BY <2>1, <2>2, BeginRefines DEF Ops
<1>2. ASSUME NEW t \in Threads, Copy(t) PROVE RegisterStep
  <2>1. CASE LockDevice(t)
    <3>1. /\ pc[t] = "lockDevice" /\ pc' = [pc EXCEPT ![t] = IF op[t] \in LocksBus THEN "lockBus" ELSE "copy"]
          /\ NumberWrite(t) /\ UNCHANGED <<mem, op, dev, word, frames>>
      BY <2>1 DEF LockDevice, At, Goto
    <3>2. pc'[t] \in {"lockBus", "copy"} /\ pc' = [pc EXCEPT ![t] = pc'[t]]
      BY <3>1 DEF WholeInv, TypeOK
    <3>3. local[t] = Pdo(0)  BY <3>1 DEF CurrentInv, HandsOK
    <3> QED BY <3>1, <3>2, <3>3, OrderRefines
  <2>2. CASE LockBus(t)
    <3>1. /\ pc[t] = "lockBus" /\ pc' = [pc EXCEPT ![t] = "copy"]
          /\ NumberWrite(t) /\ UNCHANGED <<mem, op, dev, word, frames>>
      BY <2>2 DEF LockBus, At, Goto
    <3>2. pc'[t] \in {"lockBus", "copy"} /\ pc' = [pc EXCEPT ![t] = pc'[t]]
      BY <3>1 DEF WholeInv, TypeOK
    <3>3. local[t] = Pdo(0)  BY <3>1 DEF CurrentInv, HandsOK
    <3> QED BY <3>1, <3>2, <3>3, OrderRefines
  <2> QED BY <1>2, <2>1, <2>2, CopyWordRefines, ReleaseRefines DEF Copy
<1>3. ASSUME NEW t \in RtCallers, RtVisit(t) PROVE RegisterStep
  <2>1. PICK d \in todo[t] : BeginCopy(t, op[t], d)  BY <1>3 DEF RtVisit
  <2>2. d \in Devices /\ op[t] \in Ops  BY RoleOps DEF WholeInv, TypeOK
  <2>3. /\ pc[t] = "loop"
        /\ pc' = [pc EXCEPT ![t] = IF op[t] \in LocksDevice THEN "lockDevice" ELSE "lockBus"]
        /\ op' = [op EXCEPT ![t] = op[t]] /\ dev' = [dev EXCEPT ![t] = d] /\ word' = [word EXCEPT ![t] = 1]
        /\ UNCHANGED <<mem, local, writes, frames>>
    BY <1>3, <2>1 DEF RtVisit, BeginCopy, At, Goto, memoryVars, counters
  <2>4. pc'[t] \in {"lockDevice", "lockBus"} /\ pc' = [pc EXCEPT ![t] = pc'[t]]
    BY <2>3 DEF WholeInv, TypeOK
  <2> QED BY <2>2, <2>3, <2>4, BeginRefines
<1>4. ASSUME NEW t \in RtCallers, RtBegin(t) \/ RtLockFrame(t) \/ RtSend(t) \/ RtEnd(t) PROVE RegisterStep
  <2>1. /\ pc[t] \in {"idle", "loop", "send"} /\ pc'[t] \in {"loop", "send", "receive", "idle"}
        /\ pc'[t] = "receive" => word'[t] = 1
        /\ UNCHANGED <<mem, local, dev, writes, frames>>
    BY <1>4 DEF RtBegin, RtLockFrame, RtSend, RtEnd, At, Goto, memoryVars, counters, WholeInv, TypeOK
  <2>2. \A u \in Threads \ {t} : pc'[u] = pc[u] /\ word'[u] = word[u] /\ op'[u] = op[u] /\ dev'[u] = dev[u]
    BY <1>4 DEF RtBegin, RtLockFrame, RtSend, RtEnd, At, Goto, memoryVars, counters, WholeInv, TypeOK
  <2> QED BY <2>1, <2>2, BetweenCallsIsInvisible
<1>5. CASE UNCHANGED vars
  <2>1. UNCHANGED <<mem, local, pc, op, dev, word, writes, frames>>
    BY <1>5 DEF vars, memoryVars, threadVars, counters
  <2>2. Contents' = Contents /\ InHand' = InHand  BY <2>1, LastWordsKept
  <2>3. CallOf' = CallOf /\ WholeFrames' = WholeFrames
    BY <2>1 DEF CallOf, WholeFrames, FrameHalfWay
  <2> QED BY <2>1, <2>2, <2>3 DEF RegisterStep, Registers!registerVars
<1> QED BY <1>1, <1>2, <1>3, <1>4, <1>5, RtReceiveRefines DEF Next, RtStep

\* ImplementsRegisters: the accessors and update_rt(), which copy word by word under two
\* mutexes taken one after the other, behave as if every copy were one step.
THEOREM RegistersImplemented == Spec => ImplementsRegisters
<1>1. Init => Registers!RegistersInit  BY InitRefines
<1>2. WholeInv /\ WholeInv' /\ CurrentInv /\ [Next]_vars => [Registers!RegistersNext]_Registers!registerVars
  BY NextRefines DEF RegisterStep
<1> QED BY <1>1, <1>2, PdoIInvHolds, PTL DEF Spec, ImplementsRegisters, Registers!RegistersSpec, IInv
=============================================================================
