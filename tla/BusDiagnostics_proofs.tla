----------------------- MODULE BusDiagnostics_proofs -----------------------
(***************************************************************************)
(* Proofs about BusDiagnostics, for any number of slaves, readers and PDO  *)
(* cycles: the inductive invariant IInv and the properties it contains.    *)
(***************************************************************************)
EXTENDS BusDiagnostics, TLAPS

USE SlaveCountAssumption, ThreadsAssumption, BoundsAssumption

\* The vocabulary every step is written in.
USE DEF At, Goto, data, history

\* The parts of IInv about the contents of the structure and of its copies.
DataOK == SlavesOK /\ CopiesOK /\ SelectedSlaveExists /\ SlavesAreOfOneCycle

\* The first slave is a slave, and slaves are compared as numbers.
LEMMA FirstSlave == 0 \in Slaves /\ \A s \in Slaves : s \in Nat /\ s < N /\ ~(s < 0)
BY DEF Slaves

\* CyclesOK only looks at the cycles of the slaves, their number, and the RT thread.
LEMMA CyclesKept ==
    ASSUME IInv, CyclesSoFar' = CyclesSoFar, at'[Rt] = at[Rt],
           pc'[Rt] # "idle" => pc[Rt] # "idle",
           \A s \in Slaves : slaves'[s].cycle = slaves[s].cycle
    PROVE  CyclesOK'
BY DEF IInv, CyclesOK

\* What a reader starts with is a snapshot.
LEMMA EmptySnapshot == NoSnapshot \in [bus : Counters, slaves : [Slaves -> SlaveType]]
<1>1. NoSlave \in SlaveType
  BY DEF NoSlave, SlaveType, Bits
<1> QED BY <1>1 DEF NoSnapshot, Counters

\* IInv holds initially.
LEMMA InitEstablishesIInv == Init => IInv
<1> SUFFICES ASSUME Init
             PROVE  IInv
  OBVIOUS
<1> USE DEF Init
<1>1. CyclesSoFar = 0
  BY DEF CyclesSoFar, FramesSent, Outcomes
<1>2. NoSnapshot \in [bus : Counters, slaves : [Slaves -> SlaveType]]
  BY EmptySnapshot
<1>3. TypeOK
  <2>1. bus \in Counters /\ slaves \in [Slaves -> SlaveType]
    BY <1>2
  <2>2. snapshot \in [Readers -> [bus : Counters, slaves : [Slaves -> SlaveType]]]
    BY <1>2
  <2>3. list \in [Slaves -> [state : Bits, alStatus : Bits]] /\ ports \in Bits
    BY DEF Bits
  <2>4. at \in [Threads -> Slaves] /\ index \in 0..N
    BY FirstSlave
  <2>5. cycles \in [Outcomes -> Nat] /\ CyclesSoFar <= MaxCycles
    BY <1>1
  <2> QED
    BY <2>1, <2>2, <2>3, <2>4, <2>5
    DEF TypeOK, RtLabels, ServiceLabels, ReaderLabels, Threads, BusStates
<1>4. LocksOK
  BY DEF LocksOK, Threads
<1>5. CountersOK
  BY <1>1 DEF CountersOK, Threads, Outcomes, NoSnapshot
<1>6. SlavesOK /\ CopiesOK /\ CyclesOK
  BY <1>1 DEF SlavesOK, CopiesOK, CyclesOK, Threads, NoSnapshot, NoSlave
<1>7. SelectedSlaveExists /\ SlavesAreOfOneCycle
  BY DEF SelectedSlaveExists, SlavesAreOfOneCycle, Threads
<1> QED BY <1>3, <1>4, <1>5, <1>6, <1>7 DEF IInv

-----------------------------------------------------------------------------
(* The RT thread.                                                          *)

\* Steps of the RT thread outside its loop leave the data as they are.
LEMMA RtKeepsData ==
    ASSUME IInv, UNCHANGED <<slaves, snapshot, at, index, ports>>, pc[Rt] # "slave",
           \A u \in Threads \ {Rt} : pc'[u] = pc[u]
    PROVE  DataOK'
<1> USE DEF IInv, Threads
<1>1. at'[Rt] = 0
  BY DEF LocksOK, RtLabels, Outcomes, TypeOK
<1>2. SlavesOK'
  BY <1>1, FirstSlave DEF SlavesOK
<1>3. CopiesOK' /\ SelectedSlaveExists' /\ SlavesAreOfOneCycle'
  BY DEF CopiesOK, SelectedSlaveExists, SlavesAreOfOneCycle
<1> QED BY <1>2, <1>3 DEF DataOK

\* A PDO cycle is counted when it happens, and by the RT thread on its way.
LEMMA CyclePreservesIInv ==
    ASSUME IInv, RtCycle
    PROVE  IInv'
<1> USE DEF IInv, RtCycle
<1>1. PICK o \in Outcomes :
        /\ cycles' = [cycles EXCEPT ![o] = @ + 1]
        /\ pc' = [pc EXCEPT ![Rt] = IF options.pdo THEN o ELSE "idle"]
  OBVIOUS
<1>2. /\ pc'[Rt] = (IF options.pdo THEN o ELSE "idle") /\ pc[Rt] = "idle"
      /\ \A u \in Threads \ {Rt} : pc'[u] = pc[u]
  BY <1>1 DEF TypeOK, Threads
<1>3. cycles' \in [Outcomes -> Nat] /\ CyclesSoFar' = CyclesSoFar + 1 /\ CyclesSoFar \in Nat
  <2>1. cycles \in [Outcomes -> Nat]  BY DEF TypeOK
  <2>2. cycles' \in [Outcomes -> Nat] /\ cycles'[o] = cycles[o] + 1
        /\ \A p \in Outcomes \ {o} : cycles'[p] = cycles[p]
    BY <1>1, <2>1
  <2>3. /\ cycles["complete"] \in Nat /\ cycles["short"] \in Nat /\ cycles["none"] \in Nat
        /\ cycles["unsent"] \in Nat
    BY <2>1 DEF Outcomes
  <2> HIDE DEF IInv, RtCycle
  <2>4. CASE o = "complete"  BY <2>2, <2>3, <2>4 DEF Outcomes, CyclesSoFar, FramesSent
  <2>5. CASE o = "short"  BY <2>2, <2>3, <2>5 DEF Outcomes, CyclesSoFar, FramesSent
  <2>6. CASE o = "none"  BY <2>2, <2>3, <2>6 DEF Outcomes, CyclesSoFar, FramesSent
  <2>7. CASE o = "unsent"  BY <2>2, <2>3, <2>7 DEF Outcomes, CyclesSoFar, FramesSent
  <2> QED BY <2>2, <2>3, <2>4, <2>5, <2>6, <2>7 DEF Outcomes, CyclesSoFar, FramesSent
<1>4. pc' \in [Threads -> RtLabels \cup ServiceLabels \cup ReaderLabels]
  BY <1>1 DEF TypeOK, RtLabels, Threads
<1>5. TypeOK'
  BY <1>2, <1>3, <1>4 DEF TypeOK, RtLabels, Threads
<1>6. LocksOK'
  BY <1>2 DEF LocksOK, Threads, Outcomes
<1>7. CountersOK'
  BY <1>1, <1>2, <1>3 DEF TypeOK, CountersOK, Outcomes, Counters
<1>8. CyclesOK'
  <2>1. \A s \in Slaves : slaves'[s].cycle = slaves[s].cycle /\ slaves[s].cycle \in Nat
    BY DEF TypeOK, SlaveType
  <2>2. \A s \in Slaves : slaves[s].cycle <= CyclesSoFar
    BY DEF CyclesOK
  <2> HIDE DEF IInv, RtCycle
  <2>3. \A s \in Slaves : slaves[s].cycle <= CyclesSoFar' /\ slaves[s].cycle < CyclesSoFar'
    BY <1>3, <2>1, <2>2
  <2> QED BY <2>1, <2>3 DEF CyclesOK
<1> QED BY <1>2, <1>5, <1>6, <1>7, <1>8, RtKeepsData DEF DataOK

\* Counting the frames and trying the mutex preserve IInv.
LEMMA CountPreservesIInv ==
    ASSUME IInv, RtCountFailure \/ RtCountSent \/ RtTryLock
    PROVE  IInv'
<1> USE DEF IInv
<1>1. /\ \A u \in Threads \ {Rt} : pc'[u] = pc[u]
      /\ pc' \in [Threads -> RtLabels \cup ServiceLabels \cup ReaderLabels]
      /\ pc[Rt] \in Outcomes \cup {"sent", "tryLock"} /\ pc'[Rt] \in RtLabels
      /\ UNCHANGED <<options, busState, slaves, list, index, ports, at, snapshot, history>>
  BY DEF RtCountFailure, RtCountSent, RtTryLock, TypeOK, RtLabels, Threads
<1>2. DataOK' /\ CyclesOK'
  <2>1. CyclesSoFar' = CyclesSoFar
    BY <1>1 DEF CyclesSoFar, FramesSent
  <2> HIDE DEF IInv
  <2> QED BY <1>1, <2>1, RtKeepsData, CyclesKept DEF Outcomes
<1>3. CASE RtCountFailure
  <2>1. pc'[Rt] = "sent" /\ mutex' = mutex /\ pc[Rt] \in Outcomes
    BY <1>3 DEF RtCountFailure, TypeOK, Threads
  <2>2. bus' \in Counters
    BY <1>3 DEF RtCountFailure, TypeOK, Counters
  <2>3. TypeOK'
    BY <1>1, <2>1, <2>2 DEF TypeOK, CyclesSoFar, FramesSent, Threads
  <2>4. LocksOK'
    BY <1>1, <2>1 DEF LocksOK, Threads, Outcomes
  <2>5. CountersOK'
    BY <1>1, <1>3, <2>1 DEF RtCountFailure, TypeOK, CountersOK, CyclesSoFar, FramesSent, Outcomes,
                            Counters
  <2> QED BY <1>2, <2>3, <2>4, <2>5 DEF DataOK
<1>4. CASE RtCountSent
  <2>1. pc'[Rt] \in {"tryLock", "idle"} /\ mutex' = mutex /\ pc[Rt] = "sent"
    BY <1>4 DEF RtCountSent, TypeOK, Threads
  <2>2. bus' \in Counters
    BY <1>4 DEF RtCountSent, TypeOK, Counters
  <2>3. TypeOK'
    BY <1>1, <2>1, <2>2 DEF TypeOK, CyclesSoFar, FramesSent, Threads
  <2>4. LocksOK'
    BY <1>1, <2>1 DEF LocksOK, Threads, Outcomes
  <2>5. CountersOK'
    BY <1>1, <1>4, <2>1 DEF RtCountSent, TypeOK, CountersOK, CyclesSoFar, FramesSent, Outcomes, Counters
  <2> QED BY <1>2, <2>3, <2>4, <2>5 DEF DataOK
<1>5. CASE RtTryLock
  <2>1. /\ pc[Rt] = "tryLock" /\ bus' = bus
        /\ \/ mutex = NoThread /\ mutex' = Rt /\ pc'[Rt] = "slave"
           \/ mutex # NoThread /\ mutex' = mutex /\ pc'[Rt] = "idle"
    BY <1>5 DEF RtTryLock, TypeOK, Threads
  <2>2. TypeOK'
    BY <1>1, <2>1 DEF TypeOK, CyclesSoFar, FramesSent, Threads
  <2>3. LocksOK'
    BY <1>1, <2>1 DEF LocksOK, Threads, Outcomes
  <2>4. CountersOK'
    BY <1>1, <2>1 DEF TypeOK, CountersOK, CyclesSoFar, FramesSent, Outcomes, Counters
  <2> QED BY <1>2, <2>2, <2>3, <2>4 DEF DataOK
<1> QED BY <1>3, <1>4, <1>5

\* Copying the state of a slave preserves IInv: the cycles of the slaves before it and of
\* those after it stay apart, and no reader copies meanwhile.
LEMMA CopySlavePreservesIInv ==
    ASSUME IInv, RtCopySlave
    PROVE  IInv'
<1> USE DEF IInv, RtCopySlave
<1> DEFINE s0 == at[Rt]
<1>1. s0 \in Slaves /\ mutex = Rt /\ pc[Rt] = "slave"
  BY DEF TypeOK, LocksOK, Threads
<1>2. /\ \A s \in Slaves \ {s0} : slaves'[s] = slaves[s]
      /\ slaves'[s0] = StateCopied(s0)
      /\ DOMAIN slaves' = Slaves /\ slaves' = [s \in Slaves |-> slaves'[s]]
  BY <1>1 DEF TypeOK
<1>3. CyclesSoFar \in 0..MaxCycles
  BY DEF TypeOK, CyclesSoFar, FramesSent, Outcomes
<1>4. /\ slaves'[s0] \in SlaveType
      /\ slaves'[s0].cycle = CyclesSoFar /\ slaves'[s0].ports = slaves[s0].ports
  <2>1. slaves[s0] \in SlaveType /\ list[s0] \in [state : Bits, alStatus : Bits]
    BY <1>1 DEF TypeOK
  <2> HIDE DEF IInv, RtCopySlave
  <2> QED BY <1>2, <1>3, <2>1 DEF SlaveType, StateCopied
<1>5. slaves' \in [Slaves -> SlaveType]
  BY <1>1, <1>2, <1>4 DEF TypeOK
<1>6. /\ \A u \in Threads \ {Rt} : pc'[u] = pc[u] /\ at'[u] = at[u]
      /\ \/ s0 + 1 < N /\ pc'[Rt] = "slave" /\ at'[Rt] = s0 + 1 /\ mutex' = Rt
         \/ s0 + 1 = N /\ pc'[Rt] = "idle" /\ at'[Rt] = 0 /\ mutex' = NoThread
      /\ pc' \in [Threads -> RtLabels \cup ServiceLabels \cup ReaderLabels]
      /\ at' \in [Threads -> Slaves]
  BY <1>1 DEF NextSlave, TypeOK, Threads, Slaves, RtLabels
<1>7. CyclesSoFar' = CyclesSoFar
  BY DEF CyclesSoFar, FramesSent
<1>8. TypeOK'
  BY <1>5, <1>6, <1>7 DEF TypeOK, Threads, RtLabels
<1>9. LocksOK'
  BY <1>1, <1>6 DEF LocksOK, Threads
<1>10. CountersOK'
  BY <1>1, <1>6, <1>7 DEF CountersOK, Outcomes
<1>11. SlavesOK'
  <2>1. \A s \in Slaves : slaves'[s].ports = slaves[s].ports
    BY <1>2, <1>4
  <2>2. \A s \in Slaves : s < s0 + 1 => slaves'[s].cycle = CyclesSoFar
    BY <1>1, <1>2, <1>4 DEF SlavesOK, Slaves
  <2>3. \A r, s \in Slaves : ~(r < s0 + 1) /\ ~(s < s0 + 1) => slaves'[r].cycle = slaves'[s].cycle
    BY <1>1, <1>2 DEF SlavesOK, Slaves
  <2>4. s0 + 1 = N => \A s \in Slaves : s < s0 + 1
    BY DEF Slaves
  <2>5. pc'[Service] = pc[Service] /\ index' = index
    BY <1>6 DEF Threads
  <2> HIDE DEF s0, IInv, RtCopySlave
  <2>6. \A s \in Slaves :
          slaves'[s].ports[1] = slaves'[s].ports[2] \/ (pc'[Service] = "published" /\ s = index')
    BY <2>1, <2>5 DEF SlavesOK, IInv
  <2>7. pc'[Rt] = "slave" => \A s \in Slaves : s < at'[Rt] => slaves'[s].cycle = CyclesSoFar'
    BY <1>6, <1>7, <2>2
  <2>8. \A r, s \in Slaves :
          (pc'[Rt] = "slave" => (r < at'[Rt] <=> s < at'[Rt])) =>
             slaves'[r].cycle = slaves'[s].cycle
    BY <1>6, <2>2, <2>3, <2>4
  <2>9. pc'[Service] = "published" => slaves'[index'].ports[1] = ports'
    BY <1>1, <2>1, <2>5 DEF SlavesOK, IInv, RtCopySlave, SelectedSlaveExists, TypeOK, Slaves
  <2> QED BY <2>6, <2>7, <2>8, <2>9 DEF SlavesOK
<1>12. CopiesOK'
  BY <1>1, <1>6 DEF LocksOK, CopiesOK, Threads
<1>13. SelectedSlaveExists' /\ SlavesAreOfOneCycle'
  BY <1>6 DEF SelectedSlaveExists, SlavesAreOfOneCycle, Threads
<1>14. CyclesOK'
  <2>1. \A s \in Slaves : slaves[s].cycle <= CyclesSoFar /\ (s0 <= s => slaves[s].cycle < CyclesSoFar)
    BY <1>1 DEF CyclesOK
  <2>2. \A s \in Slaves :
          /\ slaves'[s].cycle <= CyclesSoFar
          /\ s # s0 /\ s0 <= s => slaves'[s].cycle < CyclesSoFar
    BY <1>2, <1>3, <1>4, <2>1
  <2>3. \A s \in Slaves : s0 + 1 <= s => s # s0 /\ s0 <= s
    BY <1>1 DEF Slaves
  <2> HIDE DEF s0, IInv, RtCopySlave
  <2> QED BY <1>6, <1>7, <2>2, <2>3 DEF CyclesOK
<1> QED BY <1>8, <1>9, <1>10, <1>11, <1>12, <1>13, <1>14

-----------------------------------------------------------------------------
(* The service thread.                                                     *)

\* Steps of the service thread that do not touch the structure preserve IInv.
LEMMA ServiceReadsPreserveIInv ==
    ASSUME IInv, Tick \/ ReadState \/ ReadAlStatus \/ SelectSlave \/ LockToPublish
    PROVE  IInv'
<1> USE DEF IInv
<1>1. /\ \A u \in Threads \ {Service} : pc'[u] = pc[u] /\ at'[u] = at[u]
      /\ pc' \in [Threads -> RtLabels \cup ServiceLabels \cup ReaderLabels]
      /\ at' \in [Threads -> Slaves]
      /\ pc[Service] \in {"idle", "readState", "readAlStatus", "select", "lock"}
      /\ pc'[Service] \in ServiceLabels \ {"published"}
      /\ UNCHANGED <<options, busState, bus, slaves, snapshot, history>>
  BY FirstSlave
  DEF Tick, ReadState, ReadAlStatus, SelectSlave, LockToPublish, NextSlave, TypeOK,
      Threads, ServiceLabels, Slaves
<1>2. list' \in [Slaves -> [state : Bits, alStatus : Bits]]
  <2>1. list \in [Slaves -> [state : Bits, alStatus : Bits]] /\ at[Service] \in Slaves
    BY DEF TypeOK, Threads
  <2> HIDE DEF IInv
  <2>2. CASE ReadState
    <3>1. PICK b \in Bits : list' = [list EXCEPT ![at[Service]].state = b]
      BY <2>1, <2>2 DEF ReadState, Bits
    <3> QED BY <2>1, <3>1
  <2>3. CASE ReadAlStatus
    BY <2>1, <2>3 DEF ReadAlStatus
  <2> QED BY <2>1, <2>2, <2>3 DEF Tick, SelectSlave, LockToPublish
<1>3. /\ index' \in 0..N /\ ports' \in Bits
      /\ pc'[Service] \in {"lock", "publish"} => index' < N
  BY DEF Tick, ReadState, ReadAlStatus, SelectSlave, LockToPublish, NextSlave, TypeOK,
         Threads, Bits, Wrapped, SelectedSlaveExists
<1>4. CyclesSoFar' = CyclesSoFar
  BY <1>1 DEF CyclesSoFar, FramesSent
<1>5. /\ \/ pc'[Service] # "publish" /\ mutex' = mutex
         \/ pc'[Service] = "publish" /\ mutex = NoThread /\ mutex' = Service
      /\ pc'[Service] \notin {"readState", "readAlStatus"} => at'[Service] = 0
  BY DEF Tick, ReadState, ReadAlStatus, SelectSlave, LockToPublish, NextSlave, TypeOK,
         LocksOK, Threads, Slaves
<1> HIDE DEF IInv
<1>6. TypeOK'
  BY <1>1, <1>2, <1>3, <1>4, <1>5 DEF IInv, TypeOK, Threads
<1>7. LocksOK'
  BY <1>1, <1>5 DEF IInv, LocksOK, Threads
<1>8. CountersOK'
  BY <1>1, <1>4 DEF IInv, CountersOK, Threads
<1>9. SlavesOK' /\ CopiesOK'
  BY <1>1, <1>4 DEF IInv, SlavesOK, CopiesOK, Threads
<1>10. SelectedSlaveExists' /\ SlavesAreOfOneCycle'
  BY <1>1, <1>3 DEF IInv, SelectedSlaveExists, SlavesAreOfOneCycle, Threads, ServiceLabels
<1>11. CyclesOK'
  BY <1>1, <1>4, CyclesKept DEF Threads
<1> QED BY <1>6, <1>7, <1>8, <1>9, <1>10, <1>11 DEF IInv

\* Publishing the ports preserves IInv: word by word, while nobody copies.
LEMMA PublishPreservesIInv ==
    ASSUME IInv, Publish \/ Published
    PROVE  IInv'
<1> USE DEF IInv
<1>1. /\ \A u \in Threads \ {Service} : pc'[u] = pc[u]
      /\ pc' \in [Threads -> RtLabels \cup ServiceLabels \cup ReaderLabels]
      /\ \/ pc[Service] = "publish" /\ pc'[Service] = "published" /\ mutex' = mutex /\ index' = index
         \/ pc[Service] = "published" /\ pc'[Service] = "idle" /\ mutex' = NoThread /\ index' = index + 1
      /\ UNCHANGED <<options, busState, bus, list, ports, at, snapshot, history>>
      /\ mutex = Service /\ index \in Slaves /\ index' \in 0..N
  BY DEF Publish, Published, TypeOK, LocksOK, SelectedSlaveExists, Threads, ServiceLabels, Slaves
<1>2. PICK w \in 1..2 :
        /\ slaves' = [slaves EXCEPT ![index].ports[w] = ports]
        /\ pc[Service] = "published" => w = 2
        /\ pc[Service] = "publish" => w = 1
  <2>1. CASE Publish
    BY <1>1, <2>1 DEF Publish
  <2>2. CASE Published
    BY <1>1, <2>2 DEF Published
  <2> QED BY <2>1, <2>2
<1>3. slaves[index] \in SlaveType /\ ports \in Bits
  BY <1>1 DEF TypeOK
<1>4. slaves'[index] = [slaves[index] EXCEPT !.ports[w] = ports]
  <2>1. index \in DOMAIN slaves
    BY <1>1 DEF TypeOK
  <2> HIDE DEF IInv
  <2> QED BY <1>2, <2>1
<1>5. \A s \in Slaves \ {index} : slaves'[s] = slaves[s]
  BY <1>2 DEF TypeOK
<1>6. slaves'[index] \in SlaveType /\ slaves'[index].cycle = slaves[index].cycle
  BY <1>3, <1>4 DEF SlaveType
<1>7. slaves' \in [Slaves -> SlaveType]
  BY <1>1, <1>2, <1>6 DEF TypeOK
<1>8. CyclesSoFar' = CyclesSoFar
  BY <1>1 DEF CyclesSoFar, FramesSent
<1>9. pc'[Rt] = pc[Rt] /\ pc[Rt] # "slave"
  BY <1>1 DEF LocksOK, Threads
<1> HIDE DEF IInv
<1>10. TypeOK'
  BY <1>1, <1>7, <1>8 DEF IInv, TypeOK, Threads, ServiceLabels
<1>11. LocksOK'
  BY <1>1 DEF IInv, LocksOK, Threads
<1>12. CountersOK'
  BY <1>1, <1>8, <1>9 DEF IInv, CountersOK
<1>13. SlavesOK'
  <2>1. \A s \in Slaves : slaves'[s].cycle = slaves[s].cycle
    BY <1>2, <1>6
  <2>2. \A s \in Slaves \ {index} : slaves'[s].ports[1] = slaves'[s].ports[2]
    BY <1>5 DEF IInv, SlavesOK
  <2>3. pc'[Service] # "published" => slaves'[index].ports[1] = slaves'[index].ports[2]
    <3>1. CASE pc[Service] = "published"
      <4>1. w = 2
        BY <1>2, <3>1
      <4>2. slaves'[index].ports[2] = ports /\ slaves'[index].ports[1] = slaves[index].ports[1]
        BY <1>3, <1>4, <4>1 DEF SlaveType
      <4>3. slaves[index].ports[1] = ports
        BY <3>1 DEF IInv, SlavesOK
      <4> QED BY <4>2, <4>3
    <3> QED BY <1>1, <3>1
  <2>4. pc'[Service] = "published" => slaves'[index'].ports[1] = ports'
    <3>1. CASE pc'[Service] = "published"
      <4>1. w = 1 /\ index' = index /\ ports' = ports
        BY <1>1, <1>2, <3>1
      <4> QED BY <1>3, <1>4, <4>1 DEF SlaveType
    <3> QED BY <3>1
  <2> QED BY <1>1, <1>8, <1>9, <2>1, <2>2, <2>3, <2>4 DEF IInv, SlavesOK
<1>14. CopiesOK' /\ SlavesAreOfOneCycle' /\ SelectedSlaveExists'
  BY <1>1 DEF IInv, LocksOK, CopiesOK, SlavesAreOfOneCycle, SelectedSlaveExists, Threads,
              Slaves
<1>15. CyclesOK'
  BY <1>1, <1>5, <1>6, <1>8, <1>9, CyclesKept
<1> QED BY <1>10, <1>11, <1>12, <1>13, <1>14, <1>15 DEF IInv

-----------------------------------------------------------------------------
(* The readers.                                                            *)

\* What a reader does leaves the structure, the counters and the other threads alone.
LEMMA ReaderPreservesRest ==
    ASSUME IInv, NEW t \in Readers, Read(t) \/ CopySnapshot(t)
    PROVE  /\ UNCHANGED <<options, busState, bus, slaves, list, index, ports, history>>
           /\ \A u \in Threads \ {t} : pc'[u] = pc[u] /\ at'[u] = at[u]
           /\ \A u \in Readers \ {t} : snapshot'[u] = snapshot[u]
           /\ pc' \in [Threads -> RtLabels \cup ServiceLabels \cup ReaderLabels]
           /\ pc'[t] \in ReaderLabels
           /\ at' \in [Threads -> Slaves]
<1>1. /\ t \in Threads /\ at \in [Threads -> Slaves] /\ at[t] \in Slaves
      /\ pc \in [Threads -> RtLabels \cup ServiceLabels \cup ReaderLabels]
      /\ DOMAIN snapshot = Readers
  BY DEF IInv, TypeOK, Threads
<1>2. CASE Read(t)       BY <1>1, <1>2 DEF Read, ReaderLabels
<1>3. CASE CopyBus(t)    BY <1>1, <1>3 DEF CopyBus, ReaderLabels
<1>4. CASE CopySlave(t)
  <2>1. UNCHANGED <<options, busState, bus, slaves, list, index, ports, history>>
        /\ \A u \in Readers \ {t} : snapshot'[u] = snapshot[u]
    BY <1>1, <1>4 DEF CopySlave
  <2>2. \/ at[t] + 1 \in Slaves /\ at' = [at EXCEPT ![t] = @ + 1]
           /\ pc' = [pc EXCEPT ![t] = "slave"]
        \/ at' = [at EXCEPT ![t] = 0] /\ pc' = [pc EXCEPT ![t] = "done"]
    BY <1>1, <1>4 DEF CopySlave, NextSlave, Slaves
  <2> QED BY <1>1, <2>1, <2>2, FirstSlave DEF ReaderLabels
<1>5. CASE Return(t)     BY <1>1, <1>5 DEF Return, ReaderLabels
<1> QED BY <1>2, <1>3, <1>4, <1>5 DEF CopySnapshot

\* What a reader has copied is a snapshot, complete up to the slave it is at.
LEMMA ReaderPreservesSnapshot ==
    ASSUME IInv, NEW t \in Readers, Read(t) \/ CopySnapshot(t)
    PROVE  /\ snapshot' \in [Readers -> [bus : Counters, slaves : [Slaves -> SlaveType]]]
           /\ pc'[t] = "slave" =>
                \A s \in Slaves : s < at'[t] => snapshot'[t].slaves[s] = slaves[s]
           /\ pc'[t] = "done" => snapshot'[t].slaves = slaves /\ mutex = t
           /\ \/ mutex = NoThread /\ mutex' = t /\ pc'[t] = "bus"
              \/ mutex = t /\ mutex' = t /\ pc'[t] = "slave"
              \/ mutex = t /\ mutex' = NoThread /\ pc'[t] = "done"
              \/ mutex # t /\ mutex' = mutex /\ pc'[t] = "idle"
           /\ pc'[t] # "slave" => at'[t] = 0
<1> DEFINE S == [bus : Counters, slaves : [Slaves -> SlaveType]]
<1>1. /\ snapshot \in [Readers -> S] /\ bus \in Counters /\ slaves \in [Slaves -> SlaveType]
      /\ at[t] \in Slaves /\ t \in Threads /\ at \in [Threads -> Slaves]
      /\ pc \in [Threads -> RtLabels \cup ServiceLabels \cup ReaderLabels]
  BY DEF IInv, TypeOK, Threads
<1>2. /\ mutex = t <=> pc[t] \in {"bus", "slave"}
      /\ pc[t] # "slave" => at[t] = 0
  BY <1>1 DEF IInv, LocksOK, TypeOK, ReaderLabels
<1>3. CASE Read(t)
  BY <1>1, <1>2, <1>3 DEF Read
<1>4. CASE CopyBus(t)
  <2>1. snapshot' = [snapshot EXCEPT ![t].bus = bus]
    BY <1>4 DEF CopyBus
  <2>2. snapshot' \in [Readers -> S]
    BY <1>1, <2>1
  <2>3. pc'[t] = "slave" /\ at'[t] = 0 /\ mutex' = mutex /\ mutex = t
    BY <1>1, <1>2, <1>4 DEF CopyBus
  <2> QED BY <2>2, <2>3, FirstSlave
<1>5. CASE CopySlave(t)
  <2>1. snapshot' = [snapshot EXCEPT ![t].slaves[at[t]] = slaves[at[t]]]
    BY <1>5 DEF CopySlave
  <2>2. /\ snapshot[t] \in S /\ slaves[at[t]] \in SlaveType
        /\ snapshot'[t].slaves = [snapshot[t].slaves EXCEPT ![at[t]] = slaves[at[t]]]
        /\ snapshot'[t].bus = snapshot[t].bus
        /\ snapshot'[t] = [snapshot[t] EXCEPT !.slaves[at[t]] = slaves[at[t]]]
    BY <1>1, <2>1
  <2>3. snapshot'[t] \in S
    BY <1>1, <2>2
  <2>4. snapshot' \in [Readers -> S]
    BY <1>1, <2>1, <2>3
  <2>5. \A s \in Slaves : s < at[t] + 1 => snapshot'[t].slaves[s] = slaves[s]
    <3>1. \A s \in Slaves : s < at[t] => snapshot[t].slaves[s] = slaves[s]
      BY <1>5 DEF IInv, CopiesOK, CopySlave
    <3>2. snapshot[t].slaves \in [Slaves -> SlaveType]
      BY <2>2
    <3> QED BY <1>1, <2>2, <3>1, <3>2 DEF Slaves
  <2>6. \/ at[t] + 1 < N /\ pc'[t] = "slave" /\ at'[t] = at[t] + 1 /\ mutex' = mutex
        \/ at[t] + 1 = N /\ pc'[t] = "done" /\ at'[t] = 0 /\ mutex' = NoThread
    BY <1>1, <1>5 DEF CopySlave, NextSlave, Slaves
  <2>7. at[t] + 1 = N => snapshot'[t].slaves = slaves
    <3>1. snapshot'[t].slaves \in [Slaves -> SlaveType]
      BY <2>3
    <3>2. ASSUME at[t] + 1 = N
          PROVE  \A s \in Slaves : snapshot'[t].slaves[s] = slaves[s]
      BY <2>5, <3>2 DEF Slaves
    <3> QED BY <1>1, <3>1, <3>2
  <2>8. mutex = t
    BY <1>2, <1>5 DEF CopySlave
  <2> QED BY <2>4, <2>5, <2>6, <2>7, <2>8
<1>6. CASE Return(t)
  BY <1>1, <1>2, <1>6, EmptySnapshot DEF Return
<1> QED BY <1>3, <1>4, <1>5, <1>6 DEF CopySnapshot

\* A reader preserves IInv: when its copy is complete it gives the mutex back, and neither
\* the RT thread nor the service thread was at work on the slaves until then.
LEMMA ReaderPreservesIInv ==
    ASSUME IInv, NEW t \in Readers, Read(t) \/ CopySnapshot(t)
    PROVE  IInv'
<1> USE ReaderPreservesRest, ReaderPreservesSnapshot
<1>1. CyclesSoFar' = CyclesSoFar
  BY DEF CyclesSoFar, FramesSent
<1>2. TypeOK'
  <2>1. mutex' \in Threads \cup {NoThread}
    <3>1. mutex' \in {mutex, t, NoThread}
      OBVIOUS
    <3> QED BY <3>1 DEF IInv, TypeOK, Threads
  <2>2. pc'[Rt] = pc[Rt] /\ pc'[Service] = pc[Service]
    BY DEF Threads
  <2>3. \A u \in Readers : pc'[u] \in ReaderLabels
    <3>1. \A u \in Readers \ {t} : pc'[u] = pc[u]
      BY DEF Threads
    <3>2. pc'[t] \in ReaderLabels
      OBVIOUS
    <3> QED BY <3>1, <3>2 DEF IInv, TypeOK
  <2> QED BY <1>1, <2>1, <2>2, <2>3 DEF IInv, TypeOK
<1>3. LocksOK'
  BY DEF IInv, LocksOK, Threads
<1>4. CountersOK'
  BY <1>1 DEF IInv, CountersOK, Threads
<1>5. SlavesOK'
  BY <1>1 DEF IInv, SlavesOK, Threads
<1>6. CopiesOK'
  BY DEF IInv, CopiesOK, Threads
<1>7. SelectedSlaveExists'
  BY DEF IInv, SelectedSlaveExists, Threads
<1>8. SlavesAreOfOneCycle'
  <2>1. ASSUME mutex = t
        PROVE  /\ \A r, s \in Slaves : slaves[r].cycle = slaves[s].cycle
               /\ \A s \in Slaves : slaves[s].ports[1] = slaves[s].ports[2]
    BY <2>1 DEF IInv, LocksOK, SlavesOK
  <2>2. pc'[t] = "done" => snapshot'[t].slaves = slaves /\ mutex = t
    OBVIOUS
  <2>3. \A u \in Readers \ {t} : pc'[u] = pc[u] /\ snapshot'[u] = snapshot[u]
    BY DEF Threads
  <2> QED BY <2>1, <2>2, <2>3 DEF IInv, SlavesAreOfOneCycle
<1>9. CyclesOK'
  BY <1>1, CyclesKept DEF Threads
<1> QED BY <1>2, <1>3, <1>4, <1>5, <1>6, <1>7, <1>8, <1>9 DEF IInv

-----------------------------------------------------------------------------
(* The whole.                                                              *)

\* A forced update, while nobody runs, preserves IInv.
LEMMA ForceUpdatePreservesIInv ==
    ASSUME IInv, ForceUpdate
    PROVE  IInv'
<1> USE DEF ForceUpdate, Wrapped
<1> DEFINE forcedPorts == [w \in 1..2 |-> ports']
<1>a. CyclesSoFar \in 0..MaxCycles /\ ports' \in Bits
  BY DEF IInv, TypeOK, CyclesSoFar, FramesSent, Outcomes, Bits
<1>1. /\ \A s \in Slaves :
           /\ slaves'[s] \in SlaveType
           /\ slaves'[s].cycle = IF options.esc THEN CyclesSoFar ELSE slaves[s].cycle
      /\ \A s \in Slaves : slaves'[s].ports[1] = slaves'[s].ports[2]
      /\ slaves' = [s \in Slaves |-> slaves'[s]]
  <2>1. ASSUME NEW s \in Slaves
        PROVE  /\ slaves'[s] \in SlaveType
               /\ slaves'[s].cycle = IF options.esc THEN CyclesSoFar ELSE slaves[s].cycle
               /\ slaves'[s].ports[1] = slaves'[s].ports[2]
    <3> DEFINE copied == IF options.esc THEN StateCopied(s) ELSE slaves[s]
    <3>1. /\ slaves[s] \in SlaveType /\ slaves[s].ports[1] = slaves[s].ports[2]
          /\ list[s] \in [state : Bits, alStatus : Bits]
      BY DEF IInv, TypeOK, SlavesOK, Threads
    <3>2. slaves'[s] = copied \/ slaves'[s] = [copied EXCEPT !.ports = forcedPorts]
      OBVIOUS
    <3>3. forcedPorts \in [1..2 -> Bits] /\ forcedPorts[1] = forcedPorts[2]
      BY <1>a
    <3> HIDE DEF forcedPorts, ForceUpdate
    <3>4. /\ copied \in SlaveType /\ copied.ports = slaves[s].ports
          /\ copied.cycle = IF options.esc THEN CyclesSoFar ELSE slaves[s].cycle
      BY <1>a, <3>1 DEF SlaveType, StateCopied
    <3> HIDE DEF copied
    <3> QED BY <3>1, <3>2, <3>3, <3>4 DEF SlaveType
  <2> QED BY <2>1
<1>2. slaves' \in [Slaves -> SlaveType] /\ index' \in 0..N /\ bus' \in Counters
  <2>1. slaves' \in [Slaves -> SlaveType]
    <3> HIDE DEF ForceUpdate
    <3> QED BY <1>1
  <2>2. index' \in 0..N
    BY DEF IInv, TypeOK
  <2>3. bus \in Counters /\ bus' = [bus EXCEPT !.sent = @ + 1]
    BY DEF IInv, TypeOK
  <2> HIDE DEF ForceUpdate
  <2> QED BY <2>1, <2>2, <2>3 DEF Counters
<1>3. CyclesSoFar' = CyclesSoFar /\ \A t \in Threads : pc[t] = "idle" /\ pc'[t] = "idle"
  BY DEF CyclesSoFar, FramesSent
<1>4. TypeOK'
  BY <1>a, <1>2, <1>3 DEF IInv, TypeOK
<1>5. LocksOK'
  BY DEF IInv, LocksOK
<1>6. CountersOK'
  <2>1. bus \in Counters /\ CyclesSoFar \in Nat
    BY DEF IInv, TypeOK, CyclesSoFar, FramesSent, Outcomes
  <2>2. bus'.sent = bus.sent + 1 /\ bus'.lost = bus.lost /\ bus'.mismatches = bus.mismatches
    BY <2>1 DEF Counters
  <2>3. forced = 0 /\ forced' = 1 /\ pc[Rt] = "idle" /\ pc'[Rt] = "idle"
    BY DEF Threads
  <2> QED BY <1>3, <2>1, <2>2, <2>3 DEF IInv, CountersOK, Outcomes, Counters
<1>7. SlavesOK'
  <2>1. pc[Rt] = "idle" /\ pc'[Rt] = "idle" /\ pc'[Service] = "idle"
    BY DEF Threads
  <2>2. \A r, s \in Slaves : slaves[r].cycle = slaves[s].cycle
    BY <2>1 DEF IInv, SlavesOK
  <2> HIDE DEF ForceUpdate
  <2> QED BY <1>1, <2>1, <2>2 DEF SlavesOK
<1>8. CopiesOK' /\ SelectedSlaveExists' /\ SlavesAreOfOneCycle'
  BY <1>3 DEF CopiesOK, SelectedSlaveExists, SlavesAreOfOneCycle, Threads
<1>9. CyclesOK'
  <2>1. pc'[Rt] = "idle" /\ \A s \in Slaves : slaves[s].cycle <= CyclesSoFar
    BY <1>3 DEF Threads, IInv, CyclesOK
  <2> HIDE DEF ForceUpdate
  <2> QED BY <1>a, <1>1, <1>3, <2>1 DEF CyclesOK
<1> QED BY <1>4, <1>5, <1>6, <1>7, <1>8, <1>9 DEF IInv

\* Every step preserves IInv.
LEMMA NextPreservesIInv == IInv /\ [Next]_vars => IInv'
<1> SUFFICES ASSUME IInv, [Next]_vars
             PROVE  IInv'
  OBVIOUS
<1>1. CASE Run \/ ShutDown \/ UNCHANGED vars
  <2>1. UNCHANGED <<options, bus, slaves, list, mutex, index, ports, pc, at, snapshot, cycles,
                    forced>> /\ busState' \in BusStates
    BY <1>1 DEF Run, ShutDown, vars, IInv, TypeOK, BusStates
  <2> QED
    BY <2>1 DEF IInv, TypeOK, LocksOK, CountersOK, SlavesOK, CyclesOK, CopiesOK, SelectedSlaveExists,
                SlavesAreOfOneCycle, CyclesSoFar, FramesSent
<1> QED
  BY <1>1, CyclePreservesIInv, CountPreservesIInv, CopySlavePreservesIInv,
     ServiceReadsPreserveIInv, PublishPreservesIInv, ReaderPreservesIInv,
     ForceUpdatePreservesIInv
  DEF Next, RtStep, ServiceStep

\* The owner of the mutex, the counters, the structure and the copies of it agree with
\* each other at every step.
THEOREM IInvHolds == Spec => []IInv
BY InitEstablishesIInv, NextPreservesIInv, PTL DEF Spec

\* No cycle is counted twice or forgotten, also when the RT thread finds the mutex taken, and
\* frames_sent are the frames sent unless one could not be or an update was forced.
THEOREM CountersExact == Spec => []CountersAreExact
<1>1. IInv => CountersAreExact
  BY DEF IInv, CountersOK, CountersAreExact, TypeOK, Counters, Outcomes, CyclesSoFar, FramesSent
<1> QED BY <1>1, IInvHolds, PTL

\* The round-robin index never leads beyond the last slave, for any number of slaves.
THEOREM SelectedSlave == Spec => []SelectedSlaveExists
BY IInvHolds, PTL DEF IInv

\* A snapshot never mixes the slaves of two PDO cycles or the ports of two readings.
THEOREM OneCycle == Spec => []SlavesAreOfOneCycle
BY IInvHolds, PTL DEF IInv

-----------------------------------------------------------------------------
(* The board of DiagnosticsBoard.                                          *)

\* The last slave is a slave.
LEMMA LastSlave == N - 1 \in Slaves
BY DEF Slaves

\* The board is made of the last words of the slaves and of the finished copies: whatever
\* leaves those alone leaves the board alone.
LEMMA BoardKept ==
    ASSUME \A s \in Slaves : /\ slaves'[s].cycle = slaves[s].cycle
                             /\ slaves'[s].ports[2] = slaves[s].ports[2],
           \A t \in Readers : /\ pc'[t] = "idle" <=> pc[t] = "idle"
                              /\ pc'[t] = "done" <=> pc[t] = "done"
                              /\ pc[t] = "done" => snapshot'[t] = snapshot[t]
    PROVE  UNCHANGED Board!boardVars
<1>1. slaves'[N - 1].cycle = slaves[N - 1].cycle  BY LastSlave
<1>2. Posted' = Posted  BY DEF Posted
<1>3. Asking' = Asking  BY DEF Asking
<1>4. Copies' = Copies  BY DEF Copies, Taken
<1> QED BY <1>1, <1>2, <1>3, <1>4 DEF Board!boardVars

\* Before its last slave the RT thread changes nothing on the board, and with it the cycle
\* of the board: to one that no slave had.
LEMMA CopySlaveRefines == IInv /\ IInv' /\ RtCopySlave => [Board!Refresh]_(Board!boardVars)
<1> SUFFICES ASSUME IInv, IInv', RtCopySlave PROVE [Board!Refresh]_(Board!boardVars)  OBVIOUS
<1> DEFINE s0 == at[Rt]
<1>1. /\ s0 \in Slaves /\ pc[Rt] = "slave" /\ slaves \in [Slaves -> SlaveType]
      /\ CyclesSoFar \in Nat
  BY DEF IInv, TypeOK, Threads, RtCopySlave, CyclesSoFar, FramesSent, Outcomes
<1>2. /\ \A s \in Slaves \ {s0} : slaves'[s] = slaves[s]
      /\ slaves'[s0].cycle = CyclesSoFar /\ slaves'[s0].ports = slaves[s0].ports
  BY <1>1 DEF RtCopySlave, SlaveType, StateCopied
<1>3. snapshot' = snapshot /\ \A u \in Threads \ {Rt} : pc'[u] = pc[u]
  BY DEF RtCopySlave, NextSlave, IInv, TypeOK
<1>4. \A t \in Readers : pc'[t] = pc[t]  BY <1>3 DEF Threads
<1>5. Posted' = Posted /\ Asking' = Asking /\ Copies' = Copies
  <2>1. \A s \in Slaves : slaves'[s].ports = slaves[s].ports  BY <1>2
  <2> QED BY <1>3, <1>4, <2>1 DEF Posted, Asking, Copies, Taken
<1>6. CASE s0 = N - 1
  <2>1. slaves'[N - 1].cycle = CyclesSoFar  BY <1>2, <1>6
  <2>2. slaves[N - 1].cycle < CyclesSoFar
    <3>1. s0 <= s0  BY <1>1 DEF Slaves
    <3> QED BY <1>1, <1>6, <3>1, LastSlave DEF IInv, CyclesOK
  <2> QED BY <1>1, <1>5, <2>1, <2>2 DEF Board!Refresh
<1>7. CASE s0 # N - 1
  <2>1. slaves'[N - 1].cycle = slaves[N - 1].cycle  BY <1>2, <1>7, LastSlave
  <2> QED BY <1>5, <2>1 DEF Board!boardVars
<1> QED BY <1>6, <1>7

\* With the second word the ports of the slave are on the board.
LEMMA PublishedRefines == IInv /\ IInv' /\ Published => Board!Post
<1> SUFFICES ASSUME IInv, IInv', Published PROVE Board!Post  OBVIOUS
<1>1. /\ slaves \in [Slaves -> SlaveType] /\ ports \in Bits
      /\ pc \in [Threads -> RtLabels \cup ServiceLabels \cup ReaderLabels]
  BY DEF IInv, TypeOK
<1>2. /\ index \in Slaves
      /\ slaves'[index].cycle = slaves[index].cycle /\ slaves'[index].ports[2] = ports
      /\ \A s \in Slaves \ {index} : slaves'[s] = slaves[s]
  <2>1. index \in Slaves
    BY <1>1 DEF Published, IInv, TypeOK, SelectedSlaveExists, Slaves
  <2>2. slaves' = [slaves EXCEPT ![index].ports[2] = ports]  BY DEF Published
  <2>3. slaves[index] \in SlaveType  BY <1>1, <2>1
  <2> QED BY <1>1, <2>1, <2>2, <2>3 DEF SlaveType
<1>3. snapshot' = snapshot /\ \A t \in Readers : pc'[t] = pc[t]
  BY <1>1 DEF Published, Threads
<1>4. slaves'[N - 1].cycle = slaves[N - 1].cycle  BY <1>2, LastSlave
<1>5. Asking' = Asking /\ Copies' = Copies  BY <1>3 DEF Asking, Copies, Taken
<1>6. Posted' = [Posted EXCEPT ![index] = [w \in 1..2 |-> ports]]  BY <1>2 DEF Posted
<1>7. [w \in 1..2 |-> ports] \in {[w \in 1..2 |-> c] : c \in Bits}  BY <1>1
<1> QED BY <1>2, <1>4, <1>5, <1>6, <1>7 DEF Board!Post

\* A forced update puts the states of all slaves and the ports of one on the board.
LEMMA ForceUpdateRefines == IInv /\ IInv' /\ ForceUpdate => Board!Force
<1> SUFFICES ASSUME IInv, IInv', ForceUpdate PROVE Board!Force  OBVIOUS
<1> DEFINE i == Wrapped(index)
<1>1. /\ slaves \in [Slaves -> SlaveType] /\ ports' \in Bits /\ i \in Slaves
      /\ CyclesSoFar \in Nat /\ slaves[N - 1].cycle <= CyclesSoFar
  BY LastSlave
  DEF IInv, TypeOK, Bits, Wrapped, Slaves, CyclesSoFar, FramesSent, Outcomes, CyclesOK,
      ForceUpdate
<1>2. /\ slaves'[i].ports = [w \in 1..2 |-> ports']
      /\ \A s \in Slaves \ {i} : slaves'[s].ports = slaves[s].ports
      /\ \A s \in Slaves :
           slaves'[s].cycle = IF options.esc THEN CyclesSoFar ELSE slaves[s].cycle
  <2>1. \A s \in Slaves : slaves[s] \in SlaveType  BY <1>1
  <2>2. \A s \in Slaves : StateCopied(s).ports = slaves[s].ports /\ StateCopied(s).cycle = CyclesSoFar
    BY <2>1 DEF StateCopied, SlaveType
  <2>3. \A s \in Slaves : StateCopied(s) = [StateCopied(s) EXCEPT !.ports = @]
                         /\ DOMAIN StateCopied(s) = DOMAIN slaves[s]
    BY <2>1 DEF StateCopied, SlaveType
  <2> QED BY <1>1, <2>1, <2>2, <2>3 DEF ForceUpdate, SlaveType
<1>3. snapshot' = snapshot /\ \A t \in Readers : pc'[t] = pc[t] /\ pc[t] = "idle"
  BY DEF ForceUpdate, Threads
<1>4. slaves'[N - 1].cycle \in Nat /\ slaves'[N - 1].cycle >= slaves[N - 1].cycle
  <2>1. slaves[N - 1].cycle \in Nat  BY <1>1, LastSlave DEF SlaveType
  <2> QED BY <1>1, <1>2, <2>1, LastSlave
<1>5. Asking = {} /\ Asking' = Asking /\ Copies' = Copies
  BY <1>3 DEF Asking, Copies, Taken
<1>6. Posted' = [Posted EXCEPT ![i] = [w \in 1..2 |-> ports']]
  <2>1. slaves'[i].ports[2] = ports'  BY <1>2
  <2> HIDE DEF i
  <2> QED BY <1>2, <2>1 DEF Posted
<1>7. [w \in 1..2 |-> ports'] \in {[w \in 1..2 |-> c] : c \in Bits}  BY <1>1
<1> QED BY <1>1, <1>4, <1>5, <1>6, <1>7 DEF Board!Force

\* A reader asks when it takes the mutex and has its copy when it gives it back; in between
\* neither the RT thread nor the service thread is at work, so the copy is the board.
LEMMA ReaderRefines ==
    ASSUME IInv, NEW t \in Readers, Read(t) \/ CopySnapshot(t)
    PROVE  Board!Ask(t) \/ Board!Take(t) \/ Board!Leave(t) \/ UNCHANGED Board!boardVars
<1>1. /\ slaves' = slaves /\ \A u \in Readers \ {t} : pc'[u] = pc[u] /\ snapshot'[u] = snapshot[u]
      /\ pc' \in [Threads -> RtLabels \cup ServiceLabels \cup ReaderLabels]
  BY ReaderPreservesRest DEF Threads
<1>2. pc \in [Threads -> RtLabels \cup ServiceLabels \cup ReaderLabels] /\ t \in Threads
  BY DEF IInv, TypeOK, Threads
<1>3. Posted' = Posted  BY <1>1 DEF Posted
<1>4. CASE Read(t)
  <2>1. pc[t] = "idle" /\ pc'[t] = "bus" /\ snapshot' = snapshot  BY <1>2, <1>4 DEF Read
  <2>2. Asking' = Asking \cup {t} /\ t \notin Asking  BY <1>1, <2>1 DEF Asking
  <2>3. Copies' = Copies  BY <1>1, <2>1 DEF Copies
  <2> QED BY <1>1, <1>3, <2>2, <2>3 DEF Board!Ask
<1>5. CASE CopyBus(t)
  <2>1. pc[t] = "bus" /\ pc'[t] = "slave"  BY <1>2, <1>5 DEF CopyBus
  <2> QED BY <1>1, <2>1, BoardKept
<1>6. CASE CopySlave(t)
  <2>1. pc[t] = "slave" /\ pc'[t] \in {"slave", "done"}
    BY <1>2, <1>6 DEF CopySlave, NextSlave
  <2>2. CASE pc'[t] = "slave"  BY <1>1, <2>1, <2>2, BoardKept
  <2>3. CASE pc'[t] = "done"
    <3>1. snapshot'[t].slaves = slaves /\ mutex = t  BY <2>3, ReaderPreservesSnapshot
    <3>2. pc[Rt] # "slave" /\ pc[Service] # "published"
      BY <3>1 DEF IInv, LocksOK
    <3>3. \A s \in Slaves : /\ slaves[s].cycle = slaves[N - 1].cycle
                            /\ slaves[s].ports[1] = slaves[s].ports[2]
                            /\ slaves[s].ports \in [1..2 -> Bits]
      BY <3>2, LastSlave DEF IInv, SlavesOK, TypeOK, SlaveType
    <3>4. \A s \in Slaves : slaves[s].ports = Posted[s]
      <4>1. TAKE s \in Slaves
      <4>2. \A w \in 1..2 : slaves[s].ports[w] = slaves[s].ports[2]
        <5>1. \A w \in 1..2 : w = 1 \/ w = 2  OBVIOUS
        <5> QED BY <3>3, <5>1
      <4> QED BY <3>3, <4>2 DEF Posted
    <3>5. Taken(snapshot'[t].slaves) = Board!View
      BY <3>1, <3>3, <3>4 DEF Taken, Board!View
    <3>6. Asking' = Asking /\ t \in Asking  BY <1>1, <2>1, <2>3 DEF Asking
    <3>7. Copies[t] = <<>> /\ Copies' = [Copies EXCEPT ![t] = Board!View]
      BY <1>1, <2>1, <2>3, <3>5 DEF Copies
    <3> QED BY <1>1, <1>3, <3>6, <3>7 DEF Board!Take, Board!NoCopy
  <2> QED BY <2>1, <2>2, <2>3
<1>7. CASE Return(t)
  <2>1. pc[t] = "done" /\ pc'[t] = "idle"  BY <1>2, <1>7 DEF Return
  <2>2. Asking' = Asking \ {t} /\ t \in Asking  BY <1>1, <2>1 DEF Asking
  <2>3. Copies' = [Copies EXCEPT ![t] = <<>>]  BY <1>1, <2>1 DEF Copies
  <2>4. Copies[t] # <<>>
    <3>1. Copies[t] = Taken(snapshot[t].slaves)  BY <2>1 DEF Copies
    <3>2. DOMAIN Taken(snapshot[t].slaves) = Slaves  BY DEF Taken
    <3> QED BY <3>1, <3>2, FirstSlave
  <2> QED BY <1>1, <1>3, <2>2, <2>3, <2>4 DEF Board!Leave, Board!NoCopy
<1> QED BY <1>4, <1>5, <1>6, <1>7 DEF CopySnapshot

\* The steps at which no cycle, no reading and no copy is completed.
LEMMA RestRefines ==
    ASSUME IInv,
           \/ UNCHANGED vars \/ Run \/ ShutDown \/ RtCycle \/ RtCountFailure \/ RtCountSent \/ RtTryLock
           \/ Tick \/ ReadState \/ ReadAlStatus \/ SelectSlave \/ LockToPublish \/ Publish
    PROVE  UNCHANGED Board!boardVars
<1>1. snapshot' = snapshot
  BY DEF vars, Run, ShutDown, RtCycle, RtCountFailure, RtCountSent, RtTryLock, Tick, ReadState,
         ReadAlStatus, SelectSlave, LockToPublish, Publish
<1>2. \A t \in Readers : pc'[t] = pc[t]
  BY DEF vars, Run, ShutDown, RtCycle, RtCountFailure, RtCountSent, RtTryLock, Tick, ReadState,
         ReadAlStatus, SelectSlave, LockToPublish, Publish, NextSlave, IInv, TypeOK, Threads
<1>3. \A s \in Slaves : /\ slaves'[s].cycle = slaves[s].cycle
                        /\ slaves'[s].ports[2] = slaves[s].ports[2]
  <2>1. CASE Publish
    <3>1. slaves \in [Slaves -> SlaveType] /\ index \in Slaves
      BY <2>1 DEF Publish, IInv, TypeOK, SelectedSlaveExists, Slaves
    <3>2. slaves' = [slaves EXCEPT ![index].ports[1] = ports]  BY <2>1 DEF Publish
    <3>3. slaves[index] \in SlaveType  BY <3>1
    <3> QED BY <3>1, <3>2, <3>3 DEF SlaveType
  <2>2. CASE slaves' = slaves  BY <2>2
  <2> QED
    BY <2>1, <2>2
    DEF vars, Run, ShutDown, RtCycle, RtCountFailure, RtCountSent, RtTryLock, Tick, ReadState,
        ReadAlStatus, SelectSlave, LockToPublish
<1> QED BY <1>1, <1>2, <1>3, BoardKept

\* ImplementsBoard: for any number of slaves and readers a snapshot is the board of one
\* moment of the call.
THEOREM BoardImplemented == Spec => ImplementsBoard
<1>1. Init => Board!BoardInit
  <2> SUFFICES ASSUME Init PROVE Board!BoardInit  OBVIOUS
  <2>1. slaves[N - 1].cycle = 0 /\ \A s \in Slaves : slaves[s].ports[2] = 0
    BY LastSlave DEF Init, NoSnapshot, NoSlave
  <2>2. Posted = [s \in Slaves |-> [w \in 1..2 |-> 0]]  BY <2>1 DEF Posted
  <2>3. \A t \in Readers : pc[t] = "idle"  BY DEF Init, Threads
  <2>4. Asking = {} /\ Copies = [t \in Readers |-> <<>>]  BY <2>3 DEF Asking, Copies
  <2>5. 0 \in Bits  BY DEF Bits
  <2> QED BY <2>1, <2>2, <2>4, <2>5 DEF Board!BoardInit, Board!NoCopy
<1>2. IInv /\ IInv' /\ [Next]_vars => [Board!BoardNext]_(Board!boardVars)
  BY CopySlaveRefines, PublishedRefines, ForceUpdateRefines, ReaderRefines, RestRefines
  DEF Next, RtStep, ServiceStep, Board!BoardNext
<1> QED BY <1>1, <1>2, IInvHolds, PTL DEF Spec, ImplementsBoard, Board!BoardSpec
=============================================================================
