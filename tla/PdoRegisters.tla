---------------------------- MODULE PdoRegisters ----------------------------
(***************************************************************************)
(* What the PDO accessors promise: every buffer of a device is a register. *)
(* A call of an accessor takes effect in one step between its begin and    *)
(* its end, in which it copies a whole PDO; the writes of all threads are  *)
(* ordered; and a frame replaces the inputs of all devices at once.        *)
(***************************************************************************)
EXTENDS Naturals

CONSTANTS
    Devices, Threads,
    Stores,    \* the registers of each device
    Ops,       \* what may be called
    From, To,  \* for each operation the register it copies from and to, or "caller"
    Words      \* the words of a PDO

VARIABLES
    register,  \* the contents of each register of each device
    hand,      \* the PDO in the hands of a caller
    call,      \* the call of each thread
    number,    \* number of writes so far
    frame      \* number of frames with new inputs so far

registerVars == <<register, hand, call, number, frame>>

NoCall == [op |-> "none"]

\* The PDO of the n-th write or frame; before the first one it is all zeros.
Pdo(n) == [w \in Words |-> n]
Zero == Pdo(0)

RegistersInit ==
    /\ register = [s \in Stores |-> [d \in Devices |-> Zero]]
    /\ hand = [t \in Threads |-> Zero]
    /\ call = [t \in Threads |-> NoCall]
    /\ number = 0
    /\ frame = 0

Call(t, o, d) ==
    /\ call[t] = NoCall
    /\ call' = [call EXCEPT ![t] = [op |-> o, dev |-> d, done |-> FALSE]]
    /\ UNCHANGED <<register, hand, number, frame>>

Pending(t) == call[t] # NoCall /\ ~call[t].done

\* A write takes its place in the order of the writes.
Order(t) ==
    /\ Pending(t)
    /\ From[call[t].op] = "caller"
    /\ hand[t] = Zero
    /\ number' = number + 1
    /\ hand' = [hand EXCEPT ![t] = Pdo(number + 1)]
    /\ UNCHANGED <<register, call, frame>>

\* The call takes effect.
Move(t) ==
    /\ Pending(t)
    /\ LET d == call[t].dev
           from == From[call[t].op]
           to == To[call[t].op]
           pdo == IF from = "caller" THEN hand[t] ELSE register[from][d]
       IN IF to = "caller"
          THEN hand' = [hand EXCEPT ![t] = pdo] /\ UNCHANGED register
          ELSE register' = [register EXCEPT ![to][d] = pdo] /\ UNCHANGED hand
    /\ call' = [call EXCEPT ![t] = [op |-> @.op, dev |-> @.dev, done |-> TRUE]]
    /\ UNCHANGED <<number, frame>>

Return(t) ==
    /\ call[t] # NoCall /\ call[t].done
    /\ call' = [call EXCEPT ![t] = NoCall]
    /\ hand' = [hand EXCEPT ![t] = Zero]
    /\ UNCHANGED <<register, number, frame>>

Receive ==
    /\ frame' = frame + 1
    /\ register' = [register EXCEPT !["inputs"] = [d \in Devices |-> Pdo(frame + 1)]]
    /\ UNCHANGED <<hand, call, number>>

RegistersNext ==
    \/ \E t \in Threads :
         \/ Order(t) \/ Move(t) \/ Return(t)
         \/ \E o \in Ops, d \in Devices : Call(t, o, d)
    \/ Receive

RegistersSpec == RegistersInit /\ [][RegistersNext]_registerVars
=============================================================================
