--------------------------- MODULE MailboxAccess ---------------------------
(***************************************************************************)
(* SDO, FoE and object dictionary accesses on one mailbox, and the error   *)
(* list SOEM keeps beside it.  SOEM pushes what goes wrong on a ring       *)
(* shared by all accesses; the backend pops it, hands the first event that *)
(* belongs to an access out with its result and counts the others.         *)
(*                                                                         *)
(* What an access checks before (the bus state, the device) is in          *)
(* BusLifecycle; here every access finds a running bus.                    *)
(*                                                                         *)
(* Each access has a number, and each event carries the number of the      *)
(* access during which it was pushed, to tell whose event a caller gets.   *)
(***************************************************************************)
EXTENDS Naturals, Sequences, SequencesExt

CONSTANTS
    Devices,      \* devices on the bus
    Indices,      \* SDO indices
    NoIndex,      \* an event or access without an index
    Clients,      \* threads that access devices
    Service,      \* the thread that calls update_service()
    NoThread,     \* the owner of a free mutex
    MaxAccesses,  \* bound: accesses
    MaxPush,      \* bound: events pushed during one access
    ListSize      \* EC_MAXELIST, the size of the ring

ASSUME IndexAssumption == NoIndex \notin Indices
ASSUME ThreadsAssumption == Service \notin Clients /\ NoThread \notin Clients \cup {Service}
ASSUME BoundsAssumption ==
    MaxAccesses \in Nat /\ MaxPush \in Nat /\ ListSize \in Nat \ {0}

Threads == Clients \cup {Service}
NoEvent == [kind |-> "None", device |-> "none", index |-> NoIndex, access |-> 0]

VARIABLES
    elist,          \* the error list of the SOEM context, oldest first
    mailboxHolder,  \* owner of mailbox_mutex_
    pc,             \* step of each thread
    acc,            \* the access in the hands of each thread (MailboxAccess)
    wkc,            \* the working counter SOEM has returned: positive, zero or negative
    attributed,     \* the event attributed to the access so far
    outcome,        \* what the caller gets: a value, a failure with its event, an exception
    status,         \* mailbox_status_: the counters by class of event
    accesses,       \* number of accesses so far
    pushed,         \* history: events SOEM has pushed, by class
    dropped,        \* history: events the ring has overwritten, by class
    synthesized,    \* history: events the backend has made itself, by class
    handedOut       \* history: events given to callers and not counted, by class

vars == <<elist, mailboxHolder, pc, acc, wkc, attributed, outcome, status, accesses,
          pushed, dropped, synthesized, handedOut>>
history == <<pushed, dropped, synthesized, handedOut>>

AccessKinds == {"read", "write", "foe", "od"}
SdoKinds == {"read", "write"}
Classes == {"aborts", "timeouts", "emergencies"}
Nothing == [c \in Classes |-> 0]

NoAccess == [kind |-> "none", device |-> "none", index |-> NoIndex, id |-> 0]

Init ==
    /\ elist = <<>>
    /\ mailboxHolder = NoThread
    /\ pc = [t \in Threads |-> "idle"]
    /\ acc = [t \in Threads |-> NoAccess]
    /\ wkc = [t \in Threads |-> "zero"]
    /\ attributed = [t \in Threads |-> NoEvent]
    /\ outcome = [t \in Threads |-> "none"]
    /\ status = Nothing
    /\ accesses = 0
    /\ pushed = Nothing /\ dropped = Nothing /\ synthesized = Nothing /\ handedOut = Nothing

At(t, label) == pc[t] = label
Goto(t, label) == pc' = [pc EXCEPT ![t] = label]

-----------------------------------------------------------------------------
(* Events.                                                                 *)

\* make_mailbox_event(): what SOEM's error types become.
RawTypes == {"SDO_ERROR", "EMERGENCY", "MBX_ERROR", "PACKET_ERROR"}
Kind == [SDO_ERROR |-> "Abort", EMERGENCY |-> "Emergency",
         MBX_ERROR |-> "MailboxLayerError", PACKET_ERROR |-> "ProtocolViolation"]
Protocol == [Abort |-> "CoE", Emergency |-> "CoE",
             MailboxLayerError |-> "Unknown", ProtocolViolation |-> "Unknown"]

\* What the device of access a may have SOEM push during the access.
EventsOf(a) ==
    {[kind |-> Kind[r], device |-> a.device, access |-> a.id,
      index |-> IF r = "SDO_ERROR" THEN a.index ELSE NoIndex] :
        r \in IF a.kind = "foe" THEN RawTypes \ {"SDO_ERROR"} ELSE RawTypes}

ProtocolOf(a) == IF a.kind = "foe" THEN "FoE" ELSE "CoE"

\* drain_mailbox_events(acc): the event may come from this access.
BelongsTo(ev, a) ==
    /\ ev.kind # "Emergency"
    /\ ev.device = a.device
    /\ Protocol[ev.kind] \in {"Unknown", ProtocolOf(a)}
    /\ ev.index = NoIndex \/ a.index = NoIndex \/ ev.index = a.index

\* report_mailbox_event(): the counter an event goes to.
Class(kind) == CASE kind = "Emergency" -> "emergencies"
                 [] kind = "Timeout" -> "timeouts"
                 [] OTHER -> "aborts"

Plus(counts, kind) == [counts EXCEPT ![Class(kind)] = @ + 1]

OfClass(events, c) == {i \in DOMAIN events : Class(events[i].kind) = c}

PlusAll(counts, events) == [c \in Classes |-> counts[c] + Cardinality(OfClass(events, c))]

-----------------------------------------------------------------------------
(* An access of a client.                                                  *)

Access(t) ==
    /\ At(t, "idle")
    /\ accesses < MaxAccesses
    /\ \E k \in AccessKinds, d \in Devices, i \in Indices :
         acc' = [acc EXCEPT ![t] = [kind |-> k, device |-> d,
                                    index |-> IF k = "foe" THEN NoIndex ELSE i,
                                    id |-> accesses + 1]]
    /\ accesses' = accesses + 1
    /\ Goto(t, "lock")
    /\ UNCHANGED <<elist, mailboxHolder, wkc, attributed, outcome, status, history>>

\* Mutant: an access starts without draining what is left on the list.
LockWithoutDrain(t) ==
    /\ At(t, "lock")
    /\ mailboxHolder = NoThread
    /\ mailboxHolder' = t
    /\ Goto(t, "transfer")
    /\ UNCHANGED <<elist, acc, wkc, attributed, outcome, status, accesses, history>>

\* read_od_from_device() does not drain the list.
Lock(t) ==
    /\ At(t, "lock")
    /\ mailboxHolder = NoThread
    /\ mailboxHolder' = t
    /\ Goto(t, IF acc[t].kind = "od" THEN "transfer" ELSE "drain")
    /\ UNCHANGED <<elist, acc, wkc, attributed, outcome, status, accesses, history>>

\* drain_mailbox_events() before the access, or of the service thread.
Drain(t) ==
    /\ At(t, "drain")
    /\ IF elist = <<>>
       THEN /\ Goto(t, IF t = Service THEN "unlock" ELSE "transfer")
            /\ UNCHANGED <<elist, status>>
       ELSE /\ elist' = Tail(elist)
            /\ status' = Plus(status, Head(elist).kind)
            /\ UNCHANGED pc
    /\ UNCHANGED <<mailboxHolder, acc, wkc, attributed, outcome, accesses, history>>

\* ecx_pusherror() on a full ring overwrites the oldest events.
Push(events) ==
    LET all == elist \o events
        lost == IF Len(all) > ListSize THEN Len(all) - ListSize ELSE 0
    IN /\ elist' = SubSeq(all, lost + 1, Len(all))
       /\ dropped' = PlusAll(dropped, SubSeq(all, 1, lost))
       /\ pushed' = PlusAll(pushed, events)

\* ecx_SDOread() and the like: events may be pushed whatever the result is.
Transfer(t) ==
    /\ At(t, "transfer")
    /\ \E events \in BoundedSeq(EventsOf(acc[t]), MaxPush) : Push(events)
    /\ \E w \in {"positive", "zero"} \cup (IF acc[t].kind = "foe" THEN {"negative"} ELSE {}) :
         wkc' = [wkc EXCEPT ![t] = w]
    /\ Goto(t, IF acc[t].kind = "od" THEN "list" ELSE "attribute")
    /\ UNCHANGED <<mailboxHolder, acc, attributed, outcome, status, accesses,
                   synthesized, handedOut>>

\* read_od_from_device() throws when it got no list, and leaves the events where they are.
ListObjects(t) ==
    /\ At(t, "list")
    /\ outcome' = [outcome EXCEPT ![t] = IF wkc[t] = "positive" THEN "value" ELSE "thrown"]
    /\ Goto(t, "unlock")
    /\ UNCHANGED <<elist, mailboxHolder, acc, wkc, attributed, status, accesses, history>>

\* drain_mailbox_events(acc): the first event that belongs to the access is kept.
Attribute(t) ==
    /\ At(t, "attribute")
    /\ IF elist = <<>>
       THEN /\ Goto(t, "finish")
            /\ UNCHANGED <<elist, attributed, status, handedOut>>
       ELSE /\ elist' = Tail(elist)
            /\ UNCHANGED pc
            /\ IF attributed[t] = NoEvent /\ BelongsTo(Head(elist), acc[t])
               THEN /\ attributed' = [attributed EXCEPT ![t] = Head(elist)]
                    /\ handedOut' = Plus(handedOut, Head(elist).kind)
                    /\ UNCHANGED status
               ELSE /\ status' = Plus(status, Head(elist).kind)
                    /\ UNCHANGED <<attributed, handedOut>>
    /\ UNCHANGED <<mailboxHolder, acc, wkc, outcome, accesses, pushed, dropped, synthesized>>

\* An event the backend makes itself for access a.
Synthesized(kind, a) ==
    [kind |-> kind, device |-> a.device, index |-> a.index, access |-> a.id]

\* Every event that can be attributed is one of severity Error.
Failed(w, ev) == w # "positive" \/ ev # NoEvent

\* What the caller gets: for a read also an exception, when the reply has not the
\* requested size and the caller wants that checked.
Answers(t) ==
    LET ends == IF Failed(wkc[t], attributed[t]) THEN {"failure"}
                ELSE IF acc[t].kind = "read" THEN {"value", "thrown"} ELSE {"value"}
    IN \E o \in ends : outcome' = [outcome EXCEPT ![t] = o]

\* Mutant: a missing response leaves the result without an event.
FinishSdoSilently(t) ==
    /\ At(t, "finish") /\ acc[t].kind \in SdoKinds
    /\ Answers(t)
    /\ Goto(t, "result")
    /\ UNCHANGED <<elist, mailboxHolder, acc, wkc, attributed, status, accesses, history>>

\* finish_mailbox_access(): a failure without an event becomes a timeout.
FinishSdo(t) ==
    /\ At(t, "finish") /\ acc[t].kind \in SdoKinds
    /\ IF wkc[t] # "positive" /\ attributed[t] = NoEvent
       THEN /\ attributed' = [attributed EXCEPT ![t] = Synthesized("Timeout", acc[t])]
            /\ status' = Plus(status, "Timeout")
            /\ synthesized' = Plus(synthesized, "Timeout")
       ELSE UNCHANGED <<attributed, status, synthesized>>
    /\ Answers(t)
    /\ Goto(t, "result")
    /\ UNCHANGED <<elist, mailboxHolder, acc, wkc, accesses, pushed, dropped, handedOut>>

\* make_foe_event(): a timeout for 0, another kind for a negative code.
FoeKind(w) == IF w = "zero" THEN "Timeout" ELSE "FoE"

\* Mutant: the replaced event is forgotten.
FinishFoeForgets(t) ==
    /\ At(t, "finish") /\ acc[t].kind = "foe"
    /\ IF wkc[t] = "positive"
       THEN UNCHANGED <<attributed, status, synthesized, handedOut>>
       ELSE /\ handedOut' = IF attributed[t] = NoEvent THEN handedOut
                            ELSE [handedOut EXCEPT ![Class(attributed[t].kind)] = @ - 1]
            /\ status' = Plus(status, FoeKind(wkc[t]))
            /\ synthesized' = Plus(synthesized, FoeKind(wkc[t]))
            /\ attributed' = [attributed EXCEPT ![t] = Synthesized(FoeKind(wkc[t]), acc[t])]
    /\ Answers(t)
    /\ Goto(t, "result")
    /\ UNCHANGED <<elist, mailboxHolder, acc, wkc, accesses, pushed, dropped>>

\* finish_foe_access(): the code of a failed transfer replaces the attributed event,
\* which is then counted like the others.
FinishFoe(t) ==
    /\ At(t, "finish") /\ acc[t].kind = "foe"
    /\ IF wkc[t] = "positive"
       THEN UNCHANGED <<attributed, status, synthesized, handedOut>>
       ELSE LET old == attributed[t]
                kind == FoeKind(wkc[t])
            IN /\ status' = IF old = NoEvent THEN Plus(status, kind)
                            ELSE Plus(Plus(status, old.kind), kind)
               /\ handedOut' = IF old = NoEvent THEN handedOut
                               ELSE [handedOut EXCEPT ![Class(old.kind)] = @ - 1]
               /\ synthesized' = Plus(synthesized, kind)
               /\ attributed' = [attributed EXCEPT ![t] = Synthesized(kind, acc[t])]
    /\ Answers(t)
    /\ Goto(t, "result")
    /\ UNCHANGED <<elist, mailboxHolder, acc, wkc, accesses, pushed, dropped>>

\* The mutex is released on return, the result is the caller's.
Return(t) ==
    /\ pc[t] \in {"result", "unlock"}
    /\ mailboxHolder' = NoThread
    /\ attributed' = [attributed EXCEPT ![t] = NoEvent]
    /\ acc' = [acc EXCEPT ![t] = NoAccess]
    /\ wkc' = [wkc EXCEPT ![t] = "zero"]
    /\ outcome' = [outcome EXCEPT ![t] = "none"]
    /\ Goto(t, "idle")
    /\ UNCHANGED <<elist, status, accesses, history>>

Call(t) ==
    \/ Lock(t) \/ Drain(t) \/ Transfer(t) \/ ListObjects(t) \/ Attribute(t)
    \/ FinishSdo(t) \/ FinishFoe(t) \/ Return(t)

-----------------------------------------------------------------------------
(* update_service() drains the list unless an access is under way.         *)

\* Mutant: the service thread leaves the list alone.
TickOnly ==
    /\ At(Service, "idle")
    /\ UNCHANGED vars

\* Mutant: the list is drained whether an access is under way or not.
TickWithoutLock ==
    /\ At(Service, "idle")
    /\ Goto(Service, "drain")
    /\ UNCHANGED <<mailboxHolder, elist, acc, wkc, attributed, outcome, status, accesses, history>>

Tick ==
    /\ At(Service, "idle")
    /\ IF mailboxHolder = NoThread
       THEN mailboxHolder' = Service /\ Goto(Service, "drain")
       ELSE UNCHANGED <<mailboxHolder, pc>>
    /\ UNCHANGED <<elist, acc, wkc, attributed, outcome, status, accesses, history>>

Next ==
    \/ \E t \in Clients : Access(t) \/ Call(t)
    \/ Tick \/ Drain(Service) \/ Return(Service)

Spec == Init /\ [][Next]_vars

\* A thread that has begun a call is scheduled, update_service() is called again and
\* again.  The clients may stop calling.
Fairness ==
    /\ \A t \in Clients : SF_vars(Call(t))
    /\ WF_vars(Tick) /\ WF_vars(Drain(Service)) /\ WF_vars(Return(Service))
FairSpec == Spec /\ Fairness

-----------------------------------------------------------------------------
(* The inductive invariant behind the properties below.                    *)

Labels == {"idle", "lock", "drain", "transfer", "attribute", "list", "finish", "result",
           "unlock"}
Accesses == [kind : AccessKinds, device : Devices, index : Indices \cup {NoIndex}, id : Nat]
Events == [kind : {"Abort", "Emergency", "MailboxLayerError", "ProtocolViolation",
                   "Timeout", "FoE"},
           device : Devices, index : Indices \cup {NoIndex}, access : Nat]

\* Types.
TypeOK ==
    /\ elist \in Seq(Events) /\ Len(elist) <= ListSize
    /\ mailboxHolder \in Threads \cup {NoThread}
    /\ pc \in [Threads -> Labels]
    /\ acc \in [Threads -> Accesses \cup {NoAccess}]
    /\ wkc \in [Threads -> {"positive", "zero", "negative"}]
    /\ attributed \in [Threads -> Events \cup {NoEvent}]
    /\ outcome \in [Threads -> {"none", "value", "failure", "thrown"}]
    /\ accesses \in Nat

\* A thread owns the mutex exactly while its access, or its drain, is under way.
LockOK == \A t \in Threads : pc[t] \in {"idle", "lock"} <=> mailboxHolder # t

\* What each thread has in its hands at each step.
StepsOK ==
    /\ pc[Service] \in {"idle", "drain", "unlock"} /\ acc[Service] = NoAccess
    /\ outcome[Service] = "none"
    /\ \A t \in Clients :
         /\ acc[t] = NoAccess <=> pc[t] = "idle"
         /\ pc[t] \in {"drain", "attribute", "finish", "result"} => acc[t].kind # "od"
         /\ pc[t] \in {"list", "unlock"} => acc[t].kind = "od"
         /\ outcome[t] # "none" <=> pc[t] \in {"result", "unlock"}
         /\ attributed[t] # NoEvent => pc[t] \in {"attribute", "finish", "result"}

\* An access that looks for its events finds only its own on the list.
EventsOwn ==
    \A t \in Clients :
        /\ pc[t] = "transfer" /\ acc[t].kind # "od" => elist = <<>>
        /\ pc[t] = "attribute" =>
             \A i \in 1..Len(elist) :
                elist[i].access = acc[t].id /\ elist[i].device = acc[t].device
        /\ attributed[t] # NoEvent =>
             /\ attributed[t].access = acc[t].id /\ attributed[t].device = acc[t].device
             /\ attributed[t].kind # "Emergency"

\* The result of an access without a positive working counter carries an event, so that
\* the code's "unknown reason" is never logged; for FoE it is the decoded code, "more
\* specific than anything the drain could have found".
FailureIsExplained ==
    \A t \in Clients : At(t, "result") /\ wkc[t] # "positive" =>
        /\ attributed[t] # NoEvent
        /\ acc[t].kind = "foe" => attributed[t].kind = FoeKind(wkc[t])

\* What the counters of mailbox_status_ and the history count, and that an event which
\* FinishFoe replaces has been counted as handed out before.
CountersOK ==
    /\ \A counts \in {status, pushed, dropped, synthesized, handedOut} :
         counts \in [Classes -> Nat]
    /\ \A t \in Clients :
         pc[t] \in {"attribute", "finish"} /\ attributed[t] # NoEvent =>
            handedOut[Class(attributed[t].kind)] > 0

OnList == PlusAll(Nothing, elist)

\* "everything else is logged and counted": an event is on the list, overwritten there,
\* counted once in mailbox_status_, or in the result of exactly one access, also when
\* a FoE error code replaces the event that was drained for the access before it.
EventsConserved ==
    \A c \in Classes :
        /\ handedOut[c] >= 0
        /\ status[c] + OnList[c] + dropped[c] + handedOut[c] = pushed[c] + synthesized[c]

\* The mutex, the steps of each access, the events on the list and the event attributed to
\* each access agree with each other at every moment: what an access finds on the shared
\* list is its own, although read_od() leaves events there and the service thread drains it.
AccessInv == TypeOK /\ LockOK /\ StepsOK /\ EventsOwn /\ FailureIsExplained

\* The same, and no event is lost or counted twice.
IInv == AccessInv /\ CountersOK /\ EventsConserved

\* The callers see the service of MailboxService: accesses are served one at a time, and
\* a caller gets a value and no event, or no value and one event of its own access, not
\* what an earlier access or read_od() has left on the shared list ("so the next access
\* starts clean"), or an exception, with which no event is lost.
Promise == INSTANCE MailboxService WITH
    Requests <- [kind : AccessKinds, device : Devices],
    NoRequest <- [kind |-> NoAccess.kind, device |-> NoAccess.device],
    request <- [t \in Clients |-> [kind |-> acc[t].kind, device |-> acc[t].device]],
    number <- [t \in Clients |-> acc[t].id],
    asked <- accesses,
    serving <- mailboxHolder,
    answer <- [t \in Clients |->
                 [outcome |-> outcome[t],
                  event |-> IF outcome[t] = "none" THEN NoEvent ELSE attributed[t]]]
ImplementsService == Promise!ServiceSpec

\* Under FairSpec the list is emptied again and again: an emergency comes to be counted
\* although no client ever accesses a mailbox again.
ListIsDrained == elist # <<>> ~> elist = <<>>
=============================================================================
