--------------------------- MODULE MailboxService ---------------------------
(***************************************************************************)
(* What the mailbox functions of EthercatBus promise their callers: one    *)
(* request is served at a time, and each gets exactly one answer, which is *)
(* a value, or a failure with the event that explains it, or an exception. *)
(* A value comes without an event, and an event is one of this request, of *)
(* the device it was sent to.                                              *)
(***************************************************************************)
EXTENDS Naturals

CONSTANTS
    Clients,    \* threads that make requests
    Requests,   \* requests: records with a kind and a device
    NoRequest,  \* of a client that waits for nothing
    NoEvent,    \* of an answer without an event
    Service,    \* the thread that empties the error list between the requests
    NoThread    \* nobody is served

VARIABLES
    request,  \* the request of each client
    number,   \* the number of each client's request
    asked,    \* number of requests so far
    serving,  \* the client that is served, or Service
    answer    \* of each client that has got one: the outcome and the event

serviceVars == <<request, number, asked, serving, answer>>

NoAnswer == [outcome |-> "none", event |-> NoEvent]

ServiceInit ==
    /\ request = [t \in Clients |-> NoRequest]
    /\ number = [t \in Clients |-> 0]
    /\ asked = 0
    /\ serving = NoThread
    /\ answer = [t \in Clients |-> NoAnswer]

\* a answers request r, the n-th.  A read has an exception for a reply of another size,
\* a read of the object dictionary for every failure.
Answers(a, r, n) ==
    \/ a.outcome = "value" /\ a.event = NoEvent
    \/ a.outcome = "thrown" /\ a.event = NoEvent /\ r.kind \in {"read", "od"}
    \/ /\ a.outcome = "failure" /\ r.kind # "od"
       /\ a.event.access = n
       /\ a.event.device = r.device
       /\ a.event.kind # "Emergency"

Ask(t, r) ==
    /\ request[t] = NoRequest
    /\ request' = [request EXCEPT ![t] = r]
    /\ asked' = asked + 1
    /\ number' = [number EXCEPT ![t] = asked + 1]
    /\ UNCHANGED <<serving, answer>>

Serve(t) ==
    /\ request[t] # NoRequest
    /\ serving = NoThread
    /\ serving' = t
    /\ UNCHANGED <<request, number, asked, answer>>

Answer(t) ==
    /\ serving = t
    /\ answer[t] = NoAnswer
    /\ Answers(answer'[t], request[t], number[t])
    /\ answer' = [answer EXCEPT ![t] = answer'[t]]
    /\ UNCHANGED <<request, number, asked, serving>>

\* The client takes its answer, and the next may be served.
Take(t) ==
    /\ serving = t
    /\ answer[t] # NoAnswer
    /\ answer' = [answer EXCEPT ![t] = NoAnswer]
    /\ request' = [request EXCEPT ![t] = NoRequest]
    /\ number' = [number EXCEPT ![t] = 0]
    /\ serving' = NoThread
    /\ UNCHANGED asked

Maintain ==
    /\ \/ serving = NoThread /\ serving' = Service
       \/ serving = Service /\ serving' = NoThread
    /\ UNCHANGED <<request, number, asked, answer>>

ServiceNext ==
    \/ \E t \in Clients : Serve(t) \/ Answer(t) \/ Take(t) \/ \E r \in Requests : Ask(t, r)
    \/ Maintain

ServiceSpec == ServiceInit /\ [][ServiceNext]_serviceVars
=============================================================================
