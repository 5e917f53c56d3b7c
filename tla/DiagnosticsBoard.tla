-------------------------- MODULE DiagnosticsBoard --------------------------
(***************************************************************************)
(* What diagnostics() promises of the slaves, without a mutex: a board is  *)
(* brought up to date in one step each for the PDO cycle of all slaves and *)
(* for the ports of one slave, and a reader copies all of it in one step   *)
(* between its call and its return.  BusDiagnostics implements this.       *)
(***************************************************************************)
EXTENDS Naturals

CONSTANTS
    Slaves,   \* the slaves on the board
    Readers,  \* threads that call diagnostics()
    Readings  \* what can be read from the ports of a slave

VARIABLES
    cycle,   \* the PDO cycle of the slaves
    ports,   \* the last reading of the ports of each slave
    asking,  \* readers between call and return
    copy     \* what each of them has copied, empty before it has

boardVars == <<cycle, ports, asking, copy>>

View == [s \in Slaves |-> [cycle |-> cycle, ports |-> ports[s]]]
NoCopy == <<>>

BoardInit ==
    /\ cycle = 0
    /\ \E r \in Readings : ports = [s \in Slaves |-> r]
    /\ asking = {}
    /\ copy = [t \in Readers |-> NoCopy]

\* The states of all slaves are those of a later cycle; cycles may be left out.
Refresh ==
    /\ cycle' \in Nat /\ cycle' > cycle
    /\ UNCHANGED <<ports, asking, copy>>

Post ==
    /\ \E s \in Slaves, r \in Readings : ports' = [ports EXCEPT ![s] = r]
    /\ UNCHANGED <<cycle, asking, copy>>

\* A forced update may do both, while nobody asks.
Force ==
    /\ asking = {}
    /\ cycle' \in Nat /\ cycle' >= cycle
    /\ \E s \in Slaves, r \in Readings : ports' = [ports EXCEPT ![s] = r]
    /\ UNCHANGED <<asking, copy>>

Ask(t) ==
    /\ t \notin asking /\ asking' = asking \cup {t}
    /\ UNCHANGED <<cycle, ports, copy>>

Take(t) ==
    /\ t \in asking /\ copy[t] = NoCopy
    /\ copy' = [copy EXCEPT ![t] = View]
    /\ UNCHANGED <<cycle, ports, asking>>

Leave(t) ==
    /\ t \in asking /\ copy[t] # NoCopy
    /\ asking' = asking \ {t}
    /\ copy' = [copy EXCEPT ![t] = NoCopy]
    /\ UNCHANGED <<cycle, ports>>

BoardNext == Refresh \/ Post \/ Force \/ \E t \in Readers : Ask(t) \/ Take(t) \/ Leave(t)

BoardSpec == BoardInit /\ [][BoardNext]_boardVars
=============================================================================
