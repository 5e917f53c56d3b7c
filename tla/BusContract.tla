---------------------------- MODULE BusContract ----------------------------
(***************************************************************************)
(* What an EthercatBus promises its users, whatever threads drive it: it   *)
(* walks once through the bring-up states, may leave them only for         *)
(* ShuttingDown and Shutdown, never comes back from Shutdown, and its      *)
(* network port is open from before it is Initialized until the section of *)
(* shutdown(), under all three mutexes, that closes it and makes the bus   *)
(* Shutdown.  That section is one step here; a thread that looks at the    *)
(* state without a mutex may see its two effects apart.                    *)
(* SingleBusExecutor and ThreadSafeCallers implement this contract.        *)
(***************************************************************************)

VARIABLES
    busState,  \* BackendImpl::state_
    port       \* whether the SOEM context holds an open network interface

BusStates == {"PreInit", "Initialized", "Configured", "Activated",
              "Operational", "ShuttingDown", "Shutdown"}

UpStates == {"Configured", "Activated", "Operational"}

contractVars == <<busState, port>>

ContractInit ==
    /\ busState = "PreInit"
    /\ port = "closed"

OpenPort ==
    /\ busState = "PreInit"
    /\ port' = "open"
    /\ UNCHANGED busState

\* One bring-up step: the port has to be open and stays open.
Raise(from, to) ==
    /\ busState = from
    /\ port = "open"
    /\ busState' = to
    /\ UNCHANGED port

BringUp ==
    \/ Raise("PreInit", "Initialized")
    \/ Raise("Initialized", "Configured")
    \/ Raise("Configured", "Activated")
    \/ Raise("Activated", "Operational")

BeginShutdown ==
    /\ busState \in UpStates
    /\ busState' = "ShuttingDown"
    /\ UNCHANGED port

\* A bus that left PreInit closes its port in the step that makes it Shutdown.
FinishShutdown ==
    /\ busState \in {"Initialized", "ShuttingDown"}
    /\ busState' = "Shutdown"
    /\ port' = "closed"

\* A bus that was never initialized is only marked: its port is left alone, also when an
\* initialize() that failed has opened it.
AbandonPreInit ==
    /\ busState = "PreInit"
    /\ busState' = "Shutdown"
    /\ UNCHANGED port

ContractNext ==
    OpenPort \/ BringUp \/ BeginShutdown \/ FinishShutdown \/ AbandonPreInit

ContractSpec == ContractInit /\ [][ContractNext]_contractVars
=============================================================================
