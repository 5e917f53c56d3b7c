# TLA+ models of duatic_ethercat_interface

`duatic_ethercat_interface` is a C++ EtherCAT master on top of SOEM.  An `EthercatBus` brings the
bus up, exchanges process data cyclically in a real-time (RT) thread, does the slow work in a service
thread, and serves mailbox accesses of any thread.  Most of what is difficult here is what two of
these threads do to each other; that is what the modules are about.

Paths are relative to `src/`; `soem_backend.cpp` is `src/src/internal/soem/soem_backend.cpp`.
`PROJECT.json` maps every definition to the lines it models.

## 1. Inventory

| Part | State | Operations | Hard behaviour |
|---|---|---|---|
| `EthercatBus` / `BackendImpl` (`ethercat_bus.hpp`, `soem_backend.cpp`) | `state_`, the port, `devices_`, activation timer, cached slave states, `pdo_update_mutex_`, `mailbox_mutex_`, `state_mutex_` | `initialize`, `startup`, `activate`, `shutdown`, `update_rt`, `update_service`, SDO, FoE, OD, register access, `change_device_state`, destructor | the service thread shuts the bus down on a timeout; checks of `state_` and their use; user hooks that throw or communicate; failures half-way |
| `SingleBusExecutor` (`executor.hpp`) | `spinning_`, two `jthread`s, error flags | `spin`, `stop` | joining in the right order, failures of one thread reaching the other, termination |
| `EthercatDevice` process data (`ethercat_device.hpp`, `ethercat_device.cpp`) | PDO buffers, device mutex, the IO map behind the bus's mutex | `set_/get_generic_rx_pdo`, `get_generic_tx_pdo`, `update_write`, `update_read`, bus-level PDO access | two mutexes, torn and stale data, lock order |
| Mailbox events (`mailbox.hpp`, `soem_backend.cpp` 1055-1154) | SOEM's error ring, `mailbox_status_` | drain, attribute, finish an access | events of one access blamed on another, failures without a reason, a full ring |
| Diagnostics (`bus_diagnostics.hpp`, `soem_backend.cpp` 779-811, 970-1052) | counters, slave states, port readings, round-robin index, `diagnostics_mutex_` | fast update (RT), slow update (service), `diagnostics()` | counters outside the mutex, `try_lock` in the RT thread, index bounds |
| `PrecisionUpdateRate`, `DCSyncController` | deadline, delay statistics, integral and error | `step`, `reset`, `update` | normalization of negative times, overruns, drift |
| `ObjectDictionary` (`object_dictionary.hpp`) | a vector of entries and two maps of pointers into it | constructors, assignments, moves, destructor, `at`, `has_index`, `has_name` | pointers after a copy or move, a copy that throws half-way, entries with one index or name |
| `ValueDiagnosticsWrapper` | a value or the event that explains its absence | construction, access, `transform` | that a caller never gets neither or both |
| `PriorityInheritingMutex`, `nic`, `realtime_utils`, `soem_context` | operating-system state | lock, system calls | - |
| types, exceptions, printing, demo, bus scanner | none of their own | - | - |

Interactions: the executor calls `update_rt()` and `update_service()` in its two threads and feeds the
DC correction `update_rt()` returns into `PrecisionUpdateRate::step()`.  `update_rt()` calls
`update_write`/`update_read` of each device, which call back into the bus.  Clients call a device,
which forwards to the bus through its `bus_` pointer.  Hooks are callbacks from the lifecycle calls
into user code, which may call the bus again.  All of them share `state_`, the port and the SOEM
context.  What makes each part correct is stated as the properties of its module (section 3).

## 2. Modules

| Module | Models | How state and actions correspond |
|---|---|---|
| `BusContract` | what an `EthercatBus` promises about its state and port | abstract specification, implemented by `SingleBusExecutor` and by `ThreadSafeCallers` |
| `BusLifecycle` | `BackendImpl` | one variable per member; a call is a chain of steps of its thread, `pc[t]`, cut where another thread can come in between in a way that matters: one iteration over `devices_`, one transfer, one critical section, a store of `state_`; loads of `state_` that follow each other without a call between them are one step |
| `SingleBusExecutor` | the executor over `BusLifecycle`, with main, RT, service and client threads | `spin`/`stop` as steps of the main thread; `spinning`, `stopAsked` (stop tokens), `running`, `failed` |
| `ThreadSafeCallers` | the bus without the executor: several callers of `update_rt()` and `update_service()` | reuses the steps of `BusLifecycle` |
| `PdoRegisters` | what the PDO accessors promise: buffers are registers, and a call takes effect in one step | abstract specification, implemented by `PdoExchange` |
| `PdoExchange` | PDO buffers, IO map and frames of a configured bus | every copy is lock, word 1, word 2, release; the data is the number of the write |
| `MailboxService` | what the mailbox functions and `ValueDiagnosticsWrapper` promise: one answer for each request, a value or an event of that request | abstract specification, implemented by `MailboxAccess` |
| `MailboxAccess` | accesses and the shared error list of a running bus | each access carries a number, each event the number of the access that caused it |
| `DiagnosticsBoard` | what `diagnostics()` promises of the slaves: a board that is copied in one step | abstract specification, implemented by `BusDiagnostics` |
| `BusDiagnostics` | `latest_diagnostics_` | the RT thread, the service thread and readers copy it step by step; the parts of a copy that cannot be told apart are one step |
| `IntervalTimer` | what `PrecisionUpdateRate` promises: an ideal timer in plain nanoseconds | abstract specification, implemented by `UpdateRate` |
| `UpdateRate` | `PrecisionUpdateRate`, `DCSyncController` and the loop of the executor that calls them | timespecs with a small second, C++'s `/` and `%` by their definition |
| `EntryTable` | what an `ObjectDictionary` promises: it is a value with two look-ups | abstract specification, implemented by `ObjectDictionary` |
| `ObjectDictionary` | the vectors and the pointer maps of a program's dictionaries | one action per special member, each of which builds on `Fills` (the vector) and `Rebuild` (`rebuild_lookup()`); a map leads from a key to a buffer and a position |
| `SingleBusExecutor_proofs`, `ThreadSafeCallers_proofs`, `PdoExchange_proofs`, `PdoRegisters_proofs`, `MailboxAccess_proofs`, `BusDiagnostics_proofs`, `UpdateRate_proofs`, `ObjectDictionary_proofs` | proofs about the module they extend | section 5 |
| `MC*` | what TLC instantiates | symmetry sets; the bounds are in the `.cfg` files |

Two places in `BusLifecycle` are coarser than the code.  A call that looks at the atomic `state_` several
times in a row (394-416, 172, 462, 471) looks once: what it does next is what it would do for the
state of one of those looks.  `ecx_close()` and the store of Shutdown are one step because they are in one
section under all three mutexes (433-436, and 407-410 in the other order): for whoever owns one of
the mutexes the two are never apart, and the callers that look at `state_` without one may see them apart
only in a way that `finding_device_io` and `finding_timeout_rt` already show to be unsafe.
An exception out of a device's update, also that of a PDO accessor which finds another state or
size (606-615, 624-633), ends `update_rt()` with an error (`UpdateThrows`).

SOEM, the slaves and the operating system are the environment: slaves follow a requested state in
their own time or drop out of OPERATIONAL, frames get lost, SOEM pushes what events it likes during a
transfer, `clock_nanosleep()` is late or is interrupted by a signal.  These definitions are marked `external` in the map.
Definitions whose comment starts with "Mutant:" are wrong variants of the definition after them; they
are no part of the specifications and show that a property notices the mistake.

## 3. Runs

Passing runs:

| Run | Instance | What it shows |
|---|---|---|
| `executor_clients` | one device, every option but the activation timeout, throwing and communicating hooks, a client with every device call | `IInv` (the inductive invariant), `MailboxIoOnOpenPort`, `BusIoOnOpenPort`, `RtUsesLiveBus`, the refinement `ImplementsContract` |
| `executor_liveness` | one device, timeout on, hooks communicate and do not throw, a mailbox client | `LifecycleIsExclusive`, `OperationalIsConfirmed`, `StopTerminates`, `ActivationResolves`, `ServiceFailureStopsRt`, `ShutdownCompletes` |
| `callers` | two devices, two `update_rt()` callers, one `update_service()` caller, timeout on | `IInv`, `OneFrameAtATime`, `NoTransferIsCutOff`, the refinement `ImplementsContract` |
| `pdo_exchange` | two devices, one application thread, one RT thread, two writes, one new frame | `IInv`, `NothingTorn`, `SentIsCurrent`, `ReadIsCurrent`, `LocksAreOrdered`, `RtReturns`, the refinement `ImplementsRegisters` |
| `mailbox_access` | two devices, two indices, two clients, two accesses of up to two events, a ring of two | `IInv`, `EventsConserved`, `FailureIsExplained`, `ListIsDrained`, the refinement `ImplementsService` |
| `diagnostics` | two slaves, one reader, two cycles, one of them answered in part, not at all or not sent, all options, forced updates, a shutdown | `IInv`, `CountersAreExact`, the refinement `ImplementsBoard`, `RtNeverWaits`, `PortsAreRefreshed` |
| `update_rate` | a second of 10 ns, period 5, early stop 2, jitter 3, updates of 0 to 16 ns, four steps | `IInv`, `DeadlineIsAccounted`, `DeadlineIsAhead`, `SteersToNearestBoundary`, the refinement `ImplementsTimer` |
| `object_dictionary` | two dictionaries, three buffers, two indices, two names, lists of up to two entries | `IInv`, `PointersAreOwn`, the refinement `ImplementsTable` |

Each module has one `TypeOK`, which is part of its `IInv`, the inductive invariant of its proofs; every
property of a run has a mutant in `PROJECT.json` that TLC refutes.

Runs that TLC refutes, each one a disagreement between the code and its documentation:

| Run | Property | What happens |
|---|---|---|
| `finding_timeout_rt` | `RtUsesLiveBus` | with the activation timeout enabled (the default) `update_service()` shuts the bus down inside `update_rt()` of the other thread |
| `finding_device_io` | `DeviceIoOnOpenPort` | register access checks the state without a lock, `read_od()` before it takes the mutex, and both transfer on a closed port |
| `finding_destructor` | `DestroyedBusIsShutdown` | `~EthercatBus()` detaches the devices before the shutdown hooks that use them; the exception is swallowed and the bus stays in ShuttingDown |
| `finding_snapshot` | `SnapshotIsConsistent` | a snapshot with more failed frames than frames, or an AL status code of another state |

### Bounds

One or two devices suffice in the lifecycle: the loops over devices are per device, and two are
needed only where one device lets a property pass that another breaks (`OperationalIsConfirmed`, which
`callers` checks with two, as a consequence of its `IInv`).  The lifecycle modules have no counters.  In `PdoExchange` two words make a copy divisible and two
writes make one value stale; the safety properties also hold with two application and two RT threads,
which takes too long for a regular run.  In `MailboxAccess` two accesses are one to leave events
behind and one that could be blamed, two events in a ring of two are overwritten when a third comes.
`BusDiagnostics` needs two slaves for the round robin and two cycles for a snapshot that mixes them;
`MaxCycles` ends only the RT thread, `MaxFailures` lets one of its two cycles fail, each way it can, before or
after a complete one, one update is forced at any time before or after the bus runs, and a slave's
state and ports change once.  In `UpdateRate` a
second of ten nanoseconds makes every carry and borrow of a timespec happen within a few steps; an
update of 16 ns misses three deadlines at once.  `MaxSteps` ends the behaviour, which is why this run,
whose loop really ends with `stop()`, does not check deadlock; all other runs do.  In `ObjectDictionary` two entries can share an index,
a name, both or neither, a copy of two entries fails before, between and after them, and with three
buffers a new buffer may be one that another dictionary had before.

### Fairness

Safety runs assume none, `pdo_exchange`, `mailbox_access`, `diagnostics` and `executor_liveness` do:
- a thread inside a call is scheduled (weak fairness), which preemptive scheduling gives;
- a thread that waits for a mutex gets it if it is free again and again (strong fairness).  POSIX does
  not promise this literally; critical sections here are short and their owners do not spin on them;
- the service loop comes round again (its thread sleeps a fixed period between calls), time passes.
Nothing makes an application call, the main thread stop, a slave move, or a frame arrive.

`RtNeverWaits` is stated with `ENABLED` and needs no fairness: whoever holds the mutex, the RT thread
has a next step.

## 4. Known deviations and limits of the code

Recorded while modelling, beside the findings above:
- A failed `initialize()` may leave the port open: `shutdown()` from PreInit only marks the bus
  (`soem_backend.cpp` 394-400).  `BusContract!AbandonPreInit` allows it, so that `ImplementsContract` does
  not notice this leak; no documentation promises otherwise.
- A pre-shutdown hook that throws leaves the bus in ShuttingDown, and another `shutdown()` does not
  get it out; `ShutdownCompletes` is checked with hooks that do not throw.  With `HooksMayThrow = TRUE` in
  `executor_liveness.cfg` TLC refutes it.
- `on_post_activate` runs while devices are in SAFE_OP; its comment says operational (`ethercat_device.hpp` 110).
- `is_spinning()` stays true after the RT thread has ended with an error (`executor.hpp` 227).
- With every diagnostics option off the service thread ends once the bus is Operational, and
  `link_up` is not refreshed every tick as `bus_diagnostics.hpp` 180-187 says.
- `change_device_state()` overwrites the cached state the service thread verifies; `OperationalConfirmed`
  assumes clients that do not call it.
- Two callers of `update_service()`, documented as thread safe, overwrite the cached states each other
  verifies and advance the diagnostics index without a lock.  With two of them TLC refutes
  `OperationalIsConfirmed`, and `ImplementsContract` too: one promotes the bus that the other, whose
  activation timer has expired, is shutting down.
- An abort handed out with a result is not counted in `mailbox_aborts`, and a failed FoE access may
  count two events; `bus_diagnostics.hpp` 208 speaks of cumulative event counters.
- `frames_sent` counts what is not sent: a forced update, which sends no process data and counts also
  with `pdo_diagnostics` off (`soem_backend.cpp` 794), and a cycle whose `ecx_send_processdata()` failed
  (882-884, still counted at 984).  The comment at 983 says "how many frames we actually sent so far (PDO
  only)", `bus_diagnostics.hpp` 195 "sent by the master", 189 "only incremented while `pdo_diagnostics` is
  enabled".  `FramesSentAreSent` of `BusDiagnostics` states this; TLC refutes it as the only `INVARIANT` of
  `diagnostics.cfg` with one forced update.  `CountersAreExact`, which is checked, does not speak of
  `frames_sent` once a frame was not sent or an update forced.
- The service thread only tries `mailbox_mutex_` (917).  Nothing keeps clients that never pause, or one
  `read_od()` after the other, from starving it, and the error list then overflows; `ListIsDrained`
  is checked where accesses come to an end.
- A frame that some slaves did not answer is not told from a complete one in the IO map: `update_read()`
  then takes over what is there.  `PdoExchange` models it as a frame with new inputs.
- The executor's update rate starts at its construction; the time until `spin()` is reported as a
  missed deadline.
- `dc_cycle_time` is the period even without distributed clocks and defaults to zero; with
  distributed clocks a zero cycle time divides by zero.  `UpdateRate` assumes a positive one.

## 5. Proofs

Every theorem holds for all values of its module's constants, bounds included, that satisfy the named
assumptions of the module.

`SingleBusExecutor_proofs` proves, for any number of devices and clients and any options:

| Theorem | Statement | Assumption beyond the module's |
|---|---|---|
| `IInvHolds` | `IInv` is invariant | - |
| `TypeCorrect` | `TypeOK` | - |
| `MailboxSafe` | no mailbox transfer finds a closed port | - |
| `BusIoSafe` | bring-up, shutdown and service updates use an open port | - |
| `TransfersComplete` | `NoTransferIsCutOff`: closing the port cuts off no frame and no mailbox transfer | - |
| `NoDeadlock` | `NobodyWaitsInACircle`: no circle of threads waits for mutexes and joins | - |
| `LifecycleExclusive` | no two lifecycle operations at once | - |
| `ContractImplemented` | the composed system implements `BusContract` | - |
| `RtSafeUntilTimeout` | `RtUsesLiveBusUntilTimeout`: `update_rt()` works on a live bus unless the activation has timed out | - |
| `RtSafeWithoutTimeout` | `update_rt()` works on a live bus | `~TimeoutEnabled` |
| `OperationalConfirmed` | Operational means every device has been OPERATIONAL | clients do not call `change_device_state()` |

The argument.  None of the safety properties is inductive: that a transfer finds the port open needs
to know who may close it.  `IInv` adds, beside types, the roles of the threads (`RolesOK`), who owns a
mutex where (`LocksOK`), that workers run only while the main thread spins or joins them
(`ThreadsOK`), the bus state at each label (`StateAtLabel`), and that the port is open whenever the
state says so (`PortOK`).  A mailbox transfer is then safe because closing the port requires
`mailbox_mutex_`; the lifecycle is exclusive because a shutdown of the main thread follows the joins.
`TransfersComplete` looks at the port from the other side: a frame is exchanged under
`pdo_update_mutex_`, a mailbox transfer under `mailbox_mutex_`, and the two steps of `shutdown()` that
close the port need both; `NextClosesUnderLocks` shows that nothing else closes it.  This does not follow
from the invariants about an open port, which a close in the middle of a transfer could satisfy.
`NoDeadlock` is about every pair of threads: a thread awaits the owner of a mutex it needs
(`LockOwnersAwaitedBy`) or the worker `stop()` joins (`AwaitedBy`).  Owners wait for nobody, as no critical
section takes a second mutex, and only the main thread joins.  TLC finds a state in which all threads
are stuck on small instances; the theorem excludes a circle among some of many clients.  No run lists
it: TLC has checked it on the instances of `executor_clients` and `executor_liveness`.

There is one lemma per group of steps that can disturb `IInv` (`ShutdownPreservesIInv`,
`LifecyclePreservesIInv`, ...), and one action lemma for the refinement, whose mapping is the
identity on `busState` and `port`.  `RtInv` and `ConfirmInv` are proved on top of `IInv`.  `RtInv` is kept by
every step until the activation has timed out, and the timer starts anew only when no worker runs
(`RestartsWithoutWorkers`): the activation timeout, which `finding_timeout_rt` is about, is the only
reason why `update_rt()` may find a dead bus.  TLC has checked `RtUsesLiveBusUntilTimeout` on the
instance of `executor_liveness`.

`ThreadSafeCallers_proofs` proves, for any number of devices and callers:

| Theorem | Statement | Assumption beyond the module's |
|---|---|---|
| `OneFrame` | `OneFrameAtATime`: no two threads exchange a frame at once | - |
| `IInvHolds` | `IInv` is invariant | `OneServiceCaller` |
| `Confirmed` | `OperationalIsConfirmed` | `OneServiceCaller` |
| `ContractImplemented` | `ImplementsContract`: the bus implements `BusContract` without the executor, too | `OneServiceCaller` |
| `TransfersComplete` | `NoTransferIsCutOff`: a shutdown, also by the activation timeout, cuts off no frame | - |
| `BusIoSafe` | `BusIoOnOpenPort`: bring-up, shutdown and service updates use an open port | `OneServiceCaller` |

The proof has three layers.  `OneFrame` and `TransfersComplete` need types, roles and the owner of the
mutex only (`FrameInv`).
Confirmation needs, beside them, that no service update runs while the bus is brought up
(`BringUpIsAlone`) and what the cached states say at each step of the verification (`ConfirmOK`); this
is `ConfirmInv`.  The contract and the port need the bus state a thread relies on at each of its steps
(`StateAtLabel`) and that the port is open whenever that state says so (`PortOK`); this is `WireInv`.
`OneServiceCaller` comes in because a second caller overwrites the cached states the first one is
about to verify, or shuts the bus down under it; TLC refutes both properties for two (section 4).
What the executor excludes by joining its workers is excluded here by the bus state alone: an
`update_service()` gets beyond its check only when no lifecycle call is under way, and no other thread
can then change the state.  `update_rt()` is not part of `BusIoSafe`, as the activation timeout closes
the port under it (`finding_timeout_rt`), and no run lists `BusIoOnOpenPort` of this module: TLC has
checked it on the instance of `callers`.

`PdoExchange_proofs` and `PdoRegisters_proofs` prove, for any number of devices, application threads and
`update_rt()` callers (at least one device):

| Theorem | Statement |
|---|---|
| `WholeInvHolds` | `WholeInv`, the first part of `IInv`, is invariant |
| `PdosAreWhole` | `NothingTorn`: no frame and no reader gets words of two writes |
| `NoLockCycle` | `LocksAreOrdered`: the device's mutex before the bus's, whose owner waits for neither |
| `PdoIInvHolds` | `IInv` is invariant |
| `SentCurrent` | `SentIsCurrent`: a frame carries what was set before its `update_rt()` began, or newer |
| `ReadCurrent` | `ReadIsCurrent`: a getter returns nothing older than what had been set or received when it was called |
| `NeverOlder` | `OnlyGetsNewer`: device buffers and inputs never go back to an older PDO |
| `RegistersImplemented` | `ImplementsRegisters`: every step is a step of `PdoRegisters` or does not show |

`NothingTorn` speaks of the moments of the frame and of the return only; `WholeInv` adds who is torn in
between: a PDO is torn only while its writer, who owns the mutex that guards it, is between its words,
and the word it has copied is the one of its source.  The two facts that carry the proof are that two
threads that copy from or to the same place are one (`Exclusive`: every pair of operations on a buffer
shares a mutex, although no single mutex covers all buffers) and that what a thread copies from is
whole (`SourceIsWhole`).  Steps that copy nothing share one lemma (`QuietStep`).

How old a PDO is depends on all copies on its way, and the mutexes are released between them.
`CurrentInv`, the second part of `IInv`, therefore says for each word where on the way it is at least how
new: a write in the hands of its caller is newer than every one that has returned (`WritersOK`), the
outputs are newer than the floor of each frame whose loop has passed them (`OutputsOK`), the inputs as
new as the frames that have been delivered (`InputsOK`).  The third part, `BuffersOK`, adds that a
`set_rx_pdo()` that copies has a newer PDO than the buffer; the action property `OnlyGetsNewer` is then a
consequence of three copies, into the buffer, into the inputs and out of them.  No run lists that
property, as it says something only where two threads write to one device: TLC has checked it on one
device with two application threads, and with two callers of `update_rt()`.  The refinement maps a buffer in which a copy
is half-way to the PDO it had before: the last word is the moment a call takes effect.  That this
mapping is well-defined is `WholeInv` again; `LastWordsTell` shows that it yields the last word, twice.

`MailboxAccess_proofs` proves, for any devices, indices and clients, any size of the ring and any number of
events:

| Theorem | Statement |
|---|---|
| `IInvHolds` | `IInv` is invariant |
| `Conserved` | `EventsConserved`: no event is lost but by overwriting, or counted twice |
| `Explained` | `FailureIsExplained`: who gets no value gets the reason |
| `ServiceImplemented` | `ImplementsService`: callers see `MailboxService` |

The heart of it is `EventsOwn`: the list is empty when an SDO or FoE access begins its transfer, because
it has drained it itself under the mutex, and whatever is there until it has been drained again carries
the number of that access.  `read_od()` leaves its events behind and the service thread drains
under the same mutex, so that neither comes in between (`LockOK`, `StepsOK`).  `ImplementsService`
says more than a property about the events: a caller gets one answer, a value without an event or an
event of its own access and device without a value.  This much is `AccessInv`, the first part of `IInv`.

The other part, `CountersOK` and `EventsConserved`, is about numbers: the events of a class on the list,
overwritten there, counted and handed out add up to those pushed and synthesized.  That is inductive
with one addition: an event an access still holds has been counted as handed out, so that a FoE
error code may take its place.  How many events of a class a list holds is the cardinality of a set
of positions (`OfClass`), and what a step does to it is proved without induction, for a list of any
length: a concatenation has the positions of both parts, the second ones shifted (`CountConcat`), and
taking an event off the list (`CountTail`) and pushing onto a full ring (`CountPush`) undo a concatenation.

`BusDiagnostics_proofs` proves, for any number of slaves, readers and cycles:

| Theorem | Statement |
|---|---|
| `IInvHolds` | `IInv` is invariant |
| `CountersExact` | `CountersAreExact`: `frames_lost` and `wkc_mismatches` are what the cycles so far add up to, and so is `frames_sent` if all were sent and no update was forced |
| `SelectedSlave` | `SelectedSlaveExists`: the round-robin index is one of a slave |
| `OneCycle` | `SlavesAreOfOneCycle`: the slaves of a snapshot were refreshed by one cycle |
| `BoardImplemented` | `ImplementsBoard`: every step is a step of `DiagnosticsBoard` or does not show |

`IInv` adds at which steps the counters lag behind by the cycle in progress (`CountersOK`), which slaves of
the structure a writer under the mutex has refreshed (`SlavesOK`), and that what a reader has copied
so far is what is there until it gives the mutex back (`CopiesOK`).

`ImplementsBoard` says of the slaves what "a consistent, point-in-time view" means, and all that
`diagnostics()` keeps of it (`finding_snapshot` is about the rest): the copy is the board of one moment
between call and return, a later copy is never of an earlier cycle, and a reading that was posted before
the call is in it.  The moments are the last ones: the cycle counts when the last slave has it, a
reading with its second word, a copy with its last slave.  That the cycle of the board never goes back
is `CyclesOK`: no slave has the cycle of the RT thread before that has come to it, also when it gave up
on the mutex in the cycles before.  `SlavesAreOfOneCycle` is a part of `IInv`, and weaker: it would hold
for copies of a board that nobody updates.

`UpdateRate_proofs` proves, for every period, length of a second, gains, jitter and offset:

| Theorem | Statement |
|---|---|
| `IInvHolds` | `IInv` is invariant |
| `RateTypeCorrect` | `TypeOK`: every timespec is well-formed |
| `NoDrift` | `DeadlineIsAccounted` |
| `NeverBehind` | `DeadlineIsAhead` |
| `OnTime` | `WakesOnTime` |
| `NearestBoundary` | `SteersToNearestBoundary` |
| `TimerImplemented` | `ImplementsTimer`: every step is a step of `IntervalTimer` or does not show |

The lemmas `AddNsAdds`, `DiffNsSubtracts` and `SmallerThanCompares` show that the three operations on
timespecs, with C++'s truncating division, are addition, subtraction and comparison of a number of
nanoseconds.  The inductive invariant `IInv` then adds where the clock is relative to the deadline
at each step (`ClockAndDeadline`), and the proofs are linear arithmetic.  `ImplementsTimer` reads a timespec
as its number of nanoseconds (`Ns`): then `step()` is one of two steps of the ideal timer (`StepRefines`),
the two stages of the sleep are a sleep and its end is on time (`SleepRefines`), and `reset()` is a new
start (`WorkRefines`).  `WakesOnTime` is what the ideal timer says of its waking up, and no run lists it any
more.  That the distributed clock is
never behind its offset is an assumption (`DcAssumption`): with C++'s remainder the error of a negative
time is not the nearest one.

`ObjectDictionary_proofs` proves, for any number of dictionaries, buffers, indices and names, and lists of any
length:

| Theorem | Statement |
|---|---|
| `DictionaryIInvHolds` | `IInv` is invariant |
| `PointersOwn` | `PointersAreOwn`: no look-up follows a pointer out of the dictionary's own vector |
| `TableImplemented` | `ImplementsTable`: dictionaries behave as the values of `EntryTable` |

That pointers stay inside is not inductive: a freed buffer could be another dictionary's.  `IInv` adds that
every buffer has one owner (`BuffersOwned`) and that the maps are those `rebuild_lookup()` would make
unless an assignment threw (`MapsRebuilt`).  A step touches one dictionary, or two if it is a move, and
the others share one lemma (`UntouchedFacts`); the copies, which differ in their maps only, share
`FillsFacts`, `MadeMap` and `ReplacedPreservesIInv`.  That a key has a first entry (`FirstExists`) is the
well-foundedness of the natural numbers.

Only model-checked: liveness (`StopTerminates`, `ActivationResolves`, `ServiceFailureStopsRt`,
`ShutdownCompletes`, `RtReturns`, `ListIsDrained`, `PortsAreRefreshed`) and `RtNeverWaits`, which is stated
with `ENABLED`: the prover reaches neither (`FairSpec` and the properties stated with `<>` or `~>` need fairness, of which no
theorem speaks).  Every other property of a passing run is proved.  There are
no recursive definitions.

## 6. Not modelled

Payloads, names, descriptions and logging; topology captured at bring-up; time stamps; `link_up`;
timing statistics of the executor (averages of doubles); `scan()` and getters; the destructor of the
executor; the exceptions of the PDO accessors in
`PdoExchange`, which copy nothing; system calls of `nic` and `realtime_utils`; priority inheritance as a
scheduling effect; the vendored SOEM.  The demo and the scanner are sequential programs over the
modelled calls.

The modules abstract what their properties do not tell apart: of an entry of an object dictionary the
index and the name; of a failed memory allocation that it may happen at any copy, not why.
An entry is copied up to its index, its name, or
completely; a throw after that leaves the same state for the look-ups.
Constructors of `ObjectDictionary` that throw leave no object behind and are not steps of the model.

## 7. Plan

Order of the modules, the most important behaviour first: `BusLifecycle`, `SingleBusExecutor` with
`BusContract`, `ThreadSafeCallers`, `PdoExchange` with `PdoRegisters`, `MailboxAccess` with
`MailboxService`, `BusDiagnostics` with `DiagnosticsBoard`, `UpdateRate` with `IntervalTimer`,
`ObjectDictionary` with `EntryTable`.  All are done; all have their inductive invariants proved, and all
are proved to implement their abstract specification.  What is left:
1. two readers in `BusDiagnostics`, several `update_rt()` callers and their counters;
2. the time stamps and `link_up` of the diagnostics, with the periods of the service thread;
3. a start of the accessors on a bus that is being configured (`on_pdo_configured()` resizes the buffers
   without the device's mutex).
