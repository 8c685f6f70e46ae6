# A formal model of the ERIKA kernel for the BCM8953x switch

The repository is the ERIKA Enterprise OSEK/VDX kernel (`src/erika-sdk/pkg/kernel/oo`)
with its port to the Cortex-R of the Broadcom BCM8953x Ethernet switch, the drivers
and utilities of that product (`src/erika-sdk/contrib/bcm`,
`src/erika-sdk/pkg/mcu/bcm`), and one generated configuration
(`src/avb/applications/avb-switch-tcm/Debug_bcm89530c1/eecfg.c`). The headers are not
part of the repository: what the kernel's inline functions and macros do
(`EE_oo_preemption_point`, `EE_oo_reschedule_on_block`, the delta-queue insertion,
...) is modelled from how `src/` uses them and marked external in `PROJECT.json`.

## Inventory

| part | state | operations | interacts with |
|---|---|---|---|
| task services and scheduler (`ee_activate`, `ee_terminat`, `ee_chaintas`, `ee_schedule`, `ee_force_schedule`, `ee_thendin`, `ee_tnterm`, `ee_irqendin`, `ee_startos`, `ee_shtdown`) | status, activations left, chained task, system ceiling, stack of running and preempted tasks | ActivateTask, TerminateTask, ChainTask, Schedule, ForceSchedule, end of a body, StartOS, ShutdownOS, interrupt exit | ready queue, context switch, every other service through the preemption point |
| events (`ee_evset`, `ee_evwait`, `ee_evclear`, `ee_evget`) | active and awaited masks, "was waiting" | SetEvent, WaitEvent, ClearEvent, GetEvent | scheduler; called by ISRs, alarms, drivers |
| resources (`ee_lockres`, `ee_ulockres`, `ee_ulockallres`) | locked flag, saved ceiling, list of held resources | GetResource, ReleaseResource, release at a missing end | system ceiling |
| ready queue and stack (`ee_rq_*`, `ee_lookup`) | pool of pairs, heads, tails, mask, free list, stack links | query first, insert, move first to the stack | scheduler only |
| counters and alarms (`ee_al*`, `ee_get*value`) | counter value, delta queue, cycle, in-use flag | SetRel/SetAbs/Cancel/GetAlarm, the tick | timer ISR; actions activate tasks and set events |
| semaphores (`ee_sem*`) | count, queue of waiters through `EE_th_next` | WaitSem, TryWaitSem, PostSem | scheduler, UART and log |
| context switch and interrupt entry (`cpu/cortex_rx`) | stack pointers, nesting level | `EE_hal_*` | scheduler |
| Ethernet driver (`eth.c`, `vic.c` for its interrupt line) | fragment pools, transmit and receive ring with the indices of software and DMA, link state, the received queue | alloc, send, ring clean, link up and down; receive, process, free, overflow; the ISR and its task | a semaphore, a resource, interrupt suspension, an event |
| sleep and time (`delay.c`, `bcm_timer.c`, `timer_sp804.c`) | ordered list of sleepers, 64-bit time, one-shot and periodic timer | nsleep, one-shot ISR, tick ISR, get_time_ns | events |
| UART (`uart_pl011.c`) | two rings, the device's registers, SemRx | uart_putc, uart_getc, ISR | a semaphore |
| management commands (`bcm8953x_ipc.c`) | doorbell, the command register shared with the host | host queues, ISR, command loop | an event, the host |
| heap (`malloc.c`) | list of free chunks | init, malloc, free, atomic variants | a resource or interrupt masking |
| flash and updater (`flash_updater.c`, `flash.c`, `qspi_flash.c`, `qspi.c`) | flash content, valid bits of the copies, how far an update is | init, update, read, erase, program | the partition table manager |
| partition table manager (`ptm.c`) | the table in memory, the copies in flash | find the table, load an image | flash reads |
| log (`log.c`) | ring buffer | write, dump | a semaphore |
| stack status, `shell.c`, `print.c`, `gpio.c`, board, MPU, start-up, Cortex-M port | registers, tables | I/O, formatting | - |

What is hard here: the services are called by tasks and by ISRs in any order, and a
task can be preempted at every instruction outside a service; the scheduler's one
truth (who runs next) is spread over five structures updated by different functions
(status, stack, queues, ceiling, activations); the ceiling is pieced together from
bits set and cleared in different services and from values saved long before;
ready-queue insertion has no overflow test; Schedule and WaitEvent are left in the
middle and finished much later. Stack and semaphores link tasks through one array. The
drivers share rings with a DMA or a device that moves at any moment, and each stops by
itself at the end of its ring and must be restarted by whoever notices, through one
register that the DMAs change as well; interrupts are
masked by the ISR and enabled again by a task, so a cause that comes between has to be
found later. The flash must stay readable through a power failure at any operation,
and its readers get short reads and stale buffers. `PROJECT.json` lists these hazards
at their lines, with the property that covers each.

## Modules

| module | models | checked by |
|---|---|---|
| `OsekKernel` | tasks, scheduler, events, resources, interrupts, start and shutdown | `KernelEvents`, `KernelResources`, `KernelLive`, `KernelStaleChain`, `KernelForceSchedule` through `MCOsekKernel` |
| `OsekKernelProofs` | type correctness of `OsekKernel`; its system ceiling, resources and preemption | TLAPS |
| `OsekStatusProofs` | where each task of `OsekKernel` is: status, stack, queues, activations, events | TLAPS |
| `ReadyFifo` | abstract: a FIFO per level and a stack | refined by `ReadyQueue` |
| `ReadyQueue` | the linked pairs, mask and lookup of `ee_rq_*.c`, the stack links | `ReadyAndAlarms` through `MCReadyAndAlarms` |
| `ReadyQueueProofs` | the invariants of `ReadyQueue` and its refinement of `ReadyFifo` | TLAPS |
| `Links` | lists kept as links in an array, read as sequences | used by `ReadyQueue` and `Semaphores` |
| `AlarmTimes` | abstract: ticks left for each alarm | refined by `CounterAlarms` |
| `CounterAlarms` | the delta queue, the tick and the alarm services | `ReadyAndAlarms` through `MCReadyAndAlarms`, `CounterAlarmsHook` through `MCCounterAlarms` |
| `CounterAlarmsProofs` | the invariants of `CounterAlarms`, its refinement of `AlarmTimes`, and the times asked for | TLAPS |
| `FifoSemaphore` | abstract: bounded counts and waiters in order of arrival | refined by `Semaphores` |
| `Semaphores` | the four semaphore services on top of every action of `OsekKernel`, and the links `EE_th_next` | `Semaphores` through `MCSemaphores` |
| `SemaphoresProofs` | the invariants of `Semaphores` and its refinement of `FifoSemaphore` | TLAPS |
| `EthernetTx` | allocation, send, ring clean, link state and the transmit DMA | `Ethernet` through `MCEthernet`, `EthernetAlloc` by itself |
| `EthernetRx` | the receive ring and its DMA, overflow, the ISR and EthIsrHandler, the receiver | `Ethernet` through `MCEthernet` |
| `Ethernet` | both sides on one controller and one processor, with the register they share | `EthernetCtrl`, TLAPS |
| `EthernetProofs` | the six invariants of `EthernetTx` and `EthernetRx`, and that `Ethernet` implements both | TLAPS |
| `SleepQueue` | get_time_ns, nsleep and both timer interrupts | `Services` through `MCServices` |
| `UartPl011` | the UART's rings, registers, ISR and SemRx | `Services` |
| `MgmtCommands` | the doorbell between the host and MgmtCmdHandler | `Services` |
| `Heap` | first-fit allocation with splitting and merging | `Services` |
| `FlashUpdater` | the updater over the outcomes of the flash device | `Services` |
| `Ptm` | the partition table manager over failing and short reads | `Services` |
| `ServicesProofs` | the invariants of `SleepQueue`, `UartPl011`, `MgmtCommands`, `Heap` and `FlashUpdater` and `Ptm` | TLAPS |
| `ListLemmas` | what cutting, inserting and removing do to a list; least numbers, remainders | TLAPS |

### OsekKernel

A service runs with interrupts disabled from its entry until user code runs again, so
one action is one call. The call's checks become an operator `...Error` that gives the
status code in the order of the code's tests; the action has a disjunct that rejects
(`UNCHANGED kernelVars`) and one that accepts. `ret` is the status returned.

The scheduling variables are taken as a record (`Now`), transformed by the steps of a
switch (`MakeReady`, `DispatchFirst`, `ResumeTop`, `LeaveStack`, ...) and written back
(`Become`), in the order the code makes the changes. A switch to a task suspended
inside a service finishes that service in the same action: `WaitEvent` forgets its
mask (`DispatchFirst`), `Schedule` takes its internal resource back (`ResumeTop`, with
`inSchedule` standing for the saved program counter).

One-hot priorities are levels: `sys_ceiling` is the set of the bits of
`EE_sys_ceiling`, and a comparison of two masks becomes one with every level of the
set. `stk` is the list from `EE_stkfirst`, running task last. `rq` is the queue that
`ReadyQueue` refines. An ISR is any sequence of service calls between `IRQEnter` and
`IRQExit`; interrupts do not nest in this port (`ee_exceptions.c`).

What tasks do is not fixed: the task on top of the stack may make any call with any
argument, wrong ones included. Two constants say what an application does with its
bodies: `ChainTargets` (whom it may chain to) and `MissingEnd` (which bodies may
return without ending the task).

### ReadyQueue and ReadyFifo

`Insert`, `Exchange` and `PopStack` are the three calls the services make. The code
has no protection against an empty free list or a task put on the stack twice; the
guards of the actions are what `OsekKernel` guarantees: `ActivationAccounting` (never
more instances than activations) and `StackOrdered` (a stacked task is not dispatched
again). `Activations` is what the tasks may ask for together; the generator makes as many
pairs (`ReadyQueueAssumption`). The refinement to `ReadyFifo` reads the queues and the
stack by walking the links (`Follow` of `Links`), at most one entry further than there are
pairs or tasks, so that a cycle would show.

### CounterAlarms and AlarmTimes

`queue` is the order of the linked list, `delta` the differences it stores. The tick
is split into `TickBegin` (advance, cut off the expired alarms) and one `Fire` for
each of them, because the alarm's action runs between those steps; with interrupts
disabled no task or ISR can call a service there (`UserCode`), but the ErrorHook of a
failing action can (`ErrorHook`). `AlarmTimes` only counts ticks down; the refinement
says the delta queue never loses, delays or hastens an alarm. `AutostartAlarms` is the
generated list that StartOS walks, `AutostartCycle` the cycles of its entries.

### Semaphores and FifoSemaphore

`Semaphores` extends `OsekKernel`: its next-state relation has the three services that
change state and every action of the kernel. A kernel action that moves a task onto or
off the stack rewrites `th_next` as the code does, so the run sees what a blocking
WaitSem leaves in the links for a later preemption to use. The refinement reads
the queues by walking the links (`Follow` of `Links`) and maps all of them to `FifoSemaphore`, whose
steps are on one semaphore each; `ret` and the error codes stay on the detailed level.

### EthernetTx, EthernetRx and Ethernet

A part of a function that runs with interrupts suspended is one step. The rest is
split where another actor may come between: between the clean of the ring and the wait
for the semaphore, between filling descriptors and reading the DMA's state, between
the clearing of a cause and the look at the ring. The DMA is an actor of its own: it
sends or fills one descriptor, or stops because it reached the software's index.
EthIsrHandler has the highest priority in `eecfg.c`, so the receiver moves only while
it waits for its event; the initial state of the interrupt's line is what `vic_config`
leaves. An allocation is split where the code is: TryWaitSem, GetResource, each turn of
the cleaner, WaitSem and the taking of the fragment. The TXF branch of `eth_isr` is never
enabled (`EthernetAlloc` shows what follows) and is not in the model.

The two sides share the register `ETH_ETH_CTRL`, with GTS and GRS. Each side clears its
own bit by reading the register and writing it back, and so writes the other's bit as it
was read, while the other's DMA may have set it: `eth_rx_frag_queue` (`eth.c:1054`,
1073), `eth_receive_overflow` (973-977, 1011-1013) and `eth_send` (940-942). A read and
its write are two steps wherever the other bit may change in between. In `EthernetTx` the
receive side is an environment of two steps, `RxReadsCtrl` and `RxWritesCtrl`, which may
come whenever no client has interrupts suspended; in `EthernetRx` the transmit side is
`TxReadsCtrl` and `TxWritesCtrl`, while the handler waits and nobody has interrupts
suspended. `Ethernet` puts the two together: a client's step that opens or closes such a
window reads or writes GRS as well, and one of the receive side GTS. `TxSide` and `RxSide`
say that each side then sees of the other what its module gives it as environment.

What a written back GRS does is harmless: the receiver, started on an empty ring, stops
again, and the receive properties hold without reserve. A GTS written back is not: the
DMA is started with nothing released and sends stale descriptors all around the ring,
with which the cleaner frees fragments that are not its own. `gtsLost` is a history
variable that tells that this has happened. `RunsReleased` is what the comment in
`eth_send` asks for, and `EthernetCtrl` its violation; the three transmit
properties say what holds until then, and so locate the defect: no other step of any
actor breaks them.

The wait for THLT in `eth_receive_overflow` (989-1003) and the soft reset of the MAC change
neither a bit nor an index of a ring; the wait gives up after 5 ms. The model has them as
time that passes between stopping and starting the receiver. What a reset does to a
frame that the MAC is sending is not modelled. `shell_eth_restart` is compiled only with
`__ENABLE_SHELL__`, which nothing in the repository defines.

### SleepQueue, UartPl011, MgmtCommands and Heap

`SleepQueue` keeps time in parts of a tick: the periodic timer's down-counter and the
count of its interrupts are separate, as in the code, and `get_time_ns` looks twice.
An unmasked interrupt is taken before a task goes on; while a task queues itself or an
ISR runs, interrupts are pending and time passes. `UartPl011` counts bytes and does
not name them: what it says is that none is stranded and that a reader is served.
`uart_config` masks the transmit interrupt when the console is polled at that moment
(`txMasked`, either way at the start). A later `printf_setmode(0)` does not enable it: what
`uart_putc` then leaves in the ring waits for the next `uart_putc`. `NoByteStranded`
therefore excepts the masked case for the ring of bytes to send; what it says of received
bytes is for both. The only call of `printf_setmode` in the repository is in the exception
handler and sets polling, so that nothing there takes that path.

In `MgmtCommands` the host is external and keeps to the protocol's bits. `Heap` works in
units of 8 bytes on the list of free chunks in address order; the set of allocated
blocks is what callers hold and may free in any order.

### FlashUpdater and Ptm

The flash is an array of units that hold an image's content, or are blank or torn.
Each operation of the device may complete, stop half way or fail after it was done,
and power may fail between any two. A page that was interrupted is torn; a header may
also be torn and still parse (`skew`). One assumption: a CRC never matches by accident.
`owed` is a history variable: the images a reader of each type may be given. An update
that starts owes the image that is read now, that of the first valid other copy, and the
new one; one that returns `ERR_OK` owes the new one alone.

A read may fail, be whole, or be short: `raf_read` (`qspi.c:430`) returns `ERR_OK` also
when the session ended early, with the rest of the buffer as it was. Two places of the
updater trust what is in the buffer then. `FUP_ValidatePrt` keeps `prtHdr` and `FUP_Buf`
over all copies of a type, and `FUP_Buf` over both types: a short read after a good copy
can pass for that copy's header and data and set the valid bit of a bad one. `StaleBits`
are the bits that whole and short reads together can set, `SoundBits` those that whole
reads set; what an earlier turn left is `LeftOver`. `FUP_WritePrt` compares what it wrote
with a buffer on the stack that a short read leaves unwritten or with an earlier chunk:
`Confirmed` lets any comparison succeed. `misread` is a history variable that tells that
one of the two has happened, a bit that is not sound or a confirmation of what is not
stored. From then on an update may run without a backup, and `ImageKept` promises
nothing; before, it holds with any number of short and failing reads. `fup_get_prt_data`
is no third place: it fills its buffer with 0xFF first and checks the CRC, so that a short
read makes it pass over a copy and go on to the next. `ImageKept` is about `Reading`, which is
what whole reads give. Nor is the header that `fup_update_prt_data` takes as a template:
its size and CRC are replaced, and nothing but those and the magic number is looked at.

`Ptm` has the short reads: `raf` of `qspi.c` may return `ERR_OK` with a buffer filled
in part or not at all, and the static buffers of `ptm.c` then hold what was read
before. A table is a header and entries, each of some version or `Bad`. Tables carry
an error detection code, images may not; `ptLoadAddr` is NULL, as `ee_board.c` leaves
it. A client may ask for an image again after a failure.

## Runs

| run | instance | shows |
|---|---|---|
| `KernelEvents` | 3 tasks on 3 levels; `lo` and `mid` share an internal resource, `mid` has 2 activations, `lo` and `hi` wait for 2 events; `hi` may miss its end; chains to itself and to others | stack ordered, status consistent, no missed preemption, activations accounted for, no lost wake-up |
| `KernelResources` | same levels, 3 resources with 2 ceilings, nested; `lo` and `mid` may end holding some | ceiling exact, mutual exclusion and single blocking by the ceiling, release only by the owner |
| `KernelLive` | 2 tasks on one level under a third, 1 resource | a ready task of the highest priority runs |
| `KernelStaleChain` | as above, extended; `hi` chains in one instance and falls off its body in another | violation: an extended task queued twice |
| `KernelForceSchedule` | as above | violation: E_OK instead of E_OS_CALLEVEL |
| `ReadyAndAlarms` | queue: 3 tasks, levels 7 and 8 (both bytes of the mask), 4 pairs; alarms: 3 alarms, a counter of 3 values, every increment, start and cycle from 0 to one beyond the maximum; one autostarted | pool never leaks, mask, heads and tails agree, refinement of `ReadyFifo`; refinement of `AlarmTimes`, alarms armed as asked across the wrap-around |
| `CounterAlarmsHook` | the same alarms with an ErrorHook | violation: GetAlarm walks off the queue |
| `Semaphores` | 3 tasks of 3 priorities, two of them extended, an ISR, an event, 2 semaphores that count to 1 | queues and stack stay apart in the shared links; each semaphore is a first-come counting semaphore |
| `Ethernet` | transmit: 2 clients, 3 fragments, 4 descriptors, chains of up to 2, link up and down; receive: 2 fragments, 3 descriptors; each with the other's accesses to `ETH_ETH_CTRL` | no fragment in two places, the semaphore never promises more than there is, no restart of either DMA and no received frame is missed |
| `EthernetAlloc` | 1 client, 2 fragments, 3 descriptors, no PHY | violation: an allocation waits for ever after everything was sent |
| `EthernetCtrl` | the same client with a receive side of 1 fragment and 2 descriptors, both on one processor | violation: a GTS is written back as it was read, and the transmit DMA runs with nothing released |
| `Services` | 2 sleepers with sleeps of 1 and 3 over 8 units, ticks of 2; rings of 3 bytes, 2 counts of SemRx; 3 commands; a heap of 32 units with requests of 2, 3 and 5; a type with two copies and one with one, copies of 6 units in sectors of 3, images of 1, 4 and 6; 3 copies of the partition table, 2 versions, 3 application partitions | nobody wakes early or is forgotten, no byte is stranded, a command runs once, the heap stays tiled, the flash stays readable, a load is whole and finds what is intact |

The bounds are constants, but for two state constraints, and every run is exhaustive
within them. `UntilLost` in `Ethernet` and `UntilMisread` in `Services` end a behaviour
where the properties that name `gtsLost` and `misread` stop to promise anything. After a
lost GTS the receive side makes no further access in `EthernetTx` (`RxReadsCtrl`): one loss
is modelled, with what the DMA then does, not several.

Three tasks are the least that show a task preempted by a second while a third becomes
ready, and levels, internal resource and second activation are chosen so
that every branch of the tail of `EE_thread_end_instance` and of the preemption point
is taken. Two events let a task wait for one and receive the other. Three alarms are
the least for an insertion in the middle and two expiries at once; three counter
values make every start wrap.

With two semaphores the two extended tasks can wait in one queue or each in its own,
while the third is linked on the stack. A transmit ring one longer than its
fragments wraps with a chain across the end; two receive fragments and three
descriptors let the ring run dry, overflow and be refilled in one behaviour. In
`Services` time ends at `Horizon`, after which the sleepers that are due have woken (8
units: two sleeps one after the other and four ticks); a heap of 32 units holds
several blocks at once, with every order of frees; the images are one that ends inside
its first chunk, one of whole chunks and one that does not fit; a type with one copy
shows the update that must be refused.

`MCServices` and `MCReadyAndAlarms` check components that share no state in one run: a
constant variable chooses the one that moves, so the state space is the sum and not the
product. `MCEthernet` does so with the two sides, each with the other as environment,
which is enough because both together are no more than that: `TxSideOfTheDriver` and
`RxSideOfTheDriver` prove it for every instance. In `Services` a component may come to rest (time has reached the horizon,
three commands are done, a load has returned), so `Services.cfg` has `CHECK_DEADLOCK
FALSE`, and so has `EthernetAlloc.cfg`, whose subject is a client that waits.
Everywhere else a deadlock is an error. That nothing rests too early is what
`TransmitterRuns`, `ReceiverRuns`, `SleepersCovered`, `ReaderServed` and
`NoByteStranded` state: whoever waits has somebody who is going to move it. Symmetry
is used in `Ethernet` only, on clients and fragments, which are stored and compared
for equality alone; the run checks no temporal property.

`EthernetAlloc` assumes `TxFairness`: the DMA sends what it may, and a client that is
not waiting goes on. Without fairness the client could just stop; with it the run
shows that the wait itself never ends. The receive side's write follows its read; that it
reads at all is not assumed.

`KernelLive` assumes `Fairness`: an interrupt ends, and a task that keeps running ends
its instance and releases what it took. These are obligations of the application, not
of the scheduler: the kernel has no timing protection in this configuration, and
nothing else is assumed of it. Strong fairness is needed because a task is preempted
between its steps.

## Deviations the runs show

* `ee_tnterm.c:87`: a task that returns from its body ends with the
  `EE_th_terminate_nextask` an earlier instance left; its old target is queued
  again (`KernelStaleChain`). `CleanBodies` names the discipline under which this does not
  happen, and the passing runs satisfy it. The build option
  `__BCM_CHAINTASK_CLR_NEXTTASK_ON_ERR__` of `ee_chaintas.c` clears the field only
  after a failed ChainTask.
* `ee_force_schedule.c:124`: the status computed is not the one returned
  (`KernelForceSchedule`).
* `ee_alget.c:149`: GetAlarm from an ErrorHook during a tick (`CounterAlarmsHook`).
* `eth.c:447`: an allocation that finds all fragments in flight waits on the
  semaphore, but only another allocation that finds it empty or the TXF interrupt, which stays masked,
  gives transmitted fragments back (`EthernetAlloc`). In `Ethernet` the client that waits so is
  accepted: `TransmitterRuns` is about the DMA.
* `eth.c:1074`, and 977 and 1013: GTS is written back as it was read, also when the
  transmit DMA has set it since (`EthernetCtrl`), which the comment at 923 warns of and
  the one at 1010 ("leave GTS alone") means to avoid.
* `uart_pl011.c:137` and `qspi.c:430` (modelled, and excepted by `NoByteStranded` and
  `ImageKept`): see `UartPl011` and `FlashUpdater` above.
* `log.c:58` (read, not run): the log buffer's semaphore starts at 0 and each user
  waits on it before it posts, so with `__ENABLE_LOG_BUFFER__` no call gets past it.

## Proofs

Proved for every configuration that satisfies `TaskAssumption`, `ResourceAssumption`
and `AutostartAssumption` (what the generator of `eecfg.c` guarantees): any sets of
tasks, resources and events, any priorities and ceilings out of sixteen, any chaining
and any missing ends. Nothing is assumed of the application beyond that; a resource's
ceiling need not even be above its users, because GetResource refuses the others.

`OsekKernelProofs`:

* `TypeCorrect`: `Spec => []TypeOK`. The inductive invariant `TypeInv` adds
  that no activation is used before StartOS; the step that needs care is a
  task chaining to itself with no activation left, where the count passes
  through -1 inside the call and is back at 0 when it ends.

Also in `OsekKernelProofs`, all from one inductive invariant, `KernelInv`:

* `CeilingIsExact`, `StackIsOrdered`, `LockedAreHeld`, `NoContention`, `BlockedOnce`,
  `PreemptionIsDone` (invariants) and `OwnerReleases` (an action property).

`CeilingExact` alone is not inductive: a release writes back `oldceiling`, so the
invariant must say what every saved ceiling is. `Stack` does: the ceiling saved with
the n-th resource of a task is the levels of the tasks below it, its own and those of
the n - 1 resources it took before (`Saved`). It also says that stacked levels are
strictly below the priority of each task above, that a task inside Schedule or holding
a resource is on the stack, and that one holding a resource is not inside Schedule.
`Owned` says that no resource is held twice and that the locked ones are the held
ones; `QLevels` that each task is queued at its own level, without which the first
task of the queue need not be the one of highest priority; `TopFree` that the running
task is not inside Schedule.

The argument goes from the data to the actions. First, for the stack alone: pushing a
task above the ceiling, popping one, and changing what the top holds keep `Stack`
(`PushKeepsStack`, `PopKeepsStack`, `ChangeTop`; from the last one taking a resource,
restoring a saved ceiling, and the two halves of Schedule). Then each step of a switch
keeps `Good`, the same for the record of scheduling variables, and the tail of every
service leaves it `Settled`, with nothing due (`DispatchGood`, `ResumeGood`,
`SwitchAwayGood`, `PreemptGood`). Then one lemma per service. Two steps are less
obvious than the rest: Schedule compares the head of the queue with the caller's own
priority and not with the ceiling, which is enough because all levels below the caller
are lower than that priority; and a body that ends holding resources restores the
ceiling of the first one only, which is the ceiling without all of them.

`OsekStatusProofs`, each under `CleanBodies` (no body that may return without ending its
task chains; `KernelStaleChain` shows that the code needs it):

* `StatusesAgree`, `ActivationsAccounted`, `WakeupsKept`, and `ExtendedOnce`: with that
  discipline the violation of `KernelStaleChain` cannot happen.

None of the three invariants is inductive by itself: that an extended task is queued once
needs its status, the status needs the activations used, and a woken task needs the
context WaitEvent saved. The invariant says it of one task at a time, over plain values
(`TaskFits`): each activation used is a queued instance, the one on the stack or the one
that waits; a saved context belongs to a task that waits or that was woken and is queued.
Counting goes by positions in the queue (`Pos`, `Occ`), so that appending and taking the
first are one fact each, and a switch is followed in the order of the code with no task
running in between (`Fits(..., NIL)`). That a stacked task is not dispatched again and is
queued at its own level is taken from `KernelInv`. `StatusInv` has two parameters, the
tasks that may wait with an empty mask (`W`) and those that may be woken with no event set
(`R`): both are empty for the kernel alone, and the semaphores instantiate them.

`SemaphoresProofs`, under `CleanBodies` and `SemAssumption`:

* `SemaphoresTyped`, `StackKeptLinked`, `WaitersInOnePlace`, `KernelKeptByWaiters`
  (invariants) and `SemaphoresAreFifo` (the refinement of `FifoSemaphore`), all from
  `SemaphoresInductive`.

None of the queues is a variable, so the invariant names them: `SemHolds` says that there
are lists for which `SemInv` holds. `Shape` says that the links spell these lists and that
no task is in two places of them. From the lists alone follow the facts about one array of
links: a waiter put behind `last`, the first one taken out (`EnterShape`, `WakeShape`), and
that a walk along the links finds the list again (`FollowIs`, with the least index at which
two solutions of the recursion could differ). What keeps stack and queues apart in the
shared array is `StatusInv` with `W` the members of the lists: a waiter is not on the
stack (`WaitersAreOff`), and every step changes the stack at its top only (`Kept`), so that
the one link a dispatch writes is neither a waiter's nor one below (`PushLinks`,
`LinksKept`). Each step then gives new lists together with the abstract step that
leads to them (`Serves`), from which the refinement follows.

`ReadyQueueProofs`, under `ReadyQueueAssumption` (as many pairs as activations, a level
for each task among the sixteen):

* `PoolStaysPartitioned`, `MaskStaysRight`, `FreePairsSuffice` (invariants) and
  `ReadyIsFifo` (the refinement of `ReadyFifo`), all from `ReadyInductive`.

The invariant names the lists: `RqInv` says that there are a list of pairs for each
level, one of free pairs and one of stacked tasks for which `Ready` holds. The links spell
these lists, each pair is in one place of one of them, it carries a task of its level, and
the mask has a level's bit exactly when its list is not empty. None of the three invariants
is inductive alone: insertion writes through a tail, which is right only if it is the
last of a list that shares no pair with another; a head is cleared by what is left behind
it; and that the free list is not empty needs what is queued to be counted against the
activations. The count is an injection: each queued pair is given an activation of its task that no
other pair has, and one is left over for the task being activated (`FreeLeft`). The mask
is a number and a bit of it the parity of a quotient: setting and clearing one changes
no other, and the lookup by bytes finds the highest one (`HighestFinds`); the prover is
given the powers of two one by one (`Powers`). Each operation has one lemma over the
named lists (`InsertStep`, `ExchangeStep`, `PopStep`), from which the invariant and the
refinement follow; `ListsAre` shows that the walks find the named lists.

`CounterAlarmsProofs`, under `CounterAssumption` (a positive maximum, a minimum cycle
within it, finitely many alarms, an autostart list that names none twice):

* `AlarmsTyped`, `AlarmsFound` (invariants), `TimesKept` (the refinement of `AlarmTimes`),
  `AskedTimesKept` (an action property) and `WalksEnd`: without the ErrorHook the violation
  of `CounterAlarmsHook` cannot happen.

Even the type of `delta` is not inductive: that a difference stays within the counter's
range is true because all sums of the queue do. `QueueOK` says that the sums exist
(`Timed`), never decrease and stay below one turn. `Offsets` is a recursive function, and
`OffsetsAre` shows that such sums are its only solution, with the least index at which
two could differ; after that no proof looks into the recursion. Each operation then has a
lemma over plain lists that exhibits the sums of the new queue from those of the old:
`InsertKeeps` (the alarm's ticks are the increment, nobody else's change), `RemoveKeeps`,
`TickKeeps` (the expired alarms are a prefix, and all others come one tick nearer). The
refinement follows action by action (`ArmsTimes`, `CancelTimes`, `TickTimes`,
`FireTimes`); serving an alarm is a stutter, because its cycle is already counted.

`EthernetProofs`, for any clients, fragments and number of descriptors, under
`TxAssumption`, `RxAssumption`, `MoreDescriptors` and `RingNeverFull` (finite sets, and
more descriptors than fragments, as `eth.c` has):

* `FragsKept`, `SemaphoreCovered`, `TransmitterKeptRunning`, each from `TxSide`;
* `RxFragsKept`, `FramesNoticed`, `ReceiverKeptRunning`, each from `RxSide`;
* `TxSideOfTheDriver` and `RxSideOfTheDriver`: `EthSpec => TxSide` and `EthSpec => RxSide`,
  so that the six hold of the whole driver.

On the transmit side cleaner, DMA and software index stay in this order around the ring
(`TxOrder`), every fragment is in one place (`TxPlaces`), from which the room for a chain
follows by counting (`RoomToSend`), and inside a send a stopped DMA is at the new
descriptors or past them (`TxKick`). This is kept by every step of a client, the DMA,
the link and the receive side but one, a write-back that clears a GTS set since the read:
the invariant is `gtsLost` or all of that, and a write-back that loses nothing leaves GTS
as it was. On the receive side, `RxWorkNoticed` is too weak to be
kept: a cause cleared while frames are left is made up for by the processing that
follows, which gives up only after a whole ring; counted from the clearing (`Done`), it
passes every frame that was there, and what comes later has raised the cause again
(`LateRaised`). Positions on a ring are distances less than a turn (`Gap`, `ModSmall`).
That nobody else is between a read and a write of the register (`RxOwner`) makes a GRS
written back either what it was or one that starts an empty ring. For both sides together
`EthInv` says who may be where: a client with interrupts suspended excludes the handler,
the ISR and the receiver, and one of those in its window excludes the clients.

`ServicesProofs`, under `TimesArePositive`, `RingsHaveRoom`, `SemRxCounts`,
`HeapIsAligned`, `RequestsAreSizes` and `RequestsDoNotWrap` (the size with its header,
rounded up, stays below 2^32: `malloc.c:111` does not check it):

* `WokenInTime` and `NobodyForgotten` of `SleepQueue`: the ticks counted, a pending one and
  the down-counter give the time, so a task that reads with no interrupt pending reads it
  and an ISR never a later one; the queue is sorted and has each sleeper once.
* `ReaderAlwaysServed` and `BytesKeepMoving` of `UartPl011`: a reader between its test and
  its wait has a post ahead if input came meanwhile. The second is for a transmit interrupt
  that was not masked at configuration.
* `CommandsRunOnce` of `MgmtCommands`: from its wake-up until it enables the interrupt the
  task runs with it masked.
* `HeapStaysTiled` of `Heap`: every unit is in exactly one chunk or block, and all are
  aligned; a list that is not sorted is no exception.

`ServicesProofs`, `LoadsAreWhole`: it is `PtmSpec => []LoadedWhole`, for every set of table
versions (none an empty table, which `flash.c:206` refuses to read), image tables, contents
and number of copies. That the error detection code
matched is not enough: a short read leaves a header of one version over entries of
another, or an old image in the caller's buffer. The invariant therefore says where
stale content can come from: the entries in memory are those of some copy or `Bad`
(`EntFromCopy`), header and entries are of one version once the manager is idle
(`TableHeld`), and the buffer holds what some listed partition holds
(`BufferFromPart`).

`ServicesProofs`, `LoadsWhatIsIntact`: it is `PtmSpec => []FoundIfIntact`. The converse of
the last one, for clean reads: damage elsewhere makes no load fail. The two searches are
told by what they have passed: no copy before `lookupAt` is whole (`SearchedSoFar`), no
entry before `entryAt` has an intact table that lists the image (`PassedSoFar`), and the
tables in memory are those of the first that is. The manager is in its error state only if
nothing can be loaded, so that refusing every later load is right; this holds only as
long as no read failed, and a single short read can make it false for good (`ptm.c:345`).

`ServicesProofs`, `ImageIsKept`: it is `FupSpec => []ImageKept`, for every partition
table, size of copy, sector and image, under `FlashAssumption` (a copy is a whole
number of sectors, an image has at least one unit of data). `ImageKept` says nothing
of what makes an update safe, so `FupInv` adds it. First, an update touches only the
units of the first copy of its type (`Confined`, from the erase loop ending exactly at
the copy's end and an image that was checked to fit). Second, a valid bit found at
boot may be stale for the first copy but not for the others, which are never written
(`BitsHold`); since `Allowed` asks for another bit than the first and a type of more
than one copy, an image to fall back to exists (`BackupThere`). The bit may be one
beyond the type's copies, because `prtCnt` counts the whole table: it then repeats the
last copy, which is not the first. (`BitsHold` is what a short read can make false, and
`WrittenTo` what a comparison with an unwritten buffer can: the theorem is that
`misread` or all of this holds, `misread` stays, and without it no step breaks the rest.)
Third, damage makes no valid image
(`DamageMakesNothing`), and a copy that is valid in the middle of an update carries
the new header and is the new image (`FirstMay`). Last, what lies before the chunk at
hand was read back (`WrittenTo`), so at `ERR_OK` the first copy is valid and is the
one a reader is given.

`ListLemmas` has what several of these need: a list cut, with an entry put in or taken
out, in terms of its entries (`IsFront`, `IsBack`, `IsAfter`, `IsWithout`), that this keeps
a list free of repetitions, and the uniqueness of remainders.

Only model-checked: `TopPriorityRuns` and the violation of `EthernetAlloc`, which are about
liveness and out of the prover's reach. Every invariant, action property and refinement of
the passing runs is proved; those of the kernel that `CleanBodies` conditions are checked
by runs that satisfy it.

## Not modelled, and the plan

To model next: `AlarmActions`, the composition of `CounterAlarms` with the tasks its
actions activate or wake, and the ErrorHook's report at `ee_altick.c:585`;
`ContextSwitch`, the saved stack pointers behind `EE_hal_*`; the sorted ready list of
BCC1/ECC1 as a second refinement of `ReadyFifo`; the device's protocol below a page in
`qspi_flash.c`, with the status poll that has no end.

Not planned:

* the log buffer: no call gets past its semaphore, so it has no behaviour;
* two callers of one heap, one under the resource and one with interrupts off: they are outside
  the repository, and the heap's calls are single steps here; its magic numbers, which only
  `DBG_ASSERT` reads;
* the correction of the clock's accumulated error, the busy loops of `delay.c` and
  the statistics;
* bulk erase, status and speed of the flash; MII transactions and the MAC's speed; register-level
  drivers, formatting, the shell's parser, start-up code, stack status, the Cortex-M port;
* GetTaskID, GetTaskState, GetEvent, GetAlarmBase and the counter queries, which change
  nothing; hooks, application modes, ORTI tracing and the branches for AUTOSAR
  protection and multicore, which this configuration does not compile.
