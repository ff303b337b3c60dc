# kemu in TLA+

A verification project for kemu, a KVM virtual machine monitor in C (a descendant
of kvmtool).  It models the parts of the program where several threads, the guest
and the kernel meet, and the state machines behind them; checks them with TLC on small
instances; and proves most of the safety properties, and the refinement of the request
queue, with TLAPS for every instance.  Paths below are relative to `src/`.

## 1. The system

kemu creates a VM with `/dev/kvm`, runs one thread per vCPU, and emulates devices in
user space.  Its threads:

| thread | code | what it does |
|---|---|---|
| main | `init/vm.c`, `util/init.c` | runs the init lists, creates the vCPU threads, joins vCPU 0, runs the exit lists |
| vCPU threads | `init/kvm-cpu.c` | loop over `KVM_RUN`, emulate I/O and MMIO exits; signal handlers for pause, exit and debug |
| IPC thread | `init/kvm-ipc.c` | serves `pause`, `resume`, `stop`, `debug`, `balloon`, `stat` commands from a Unix socket |
| terminal and serial poll threads | `init/term.c`, `hw/serial.c` | console input; Ctrl-A x stops the VM |
| pool workers | `util/threadpool.c` | run one job per virtqueue (rng, 9p, balloon, console, scsi) |
| device threads | `virtio/blk.c`, `virtio/net.c` | one I/O thread for a disk, a pair per network queue |
| epoll threads | `init/epoll.c`, `init/ioeventfd.c`, `init/kvm-ipc.c` | turn kernel events into callbacks |

### 1.1 Inventory

For each component: its state, its operations, what it talks to, what is hard about
it and what makes it correct.  `PROJECT.json` lists the same components with their
files and status, and under `hazards` the 40 places where this code is hard to test,
each with the properties that would notice.

* **Thread pool** (`util/threadpool.c`).  The job list, `signalcount` and `mutex` of each
  job, `job_cond`, `running`.  Called by vCPU threads and the epoll thread; runs device
  callbacks.  Hard: `signalcount` is guarded by one lock in two functions and by another
  in the third; wake-ups; shutdown.  Correct: one runner per job, no signal lost, every
  cancel and the exit come to an end.
* **vCPU control** (`init/kvm-cpu.c`, `init/kvm.c`, `init/kvm-ipc.c`, `init/vm.c`).
  `is_running`, `paused`, `needs_nmi` per vCPU, `pause_lock`, `pause_event`, the `cpus`
  array.  Hard: asynchronous signals, a lock held between two IPC commands, teardown
  while others work.  Correct: a pause stops every vCPU, no vCPU is told twice, teardown
  frees nothing that is in use and ends.
* **Virtqueues and virtio-blk** (`virtio/core.c`, `include/kvm/virtio.h`, `virtio/blk.c`).
  Rings in guest memory, wrapping indices.  Hard: two sides without a lock, notification
  suppression, wrap-around.  Correct: requests served in order and answered once, no
  notification lost.
* **virtio transports, ioeventfd, epoll** (`virtio/pci*.c`, `virtio/mmio*.c`,
  `init/ioeventfd.c`, `init/epoll.c`).  Device status, queue selection, doorbells, the
  epoll set, the stop eventfd.  Hard: reset and BAR moves against doorbells that are being
  dispatched; failures during set-up; the stop handshake.  Correct: the backend has the
  rings the driver programmed, the doorbells are those of the queues that are up, kicks
  are served.
* **Interrupts of virtio devices** (`virtio/pci.c`, `virtio/mmio.c`, `init/irq.c`).  ISR and
  line, MSI-X table, PBA, routes, irqfds.  Hard: unlocked updates of the status by several
  threads; one table entry with several users.  Correct: an interrupt is recorded until it
  is seen, a queue signals the message its vector has.
* **Console, balloon, vhost devices** (`virtio/console.c`, `balloon.c`, `vhost.c`, `scsi.c`,
  `vsock.c`).  Hard: an exit_vq that waits for a job others keep signalling; an IPC thread
  that waits for the guest; backends in the kernel that outlive a driver.
* **virtio-net and the user mode stack** (`virtio/net.c`, `net/uip/`).  Buffer lists, TCP
  sockets with their sequence numbers and windows, one thread per queue and per socket.
  Hard: producers and consumers, sockets closed by either side, threads that are cancelled.
* **MMIO bus, PCI bus** (`init/mmio.c`, `init/pci.c`).  Interval trees of mappings with
  `refcount` and `remove`; command registers, BARs, `bar_active`.  Hard: a region removed
  while a vCPU is in its handler; one write toggles BARs of several devices step by step.
  Correct: no use after free, no region left behind, what is enabled and overlaps nothing
  answers where its BAR says.
* **VFIO** (`vfio/`).  INTx, MSI and MSI-X of an assigned device, its groups and regions.
  Hard: any ioctl may fail, and the states of guest, host and KVM must agree.
* **Guest memory banks** (`init/kvm.c`).  The bank list and KVM's slots.  Hard: overlap and
  merge rules, failures half way.
* **Serial port and terminal** (`hw/serial.c`, `init/term.c`), **keyboard controller**
  (`hw/i8042.c`), **CFI flash** (`hw/cfi_flash.c`).  Register state machines that vCPUs and
  input threads drive, two of them without a common lock or with a line driven on changes.
* **Interrupt controllers in user space** (`arch/riscv/plic.c`, `arch/powerpc/xics.c`).
  Correct: what is raised and not served is presented again.
* **Disk images and QCOW** (`disk/`).  L1 and L2 tables, their cache, refcounts.  Hard: the
  order of metadata writes, failing writes, clusters shared with a snapshot.  Correct: a
  read returns what the answered writes left, no cluster is handed out twice.
* **9p** (`virtio/9p.c`).  The table of fids, host descriptors.  Hard: requests that fail
  half way.  Correct: descriptors are accounted for, the server stays below its root.
* **IPC server, commands, instances** (`init/kvm-ipc.c`, `init/builtin-*.c`, `init/vm.c`).
  Connections, guest state, files by which guests are found.  Hard: a guest that stops in
  the middle of a request, crashed guests, two starts at once.
* **Displays, init and exit lists** (`ui/`, `init/framebuffer.c`, `hw/vesa.c`,
  `util/init.c`).  Hard: threads that draw while the lists tear down.
* **Utilities** (`util/rbtree.c`, `util/read-write.c`, `util/iovec.c`, `util/bitmap.c`).
  Algorithms with a reference definition.
* **Machine set-up, boot loaders, option parsing, RTC.**  Straight-line code, tables, host
  I/O.  Not modelled (section 7).

## 2. Modules and runs

| modules | code | run |
|---|---|---|
| `ThreadPool` | thread pool | `pool` |
| `VcpuControl` | vCPU threads, pause, teardown | `vcpu_safety`, `vcpu_live`, `vcpu_teardown` |
| `RequestQueue`, `VirtQueue` | abstract queue, rings and virtio-blk | `queue` |
| `VirtioTransport`, `VirtioSignal`, `Console`, `VhostDevice` | transports and backends | `transport` |
| `MmioBus`, `PciBars`, `VirtioMsix`, `VfioIrq`, `VfioDevice` | buses, vectors, passthrough | `pci` |
| `Serial8250`, `CfiFlash`, `Plic`, `Xics`, `Keyboard`, `GuestMemory` | machine | `machine` |
| `Serial8250`, `Balloon`, `Display`, `Commands`, `Instances` | what users meet | `devices` |
| `Qcow`, `DiskImage`, `Virtio9p`, `RbTree`, `IoRetry`, `CpuMask`, `HostTools` | host side | `host` |
| `Uip`, `VirtioNet` | network | `net`, `net_reset` |

Composition: `PciBars` extends `MmioBus` (configuration writes call into the bus),
`DiskImage` extends `Qcow` (an open image is one kind of disk), `HostTools` joins `IoRetry` and
`CpuMask`, `VirtQueue` implements `RequestQueue`.  A run that covers several parts (`MCPci`, `MCMachine`, `MCTransport`,
`MCDevices`, `MCHost`, `MCNet`) has a variable `part` (`unit` in `MCHost`) that the initial
state chooses and no step changes: a behaviour is one of one part and the others rest in
an initial state.  This is sound because at the level of these modules the parts share
no variable; the product would only repeat the states of each.  Where a property of a
run is a conjunction of invariants of several modules, the modules name the conjuncts.

Proofs are in `HostProofs` (the pool and the host side), `VcpuProofs`, `VirtQueueProofs`,
`TransportProofs`, `PciProofs`, `MachineProofs`, `DeviceProofs` and `NetProofs` (section 5).
Between them they prove every safety property of the passing runs but `RbInv`.

## 3. The modules

Conventions: a mutex section that cannot block is one step, and its mutex needs no
variable; a mutex held across steps is modelled.  An unlocked load and store are two
steps.  Small named predicates stand for the single conditions of the code that matter
most, with a plausible wrong version next to them, which the mutants use.  The wrong
versions (`AnySignalPushes`, `NoLocking`, ...) are never part of a specification.

### ThreadPool (`util/threadpool.c`)

`queue` is the list, `signalcount`, `mutex`, `running` and `waiting` (the threads in
`pthread_cond_wait`) are what their names say.  `DoJobLock`, `DoJobIncrement`, `DoJobPush`
and `DoJobSignal` are `thread_pool__do_job`; the load and the store of `signalcount++` are
apart because `thread_pool__cancel_job` (`CancelStart`, `CancelQueued`, `CancelUnqueued`)
changes the count without `job->mutex`.  The `Worker` actions and `CallbackDone` are
`thread_pool__threadfunc` and `thread_pool__handle_job`, `Exit...` is `thread_pool__exit`.
`SpuriousWakeup` and `CondSignal` are the condition variable.  The contract that a job is
not signalled and cancelled by two callers at once (the devices first stop their
notifications) is in the guards of the callers and stated as `CancelAlone`.  `work` is
history: the jobs signalled since their callback last started.

### VcpuControl (`init/kvm-cpu.c`, `init/kvm.c`, `init/kvm-ipc.c`, `init/vm.c`, `init/term.c`)

Each vCPU has a place in its own code (`vpc`) and in the SIGKVMPAUSE handler on top of it
(`hpc`); pending signals are sets.  `VStart` to `VHandle` are `kvm_cpu__start` and
`kvm_cpu__run`; `OnExit`, `OnPause`, `OnUsr1` are deliveries at any moment, and a delivery in
the guest makes `KVM_RUN` return `KVM_EXIT_INTR`; `NotifyPaused` and `Unpause` are
`kvm_notify_paused`.  `Pause`, `PauseLock`, `PauseKill`, `PauseRead` are `handle_pause` and
`kvm_pause`; `Resume`, `Stop`, `TermExit` and `Debug` the other requests.  `Create` to
`FreeCpus` are the main thread.  `reason` abstracts an exit to its kind, `VGuestExit` is the
guest.  Accesses through deleted structures and signals to threads that do not exist end
the run with a `fault`; they are reachable at start-up and shutdown (see the hazards).
`DumpSerial` (only one vCPU prints at a time) is claimed for users that ask for no NMI: the
SIGUSR1 that goes with an NMI prints too when the vCPU has taken its `needs_nmi` before.

### RequestQueue and VirtQueue (`virtio/core.c`, `include/kvm/virtio.h`, `virtio/blk.c`)

`RequestQueue` is the promise: requests are taken in order, answered at most once, answers
come back in order.  `VirtQueue` has the rings and indices, the steps of the I/O thread
(`DevWake`, `DevArm`, `DevLook`, `DevServe`, `DevDrop`, `DevAdvance`, `DevSignal`) and of the
driver.  The driver is not in the repository: it is modelled from what the code relies on
and marked external.  Indices are taken modulo `IdxMod` in place of 2^16.  The barriers
order the accesses of each side, so the model is sequentially consistent.  `QueueSpec` is
the refinement: the window of a ring between two indices is the abstract sequence.

### MmioBus (`init/mmio.c`, `util/rbtree-interval.c`)

The two trees are one set of regions that carry their space; each section under
`mmio_lock` is a step: `Get` and `Put` around a handler, `Register`, `Deregister`.  The tree
search is its specification on disjoint intervals; `Disjoint` says that they are.

### PciBars (`init/pci.c`, `virtio/pci.c`)

It extends `MmioBus`: its actions are the accesses (`Access`, `Return`) and the configuration
writes.  A write is a small program: `stage` is the call in `pci_config_bar_wr` or
`pci_config_command_wr` it has reached (`off`, `clear`, `on`, `again`, `back`, `command`),
`step` is where it is with one BAR (`scan` the flag, `call` the callback, `set` the flag), `k`
the BAR.  Accesses of other vCPUs fall between any two steps.  `CallActivate` and
`CallDeactivate` are the virtio callbacks; their errors follow the paths of the code.
Addresses are small numbers below `Top` in place of 2^32, with the wrap of the overlap
test kept.  That I/O ports are cut to 16 bits is not modelled; it makes a difference only
for a guest that decodes I/O at a probe value.

What the guest does: it serialises configuration writes (there is a single address
register, so it must), and `Rules` says what else it keeps to.  `"size"`: BARs are sized
with decoding off.  `"overlap"`: BARs of disabled devices, or of devices being toggled,
overlap no other.  The bus properties do not use `Rules`; `BarsTrue` (its parts `Emulated`
and `FlagTrue`) is about guests that keep both, and whose ports and memory have windows of
their own (`WindowsApart`: `pci_toggle_bar_regions` compares addresses of either space).
`spoiled` is history: the BARs that an activation which failed has left off (`LeftOff`), either
because a removed region is still in use at their place or because the loop of
`pci_toggle_bar_regions` returned before it came to them.  A later activation clears it.

### Serial8250 (`hw/serial.c`, `init/term.c`)

A port is a record of its registers and FIFOs.  `WriteTx` to `WriteMcr` and `ReadRx`,
`OtherAccess` are the cases of `serial8250_out` and `serial8250_in`; each ends with `Update`,
which is `serial8250_update_irq` in the order of its code (`ClearRx`, `ClearTx`, `SetIrq`,
`Settle`) and moves the line with `Level`.  `Receive` is a port's turn in
`serial8250__update_consoles`.  All of it is under the port's mutex, so each is a step;
`InjectSysrq` is the unlocked store of the IPC thread.  Registers are sets of the bits that
matter; `irq_state` and `iir` are one field, since the code always sets both.  Of
`term_monitor_check` the escape character is kept (`escape`, `Keeps`); the commands that
follow it (exit, monitor) are not typed here.  `typed`, `got` and `disturbed` are history:
what was typed and read, and the ports whose FIFO also held other characters or was
emptied, about which `InOrder` claims nothing.

### VirtioTransport (`virtio/core.c`, `virtio/pci*.c`, `virtio/mmio*.c`, `init/ioeventfd.c`, `init/epoll.c`)

One device behind one of the four transports.  The driver is the sequence of register
accesses `After` gives for its transport (external; it may give up before DRIVER_OK), and
each access is one step of a vCPU; taking a queue down is two steps per queue, `DelBells`
and `ExitVq`, because the backend may have to be waited for.  The epoll thread is
`EpollWait`, `EpollRead` and `EpollNotify`: events it has fetched stay with it when
`ioeventfd__del_event` frees them.  `EpollExit` and `EpollStop` are the handshake of
`epoll__exit`.  Backends are an I/O thread (blk), a pool job (rng and the others) or vhost.
`broken` is history: a freed doorbell or a queue that is down was used, which is reachable
around a reset; what the program does then is undefined, so the behaviour ends there and
the liveness properties exclude it.  `left` records that a driver gave up before DRIVER_OK
and left its queues behind.

### VirtioSignal, VirtioMsix (`virtio/pci.c`, `virtio/mmio.c`, `init/irq.c`, `arch/*/irq.c`)

`VirtioSignal` has the loads and stores of the status byte by the queue thread, the IPC
thread (balloon configuration) and the guest's handler as separate steps.  `VirtioMsix` has
the table writes, the vector registers, the routes of KVM and the irqfds of vhost queues,
one step per access.  `mixed` records that an entry with two users was rewritten:
`update_msix_map` follows only the first.

### Console, VhostDevice, Balloon (`virtio/console.c`, `vhost.c`, `scsi.c`, `vsock.c`, `balloon.c`)

`Console`: the poll thread, the receive job and `exit_vq` around one mutex.  `VhostDevice`:
rings, doorbells and call eventfds are named by the driver session that made them, so
that what the kernel keeps over a reset is visible; the kernel's side is external.
`Balloon`: the IPC thread hands the statistics buffer back and blocks until the driver
answers; resets fall in between.

### MSI and regions of VFIO: VfioIrq, VfioDevice (`vfio/pci.c`, `vfio/core.c`)

`VfioIrq`: the virtual and the physical state of both capabilities, INTx, irqfds and
routes; an access is one step, and its ioctls may fail `MaxFails` times in all.
`VfioDevice`: `vfio__init` and `vfio__exit` device by device with group references, and the
BARs of a device as traps, mappings and emulated tables.

### The machine: GuestMemory, CfiFlash, Keyboard, Plic, Xics

`GuestMemory` is `kvm_register_mem` and `kvm_destroy_mem`: `Scan` is the walk over the banks,
`ScanBank` one turn of it with the merging of reserved regions, and `Place` where the new
bank goes.  `CfiFlash` is the command state machine, including the slot that
appears and disappears with the read mode.  `Keyboard` splits the unlocked updates into
load and store and the computation of the lines from setting them.  `Plic` and `Xics` are
the register and hypercall operations; in `Xics` a device's thread looks at a presenter in
one step and acts in the next, and `raced` records that something came between.  `owed` is
history (raised, neither accepted nor forgotten), and so are `retargeted` (the xive changed
while the source waited) and `outranked`: an EOI restored a priority at which the
interrupt in the presenter may not be taken.  A source that is then rejected for the
priority alone is not resent when the vCPU relents, because `icp_set_cppr` resends only
into an empty presenter, so `XicsInv` claims nothing about such a server until the next
resend.

### The host side: Qcow, DiskImage, Virtio9p, RbTree, IoRetry, CpuMask, HostTools

`Qcow` has the functions of `disk/qcow.c` as operators on a record of the open image; a host
read or write may fail.  Its loops (clusters of a read, the allocator's scan, the growth of
the refcount table and the counting on the way back) are functions of the number of turns,
each turn an operator of its own (`ReadTurn`, `ScanTurn`, `GrowTurn`, `CountAgain`).
`DiskAssumption` says what a file must be for the code to be right about it: offsets that lead
to tables, no cluster named twice, and a count above zero for whatever is named, the header
too.  After a failed growth the cache lists a block that was freed (`wild`), and nothing but
closing the image is modelled from then on.  `DiskImage` is the request switch over four kinds of image, with
`vdisk`, what a guest may expect to read, as the abstract disk.  `Virtio9p` has one action per
request that changes the table of fids or the host tree.  `RbTree` is insertion, erasure and
the post-order loop on explicit pointers; `IoRetry` and `CpuMask` are the loops of their
files, one step per system call or word, against a reference (which byte, which CPU).

### The network: Uip, VirtioNet (`net/uip/`, `virtio/net.c`)

`Uip` has the frame buffers, the transmit thread's dispatch, the thread of a TCP socket, the
UDP thread, the receive thread, and a reset that cancels and joins them; a section under a
lock is one step and unlocked field accesses are steps of their own.  `VirtioNet` has the
three queue threads with `pthread_cond_wait` and the publication of merged buffers.

### Management: Commands, Instances, Display

`Commands`: processes that send a command, the socket with its edge-triggered event, and the
IPC thread.  `Instances`: processes that start, run, end or are killed, one step per system
call on the shared directory.  `Display`: the init and exit lists as the displays use them,
and the three display threads.

## 4. Runs

| run | what it asks | bounds | result |
|---|---|---|---|
| `pool` | one runner, no double link, no lost signal; jobs are served, cancel (while the pool is up) and exit end | 2 workers, 2 callers, 1 job, count up to 2 | holds |
| `vcpu_safety` | pause, dump, stop and teardown in any order: a pause parks every vCPU, nobody is told twice, nothing is freed in use | 2 vCPUs, 3 requests | holds |
| `vcpu_live` | pause, teardown and NMI come to an end, under the assumptions the properties state | 2 vCPUs, 2 requests | holds |
| `vcpu_teardown` | teardown ends whoever caused it | 2 vCPUs, 3 requests | violated |
| `queue` | refinement of `RequestQueue`, no lost notification, every request answered | 2 descriptors, indices mod 6 | holds |
| `transport` | rings and doorbells as programmed, status recorded, backends of the present driver; kicks, stops, input and calls arrive | 5 pairs of transport and backend, 2 queues, 2 BAR addresses, 3 driver sessions | holds |
| `pci` | bus safety, BARs that should answer do, vectors and routes agree, VFIO states agree | 2 vCPUs, 4 BARs of 2 devices; 2 vectors, 2 routes; 1 failing ioctl; 2 VFIO devices | holds |
| `machine` | serial line and order of input, flash contents and mapping, PLIC and XICS lose nothing, keyboard order, disjoint banks | see below | holds |
| `devices` | fresh statistics, nobody draws in unmapped memory, users are told the truth; input, commands and exits end | 2 clients, 2 users, 3 guests, 2 names | holds |
| `host` | reads return what was written, clusters handed out once, fids and descriptors agree, tree, transfers and CPU lists right | 4 qcow files, 3 writes, 2 fids, 10 keys | holds |
| `net` | buffers and sockets consistent, frames published whole, frames and buffers dealt with | 2 frame buffers, 1 socket, 3 frames; frames of up to 2 buffers | holds |
| `net_reset` | a reset of virtio-net returns | the same | violated |

Why the bounds are enough for the questions asked.

* *Pool*: two workers and two callers give every pair of concurrent operations on one
  job, and a count of two is the least that exercises pushing a job back; the proofs
  remove the bounds for safety, the number of jobs included.
* *vCPU*: two vCPUs distinguish vCPU 0 from the others; three requests make pause,
  resume, pause, or pause, resume, stop.
* *Queue*: a ring of two is full and empty within a few steps and the indices go round
  three times per turn of the counter; `MaxLag` keeps the driver within one turn of the
  device's last signal, which the code needs too (2^16 requests).
* *Transport*: `MCMachines` has each transport, and each backend behind one that sets
  queues up early and one that does so late; a second session follows a reset, a third
  one a reset of a device that was started twice.
* *PCI*: a BAR of size two can cover two of size one, and it moves by less than its size,
  so that a BAR overlaps its old and its new place; both spaces and two BARs per device give
  partial toggles.  The proof removes these bounds.  Two vectors and two queues
  give shared and separate vectors, and two routes leave one of the three users without.
* *Machine*: three characters overfill a FIFO of two, so a refill stops in the middle;
  a flash of two blocks with a buffer of one block; two PLIC contexts with a level and an
  edge source; two XICS sources with three priorities around the one of the vCPU and the
  IPI, and one nested interrupt; a keyboard queue of two bytes against one input and two
  commands; four registrations on five pages, the least for a hole between two banks that
  a third fills.
* *Devices*: a FIFO of one makes every character a refill, which the liveness of input is
  about.  Two clients make one wait while the IPC thread is blocked.
* *Host*: ten keys are the first size at which an erasure climbs past the parent.  The
  four images are a version 1 file, a table shared with a snapshot, a compressed cluster
  with a full refcount table, and unmapped clusters.  A word of two bits and five CPUs put
  a region in one, two and three words.
* *Net*: one frame buffer per direction, and a frame that needs two receive buffers.  The
  mode `"user"` takes the same paths in `VirtioNet` as `"tap"`.

`CHECK_DEADLOCK FALSE` is used where the program really stops: after exit and teardown,
after a fault, when a driver has lost its descriptors to dropped requests, and when a
part has used up the bounds on its inputs.

### Findings

The two violated runs are disagreements between the code and its comments, quoted in
`PROJECT.json`.

* `vcpu_teardown`: `kvm_cpu__exit` joins vCPUs with `pause_lock` held, while a vCPU that
  leaves a pause waits for that lock.
* `net_reset`: `exit_vq` cancels a queue thread that waits on a condition of the user mode
  stack's buffer list; it dies with `buf_lock` held, and the reset joins a thread that
  needs the lock.

### Properties the code does not have

These are defined in the modules, next to the properties that hold, and TLC finds a
counterexample when one is put in the cfg of the module's run (with the constants shown,
where they differ).  They mark where the
checked properties stop: most of those exclude the case by name.

| definition | what happens in the code |
|---|---|
| `ThreadPool!CancelReturns` | a worker that popped a job when the pool stops drops it with its count positive; `cancel_job` then spins |
| `VcpuControl!PauseReturns` | a vCPU thread that ended by itself still has `is_running` set, and `kvm_pause` waits for its answer |
| `VcpuControl!DumpSerialWithNmi` with `"nmi"` in `Commands` | the SIGUSR1 of an NMI prints a dump between those that `handle_debug` serialises |
| `VirtQueue!IrqNotLost` with `IdxMod = 4`, `MaxLag = 4` | `last_used_signalled` moves only on a signal: a whole turn of the index hides the signal that is needed |
| `PciBars!DisabledSilent` with `Rules = {}` | moving a BAR re-activates the BARs it covered, also those whose device has decoding off |
| `PciBars!AllEmulated` | `pci_toggle_bar_regions` returns at the first BAR that it cannot activate; one that still overlaps the new place thus keeps those after it off, although nothing overlaps them |
| `Serial8250!FcrClears` | the clear bits of the FIFO control register are looked for in the line control register |
| `VfioIrq!RollbackToIntx` | after a failed ioctl INTx is not enabled again |
| `VfioDevice!TreeKept` with `VdDevices = {1, 2, 3}` | the exit of a bridge erases a tree node that was never linked, and the tree is empty |
| `Plic!ThresholdHonoured`, `Plic!EdgeClaimedOnce` | the threshold is stored and not used; an edge stays pending after its claim |
| `Xics!RejectedCouldNotBeTaken` | after an EOI that left an interrupt in the presenter above the restored priority, a source is rejected for the priority alone; when the vCPU raises it again `icp_set_cppr` does not resend, and the better source waits behind the worse one |
| `Balloon!InitialBufferKept` | a reset leaves `cur_stat` set, so that the first, empty buffer of the next driver is taken for statistics |
| `Keyboard!KeyAnnounced` | two threads in the controller at once leave a byte without its line |
| `VirtioSignal!CompletionsReported` | an unlocked update of the status loses the queue bit |
| `VirtioTransport!ResetStopsTraffic` | the epoll thread still dispatches events it fetched before the reset |
| `VhostDevice!ResetDetaches`, `WorkerNeverStuck` | the scsi endpoint stays over a reset; a late call makes the worker read an eventfd nobody writes |
| `DiskImage!ReadFilled` | a read whose first cluster fails is answered with the buffer as it was: the -1 is kept in an unsigned `nr` |
| `DiskImage!BlockDeviceKept` | a host block device is written although the comment of its probe says it is opened read-only |
| `RbTree!DrainVisitsAll` | the "safe" post-order loop skips nodes when erasures rebalance the tree |
| `Virtio9p!FidsFollowRename` | `rename_fids` compares names with paths |
| `Uip!StreamTrue` with `MaxReads = 2` | two threads add to `seq_server` without a lock |
| `Instances!NameExclusive` | two guests started at once under one name delete each other's files and both run |
| `CpuMask!ListTrue` | a group size that makes the unsigned start wrap sets bits the list does not name |

### Fairness

* `ThreadPool`: every thread that can take a step of its own code takes it, callbacks
  return, and a worker that contends for `job->mutex` gets it in the end; nobody is obliged
  to call `do_job`, `cancel_job` or `exit`.
* `VcpuControl`: weak fairness of threads and of signal delivery (the kernel delivers
  pending signals to running threads), strong fairness of the lock acquisitions (a mutex
  that is released again and again is granted).  Nothing is assumed of the guest or of
  users; a property that needs the guest to exit, or a user to resume, says so in its own
  left-hand side.
* `VirtQueue`: the I/O thread runs; the driver decides about a kick after it has published
  requests and its interrupt handler runs to the end.  It need not submit.
* `transport`: each thread of the program goes on (the vCPU that takes queues down, the epoll
  thread, I/O thread or job, the poll thread of the terminal, the vhost worker).  Nothing is
  assumed of the driver or the user.
* `devices`: the terminal thread visits the ports as long as input waits (`poll` is level
  triggered), and the guest reads while the line is high; the IPC thread, the pool and the
  statistics driver of the guest; the main and the display threads; the processes that
  have sent a command.  `InputRead` and `CommandHandled` name what else a guest keeps to.
* `net`: the threads of the stack and of the queues go on; a guest that has added buffers
  kicks (its driver's last act of adding them).  All weak: a step that waits is disabled.

## 5. Proofs

Checked with TLAPS.  Each theorem holds for every value of the constants that satisfies
the assumption named in the module that declares them; TLC evaluates the same
assumptions on every run.  The proofs about a composition (`MCTransport`, `MCPci`,
`MCMachine`, `MCDevices`, `MCNet`) have an inductive invariant for each part, and a lemma that a
step of the composition is a step of one part and of no other.  Each invariant has a
lemma per action, and the invariants below are the strengthenings that the properties
need.

* `HostProofs` (`PoolAssumption`: finitely many workers, disjoint from the callers;
  `P9Assumption`, `IovecsAssumption`, `FileAssumption`, `CpuMaskAssumption`, `DiskAssumption`).
  `PoolInvariant` is `Spec => []PoolInv`; `TypeCorrect`, `SingleRunner`, `ListSound` and
  `NoWorkLost` follow.  `OneRunner` is not inductive: that two workers do not run a job needs
  that the job is in one place (`OneOwner`: on the list or held by one thread), that its
  count is positive exactly then (`Backed`), and that a loaded count is not stale when it is
  stored although `cancel_job` does not take `job->mutex` (`Locked`, with `CancelAlone`).
  `P9Holds` needs that no two fids have a descriptor and that a path with a component ".."
  never gets into the table.
  `TransfersTrue`: what was moved is a prefix of the vector up to the element and the byte
  the loop is at, so the offset in the file is the start plus the total; the length of a vector
  is by partial sums.  `CpuMasksTrue`: `CmIInv` relates the bits that are set, the word and
  the bits left of a run, and the group of the region under way; what the shifts and masks
  of a word do to its set of bits is proved once.  `UtilitiesHold` joins the two.
  `DiskHolds` is `DiSpec => []DiskTrue`.  `DiskIInv` has, for a qcow image (`ImgOk`), that the
  tables stay as `DiskAssumption` has them; that a cached L2 table is the one in the file; that
  no refcount block is cached twice and a count that is zero in the cache is zero in the file
  (a failed write leaves the cache ahead of the file, never behind); and that `vdisk` is what
  the tables name (`Held`) wherever the L1 table reaches and does not hold the -1 of a failed
  allocation (`Tells`).  A cluster that scanning finds
  free is then named by no table, and writing to it changes no other cluster of the guest.
  The scan, the growth and the counting on the way back are shown to keep this turn by
  turn: a loop that broke it would have a first turn that does.
* `VcpuProofs` (`VcpuAssumption`: at least one vCPU).  `VcpusSafe`, `NoSecondPause` and
  `PauseHolds`.  `VcpuIInv` counts: the answers that `kvm_pause` has read, those in the
  eventfd and the vCPUs still to answer make up the vCPUs it has been past (`CountInv`);
  each of those is parked, will be, or is on its way out (`ParkInv`); and it says who holds
  `pause_lock` (`LockInv`) and how far the main thread's creations and joins have come
  (`ThreadsInv`).  It is about the living process: after a `fault` only the properties
  themselves are claimed.
* `VirtQueueProofs` (`QueueAssumption`: the index modulus is a multiple of the ring size).
  `RingsAreQueues` is the refinement `Spec => QueueSpec`: no descriptor head is in two places
  (`Apart`) and none has disappeared (`Counted`), so neither ring is overrun and its window
  is the abstract sequence; the arithmetic of remainders is proved once, as lemmas.
  `KicksKept`: a sleeping I/O thread has armed the event index, and what it has not seen is
  in the batch that the driver has yet to consider.  `NotificationsKept` is
  `Spec => []QueueInv` with the hypothesis `MaxLag < IdxMod`: the code compares indices
  modulo 2^16 and `last_used_signalled` moves only on a signal, and `IrqNotLost` fails with a
  lag of one turn (section 4).
* `TransportProofs` (`VAssumption`).  `TransportsSafe`: the live queues are those the present
  driver has got to (`StageOK`) and the doorbells those of the queues not between the two
  steps that take them down (`MatchOK`).  `SignalsRecorded`: an invariant per kind of
  interrupt.  `BackendsKept`: the console's job has a ring while it is signalled, waiting or
  running, and what the kernel was handed is of the session that runs.
* `PciProofs` (`BusAssumption`; `BarAssumption`: BARs are apart at home, addresses fit;
  `MxAssumption`, `VdAssumption`, `VfAssumption`).  `BusInvariant` is `Spec => []BusInv` of the
  bus alone: `NoUseAfterFree` needs that the reference counts are exactly the numbers of
  users (`RefsExact`).  `PciInvariant` is `PciSpec => []PciInv`, and `NeverFreedInUse`,
  `RemovedGo` and `PciTypeCorrect` follow; it adds `Placed` (a write knows its BAR, whose
  address makes a proper region) and does not depend on `Rules`.  `BarsHold` is
  `PciSpec => []BarsTrue`.  What it needs between two writes is `Settled`: flags and regions
  agree, regions are those of decoded BARs, and a decoded BAR without one has another in its
  way or was left off.  Within a write `WriteAt` says, by stage, what the loops have done: a BAR
  under way has lost its region, the BARs over its new place are off up to the counter, those
  over the old one are back up to it.  The overlap test in u32 arithmetic is shown to mean
  overlap for every BAR that is not sized (`OverlapMeans`).  `MsixHolds`: no two users
  have a route in common, and none has that of a forgotten eventfd.  `VfioDeviceHolds`:
  devices come and go in order, a group's count is the number of its devices that hold it,
  and no two BARs have a trap or a slot in common.  `VfioIrqHolds`: `VfIInv` is `VfSafe`, which
  survives any failing ioctl, and `VfClean`, which holds until the first one.
* `MachineProofs` (`PlicAssumption`, `FlashAssumption`, `KbAssumption`, `SerialAssumption`,
  `MemAssumption`, `XicsAssumption`).  `PlicHolds`: a source has one taker, and an unclaimed
  edge keeps its level high.  `FlashHolds`: blocks and buffers divide each other, so that a
  buffered program stays in the block whose lock was looked at.  `KeysInOrder`: the bytes
  between the indices of a ring are those queued, one thread is inside, and its registers
  hold what it will store.  `SerialHolds`: the line status is true after every part of a
  step.  `InputInOrder`: what was read, the FIFO from its read index on and the terminal's
  characters add up to what was typed; that leaving out the escapes commutes with appending
  and taking a prefix is proved once (`PlainAppend`, `PlainSkip`).
  `BanksHold`: `MemIInv` has the host memory of banks apart and the slots of KVM exact;
  that the walk over the banks keeps them is induction over the list, done as the
  argument about the first bank after which the walk's invariant would fail.
  `XicsHolds`: `XGood` relates presenters and sources: what is presented is as the xive
  says unless retargeted (`Faithful`), more favoured than the vCPU unless outranked
  (`Above`), what is owed is held somewhere, and the rejected sources that a resend has
  already seen to could not be taken (`AllWait`).  A resend forgets the last part and
  establishes it again source by source, with the same argument as for the banks.
* `DeviceProofs` (`BalloonAssumption`, `CommandsAssumption`, `InstancesAssumption`).
  `StatsAreFresh`: the request that the IPC thread waits for is at one place of the way to
  the guest and back.  `ScreensMapped`: what is left of the exit list, and that the calls
  which wait have waited.  `ManagementHolds`: once answered, a pause or resume command is
  the one the IPC thread serves; a process without a live namesake knows its files.
* `NetProofs` (`UipAssumption`: a pool of at least one buffer, numbered from one;
  `NetAssumption`).  `StackSafe`: the two counters are the numbers of free and used buffers,
  each thread that cooks a frame has one of its own, sockets are listed from allocation
  to close, acknowledgements never exceed what the host took (in frames under way too),
  and a reset has stopped whom it has passed.  `FramesPublishedWhole`: the buffers not yet
  published add up to what was copied, and `Total` of a sequence is by partial sums.

Only model-checked:

* liveness (`PauseEnds`, `TransportProgress`, `DevicesProgress` and the others): fairness and
  `ENABLED` are out of the prover's reach;
* `RbInv`: order and black height of the red-black tree are defined by recursion over the
  tree, and rebalancing climbs it, so that its correctness for trees of every size is
  induction over data.

## 6. Reading the wrong versions

Next to a definition that a bug would most likely touch stands a wrong version of it
(`GoesAlways` before `GoesNow`, `LineKept` before `LineAfter`, ...).  They are never part of a
specification; `PROJECT.json` names, for every property of a passing run, the one that
breaks it.

## 7. What is not modelled

Whole components: machine set-up and boot loading on all architectures (loading files,
filling in tables and registers: the meaning is in the bytes), the kernel's interrupt
controllers (GIC, AIA), the RTC (an index register and the host's clock), option parsing,
and third-party code (libfdt, the display libraries).

In the components that are modelled: failing `pthread_create` and `malloc`, the powerpc
task protocol of `kvm_cpu__run_on_all_cpus`, descriptor chains and their memory, coalesced
MMIO zones, configuration reads and PCI capabilities, I/O threads cancelled inside a
section, header fields and checksums of packets, the marshalling and file data of 9p,
asynchronous disk I/O, byte order, scan code tables, `irq__alloc_line`, and terminals other
than the escape character and Ctrl-A x.
