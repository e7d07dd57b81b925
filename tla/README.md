# Verification of the kernel-development exercises

The repository is a collection of Linux kernel modules and a few user programs,
each in a directory of its own and independent of the others. There is no
shared library and no call between directories: what interacts are the parts
of one driver with the kernel, with user tasks, with its own threads, timers
and completion handlers. The project therefore has one group of modules per
driver that has a protocol of its own, and one module that several drivers
share because their code does.

## Inventory

| Part | State it keeps | Operations | What is hard about it |
|---|---|---|---|
| `USB/usbdrv3.c`, the USB skeleton driver | reference count, `limit_sem`, `submitted` anchor, the read URB and its buffer, `errors`, `disconnected`, `io_mutex`, `err_lock` | probe, open, release, flush, read, write, two completion handlers, suspend, resume, pre/post reset, disconnect | user tasks, the USB core and completion handlers run at the same time; two locks; URBs fail, are unlinked or complete late; the device goes away at any moment |
| `BlockDriver/blk1.c`, the RAM disk | `users`, `media_change`, the removal timer, the data array | init, open, release, media_changed, revalidate, timer handler, request, ioctl, exit | the timer races with open and exit; set-up fails half way; requests are served side by side without a lock, segment by segment |
| `WaitQueue/wait1.c`, the ring buffer | `head`, `tail`, `ring`, `condition` | read, write | no lock at all; a condition flag beside the ring; signals |
| `Completion/comp1.c` | the completion, `completion_flag`, `read_count` | read, the waiting thread, exit | the flag is shared by readers, the thread and the exit; exit does not wait for the thread |
| `Spinlock/spin1.c`, `spin2.c`, `Mutex/mtx1.c`, `Semaphore/sem1.c`, `SeqLock/seqlock1.c`, `Atomic/atomic1.c` | a counter and a lock, two threads | init with five registrations, the threads, exit | an increment is a load and a store; where the lock is set up; `kthread_stop`; error pointers |
| `USB/usbdrv4.c`, the USB character driver | the mutex `m`, `in_buf` and `in_buf_left_over`, the minor and the data of the interface | probe, open, close, read, write, disconnect | open by `mutex_trylock` against disconnect; transfers in progress when the device goes; input read in pieces |
| `USB/usbdrv1.c`, the mouse | per device an interrupt URB and an input device; one device number and the flag `registered` for all | probe, open, close, the URB's handler, disconnect, exit | the handler submits its URB again while close kills it or the device goes; two devices share the number |
| `Signal/signal1.c` with `sig1usr.c` | the registered `task`; in the program `done` and `check` | ioctl, read, release; the program's loop and two signal handlers | tests and uses of `task` by several processes without a lock; signals at any point |
| `Kthread/thread1.c`, `thread2.c`, `Signal/signal2.c` | two task pointers | create, threads that end on a signal, `kthread_stop` | a pointer the thread clears, or fails to, and the exit tests |
| `Timers`, `Tasklet`, `WaitQueue/wait2.c` | a timer, tasklet or work item | start, handler, stop | what still runs when the exit has returned; a handler that waits for itself |
| `Watchdog/watchdog.c` | options, the ping rate; in the device a countdown | eleven options, the ping loop, two ways to end | the machine is reset if any of it goes wrong; SIGINT before its handler, signals that kill |
| `UartDriver`, `IRQ` | a timer, an interrupt | start, handler, stop | a timer that starts itself again |
| `Sysfs`, `Procfs`, `Debugfs`, `CharacterDriver*`, `ReadonlyCharacter`, `MiscDriver` | one buffer or value | open, read, write, store | shared one-shot flags, buffer bounds |
| `SocketTCP`, `SocketUDP` | user programs | one exchange of messages | - |
| the rest (`HelloWorldModule`, `ModuleParam`, `KOOPS`, `PlatformDriver`, `PCI`, ...) | none to speak of | print, register, unregister | - |

`PROJECT.json` lists every part with its files, and every hazard at its line.

## Modules

| Module | Models | Actions and their code |
|---|---|---|
| `UsbSkel` | `usbdrv3.c` | one action per stretch of a handler that runs without another task being able to see or change what it uses: `ReadLock`, `ReadCheck`, `ReadRetry`, ... are the steps of `skel_read`, `Disconnect...` those of `skel_disconnect`, `ReadCallback` and `WriteCallback` the completion handlers |
| `BlkDisk` | life, users and timer of `blk1.c` | `Setup...` are the steps of `setup_device`, `Open...`, `Release...`, `Invalidate`, `Exit...` |
| `BlkIO` | `blk1_request` and `blk1_transfer`, for requests served side by side | `RequestStart`, `CopySector` (one sector of the memcpy), `NextSegment`, `RequestEnd`, each for one of the `Tags` |
| `Blk` | the whole of `blk1.c`: `BlkDisk` and `BlkIO` over one `data` | `DiskStep` is a step of `BlkDisk`, `Request` one of `BlkIO`, begun while the disk is open; the copying of a sector is the `Write` of `BlkDisk` |
| `WaitRing` | `wait1.c` | one action per access to a shared variable; readers and writers share the actions because `my_read` and `my_write` have the same shape |
| `CompletionDrv` | `comp1.c` | one action per access to the completion or the flag |
| `UsbChar` | `usbdrv4.c` | `Probe...`, `Disconnect...` are the steps of the USB core; `OpenFind`, `OpenTry`, `Close`, `WriteSend` (one round of the loop), `ReadLeftOver`, `ReadMsg`, `ReadFault`, `ReadCopy` those of a task |
| `ThreadedDriver` | `test_driver_init` and `test_driver_exit` of the six counter drivers | one action per registration, with its ways to fail, and per `kthread_stop` |
| `CounterDrivers` | the threads of `spin1.c`, `mtx1.c`, `sem1.c`, `spin2.c`, `seqlock1.c`, `atomic1.c`, and the order in which each sets up its lock | extends `ThreadedDriver`; `drv`, chosen by `Init`, says which driver it is and never changes |
| `Counter` | the abstract counter all six implement: a value that each increment moves by one, modulo its width, and the number of increments made, so that two increments that store one value are not taken for one | |
| `UsbMouse` | `usbdrv1.c` | `Probe...`, `Disconnect...`, `usb_mouse_open`, `usb_mouse_close` with `Killed` for the return of `usb_kill_urb`, `IrqSubmit` and `IrqTail` the two halves of the handler |
| `SignalApp` | `signal1.c` and any number of processes running `sig1usr.c` | one action per access to `task`; `Spin`, `Loop` and the two handlers are the program |
| `Teardown` | `thread1.c`, `thread2.c`, `signal2.c`, `timer1.c`, `timer2.c`, `tasklet1.c` to `tasklet3.c`, `wait2.c` | `drv` is the module that is loaded; each has its init, its functions and its exit, and they share the state of a job because the kernel's ways to start and stop one are few |
| `Watchdog` | `watchdog.c` and the device | one action per option, `keep_alive`, `term`, ...; `Tick` is the device's countdown |
| `...Proofs` | theorems about the modules they extend: `ProgramProofs` about `Watchdog` and `SignalApp`, `WaitProofs` about `Teardown` and `WaitRing` | |
| `MC...` | instances for TLC | |

Definitions marked "Mutant" are deliberate faults. They take no part in any
specification; each is put in the place of the definition it precedes to see
that a property can fail.

### What stands for the kernel

The kernel is not part of the repository and is modelled by what the drivers
rely on:

- USB: `usb_open` holds `minor_rwsem` for reading around `skel_open`, and
  `usb_deregister_dev` takes it for writing; suspend, reset and disconnect of
  one device are serialised by the device lock; tasks are frozen before a
  system suspend; `usb_bulk_msg` of at most one packet transfers it or nothing,
  and always returns; `usb_kill_urb` and `usb_kill_anchored_urbs` return only when
  the handlers have run; a URB of a device that is being unbound fails.
- Block layer: `bd_mutex` serialises opens and closes of the disk; the module
  cannot be unloaded while the disk is open; requests lie within the capacity,
  come from tasks that have the disk open, and the last close waits for them
  (`Close` of `Blk`); nothing keeps two requests to one sector apart.
- Input core: it calls open for the first user and close for the last, one at a
  time; `usb_disable_endpoint`, before a disconnect, gives URBs back unlinked.
- Timers and tasklets: `del_timer` waits for nothing, `del_timer_sync`,
  `hrtimer_cancel`, `tasklet_disable` and `tasklet_kill` wait for a handler that
  runs.
- Signals: SIGTEST is queued, one per `send_sig_info`; a process takes its
  signals outside the driver; the kernel closes the file of a killed one.
- Watchdog device: opening starts it, a `V` before the close stops it unless
  its driver was loaded with `nowayout`, it may refuse any ioctl and need not
  know pings.
- Threads: `kthread_stop` returns when the thread function has returned;
  kernel threads get no signals unless they ask for them; to stop a task that
  has ended is a fault; `kthread_run`,
  `class_create` and `device_create` report failure by an error pointer. The
  drivers test for NULL, so both outcomes are in `Outcomes`. `device_create` for
  a class that is an error pointer returns one, and `device_destroy` for it is
  an oops, as is `wake_up_process` of one.

### Abstractions

- `UsbSkel`: payloads are numbers of bytes; `errors` is one of four classes
  (none, a reset's -EPIPE, an unlink, any other).
- `BlkIO`: one step of a memcpy copies one sector, and the content of a sector
  is a number. The code treats every byte of a sector alike and none together
  with another, so that a behaviour in which copies are cut within a sector is,
  seen at the byte with number j of every sector, one of the model; what is
  shown of sectors holds of every byte. The memcpy goes upwards. The reference
  for writes that overlap (`want`) is the set of what they give: of writes that
  overlap in a chain, a with b and b with c, it allows a, b or c, though c began
  after a had ended. `blk1_ioctl` computes a geometry, changes nothing and is
  left out.
- `UsbMouse`: the packet's content is left out; a handler that has submitted its
  URB again and still reads the buffer (`tail`) may share it with the next
  packet, which is what the code does.
- `SignalApp`: the program is built without optimisation, so that its loop reads
  the flags, which are not volatile, again; `test_driver_init` succeeds or fails
  in one step: that a failure after `cdev_add` leaves the cdev registered
  (`signal1.c:137`) and that error pointers pass its tests for NULL is left to
  `ThreadedDriver`, which has the same code. `Watchdog`: time is ticks, and
  passes while the program sleeps or is not running.
- `Teardown` leaves out that the threads of `thread2.c` (`:27`, `:49`, `:79`) and
  `signal2.c` (`:24`, `:46`) call `get_cpu` without `put_cpu` and so sleep with
  preemption disabled, which the kernel complains about and survives.
- `WaitRing` numbers the bytes in the order in which they are written.
- `UsbChar` numbers the bytes of the device's stream modulo `Numbers`. Every
  file is used by one task: threads that share a file share `in_buf` without
  a lock, as a comment of the code says.
- Counters count modulo `Modulus`, the 2^w of the C type.
- Messages are left out, except where what a message says is the property.

## Runs

Bounds are named constants of the modules.

| Run | Instance | Shows |
|---|---|---|
| `usb` | 2 tasks, 1 write slot, a buffer of 2 bytes, reads of 1 or 3, `FairSpec` (251,736 states) | the object is freed once, and only unused; no I/O after a disconnect or during a reset (`NoIOWhenStopped`); slots add up; the read URB has one owner and an ongoing read comes to an end (`ReadUrbOwned`); no received byte is overwritten before it is read (a `copy_to_user` that fails still uses its bytes up); a disconnect completes |
| `usb_error_once` | 2 tasks (symmetric), 1 slot, 1 byte | finding 1 |
| `usb_char` | 3 tasks, packets of 3 bytes, output buffer of 2, counts 0, 1 and 3, `FairSpec` (91,024) | never freed under its user; input arrives in order, nothing lost or repeated; a disconnect waits only for a file left open |
| `blk` | 2 tasks, 3 sectors, 2 requests side by side with one or two segments of equal and unequal lengths, at most 2 requests between two changes of the data by the disk, `BlkFairSpec` (169,927) | the timer is armed only for an unused, live device; no task works on a stale medium; writes with segments of one length leave in each sector what one of the overlapping ones gave (`WritesLand`), reads return what each sector held at some moment since they began (`ReadsReturn`), whatever is served beside them and the disk does meanwhile; data is erased only unused; every open returns; an idle disk changes its medium |
| `ring` | 1 reader, 1 writer, `RINGSIZE` 3, 7 writes (7,286) | first in, first out, until a byte is stored into a full ring; and that only a writer that came with `head` at 0 does this |
| `completion` | 3 readers, 4 reads, `FairSpec` (3,923) | no read lost, none invented (`ReportsAreReads`: the exit's event counts as a read only if the thread cleared the flag after the exit had set it); each wakes the thread, and a thread that waits ends at exit (`EventsArrive`) |
| `counters` | the six drivers, counters modulo 4, 3 write sections of the sequence lock, every registration succeeding or failing in either way, `FairSpec` (58,498) | no increment lost (`Counter` is implemented), undisturbed reads, the bit of `atomic1.c` in step with the count (`BitFollowsCount`), locks set up before use and what is printed inside them theirs (`LockProtects`), clean exit, what crashes and failed loads leave explained by the results of kernel calls (`FaultsExplained`), removal completes |
| `seqlock_removal` | the same | finding 2 |
| `teardown` | the nine modules, two jobs each, every `kthread_create` failing or not, `FairSpec` (891) | `LeftBehind`: of each module, what may still run when its exit has returned; a dead task is stopped only after a kill; threads that are stopped or killed end; insmod and rmmod return, except rmmod of `tasklet1.c` |
| `mouse` | 2 devices, 2 users each, `FairSpec` (172,223) | the URB is in flight for a user and for nobody else; an open mouse is polled without a gap; the device number is given back; close returns |
| `watchdog` | timeouts 2 and 3, ping rates 1 to 3, 3 options a run, any number of runs, devices with and without pings and `nowayout` (2,282) | a reset comes of pings that are too rare or not supported, or of a last run that was killed or could not stop the watchdog |
| `signal_app` | 3 processes, `AppFairSpec` (370,199) | the registered task is alive and has the file open; a program that is alone gets exactly one signal for its read; an interrupted program ends |

Why the bounds are enough: two tasks make every pair of calls meet, and the
code never counts tasks except in `users`, the reference count and
`limit_sem`, which the theorems cover for any number. With one slot a
writer finds `limit_sem` free or taken; a buffer of 2 bytes and reads of
1 and 3 leave bytes over and make `skel_read` go round its loop. For
`usbdrv4.c`, packets of 3 bytes and counts 0, 1 and 3 give a read of nothing,
of a part (twice) and of everything. A counter modulo 4 wraps several times,
and three write sections are more than the two one read can meet before it
must retry. With `RINGSIZE` 3 the ring is empty, half full and full, and 7
writes go round it more than twice. Requests of two and three sectors on a
disk of three lie at its end and away from it and overlap in part or whole;
their segments are equal, or the second is longer or shorter than the first, so
that the length of the first runs over a segment and over the end of the disk.
Two requests on a medium (`MaxRequests`) are one after the other or side by side,
with every interleaving of their copies; with any number of them and one task TLC finds
the same (840,465 states), and the theorems have no bound. Three processes let one register between another's
test and its use of `task` while a third leaves. A ping rate of 1, 2 and 3
against timeouts of 2 and 3 is below, at and above the timeout. Two mice are
enough for one to take the other's number; what concerns one device is proved
for any number of them.

### Fairness

Weak fairness of a task's, thread's or handler's steps stands for a scheduler
that runs what can run. It is not assumed for calls a user starts, for
plugging and unplugging, or for the module's load and removal; in `UsbChar`
nobody has to close a file. Strong fairness is assumed only for taking a
mutex, spin lock or semaphore that is free again and again (the kernel queues
waiters or uses ticket locks) and for the completion of a URB that is being
killed. In `UsbMouse` the completion of a URB is fair only once it is being
killed, a device need not answer; in `Teardown` nobody has to load, unload or
kill; in `SignalApp` nobody has to press ctrl-c.
`seqlock_removal` is refuted under such a fair specification, so the hang is not
a scheduler that stops.

## Proofs

| Module | Theorems | Argument |
|---|---|---|
| `UsbSkelProofs` | `TypeCorrect`, `Safe`, `LeakFree`, `Quiescence`, `SlotAccounting`, `ReadUrbOwnership`, `NoDataDropped` | `IInv`: who holds `io_mutex` and `err_lock` by place in the code; `kref` is the number of openers plus one for the core; the slots add up; `ongoing_read` is true exactly while a URB is in flight or its submitter is on the way; nothing is submitted once `disconnected` is set |
| `BlkProofs`, about `BlkDisk` | `BlkInvariance`, `BlkTypeCorrect`, `TimerSafe`, `MediaFresh`, `EraseSafe` | `BlkInv`: `users` is the number of tasks between open's count and release's; who holds the lock; the timer is pending only when `users` is 0 and no open is past `del_timer_sync`; what each step of load and unload has left |
| `BlkProofs`, about `Blk` | `IOInvariance`, `WritesAllLand`, `ReadsAllReturn`, `DiskStaysSafe` | `IOInv`: a request is in progress only while a task has the disk open (`Attended`); as long as its segments are of one length the position is the start of the segment it is at (`InStep`); every sector holds something a write in progress or the last ones gave, and one that a write has passed does not hold what was there before (`Landing`); what a read has copied is something the sector was allowed to hold since it began (`Returning`) |
| `CompletionProofs` | `ReportsBounded`, `NoReadLost` | `CompInv`: events reported, held by the thread, pending or about to be signalled are at most the calls made and the one of the exit; the flag is the exit's only from the exit on |
| `UsbCharProofs` | `NeverFreedInUse`, `OneUserAtATime`, `StreamInvariance`, `NoByteLost` | `LockInv`: a task owns `m` exactly between open and close; the data of the interface is set only between probe and disconnect; a task can be on its way into open only before `usb_deregister_dev` has returned, and own `m` only before disconnect has got it. `StreamInv`, on top of it: only the owner of `m` moves the stream; a read that asks the device has used up what was left over (`BufferInv`); the numbers of buffered bytes are shown by arithmetic modulo `Numbers` |
| `CounterProofs` | `CounterTypeCorrect`, `LockDiscipline`, `ReaderUndisturbed`, `BitParity`, `ExitClean`, `FaultsAccounted`, `CounterRefinement` | `CounterInv`, for all six drivers at once: who is inside the lock by place in the code; the register and the printed value of the one inside equal the counter; the sequence is odd exactly inside a write section unless `seqlock_init` came too late; the bit's parity with the increments not yet followed by their change; which threads exist at each step of load and exit; which results of kernel calls the later steps can meet (`FaultInv`) |
| `UsbMouseProofs` | `ClosedIsQuiet`, `OpenIsPolled`, `NumberGivenBack` | `MouseInv`: `usb_kill_urb` runs only when there is no user, and users need the input device; closed and polled are proved together, since the handler submits again only for a user or into a kill that rejects it; `MajorInv` follows the one device between probe and disconnect and says at each place who has the number |
| `ProgramProofs`, about `Watchdog` | `WatchdogInvariance`, `NoUnexplainedReset` | `WatchdogInv`: while the program sleeps with pings that arrive in time, less of its sleep is left than of the countdown; a watchdog that runs without the program was left running by a run that could not stop it |
| `ProgramProofs`, about `SignalApp` | `SignalInvariance`, `PointerAlive`, `LoneProgramServed` | `SignalInv`: the module stays while its file is open; for one process alone, it is the registered one from ioctl to read and what it loaded is itself |
| `WaitProofs`, about `Teardown` | `TeardownInvariance`, `NothingElseLeft`, `StopMeetsTheLiving` | `TeardownInv`: a thread ends only stopped or killed, and is stopped only where the exit has come to it; a pointer the exit finds cleared belongs to a thread of `signal2.c` that is leaving or gone; a deferred job is in the states of its own module only; in `wait2.c` the condition is set by the work that has run |
| `WaitProofs`, about `WaitRing` | `RingInvariance`, `FirstInFirstOut` | `RingInv`: `tail` is the number of bytes stored modulo `RINGSIZE`, `head` that of bytes taken (`IndexInv`, `ContentInv`); the cells between hold the bytes in order; the `head - 1` a writer goes by is the one of a moment since which bytes have only been taken (`RoomInv`), so that its test of a stale value errs on the safe side, unless that value was -1 |

The theorems on the disk and on its requests need each other: the copying of a
sector is the `Write` of `BlkDisk` because some task has the disk open, and
erasing never meets a request because `BlkDisk` erases only an unused disk.
`DiskStaysSafe` carries the theorems of `BlkDisk` over to the whole driver.

The safety properties by themselves are not inductive: "no use after free" says
nothing about how many references there are, "no lost increment" nothing about
what the other thread has loaded, "freed only unused" nothing about an open
that has found the structure and not yet tried its mutex.

The assumptions are the named ones on the constants: finite sets of tasks,
owners that differ from each other, positive sizes, an even `Modulus`, a ring of
at least two cells, more `Numbers` than a packet has bytes, a hardware sector
that is a multiple of `KERNEL_SECTOR_SIZE`, and `ContentAssumption`, by which the
media of `BlkDisk` are the arrays of sectors of `BlkIO`. The theorems hold for any
number of tasks, slots, sectors, bytes and requests served side by side, any
width and any list of segments.
`FirstInFirstOut` and `RingInvariance` have one reader and one writer as a
hypothesis, because with two readers the property is false (`wait1.c:58` below).

What needs induction over data, the start of a segment as a sum of lengths and
the order of these sums, is proved from the least number for which it fails
(`LeastNat` and `SetInduction` in `BlkProofs`).

Every safety invariant, action property and refinement of a passing run is
stated by a theorem. Only model-checked are the liveness properties, since fairness
is beyond the prover: `DisconnectCompletes`, `OpenReturns`, `IdleDiskChanges`,
`EventsArrive`, `ExitCompletes`, `DisconnectEnds`, `ThreadEnds`,
`ModuleCallsReturn`, `CloseReturns` and `InterruptEnds`. Proved and in no run of
their own: the type invariants and `OneUser` of `UsbChar`.

## Findings

Two are the counterexample of a run; `PROJECT.json` quotes the line of the
repository each contradicts.

1. `skel_read` and `skel_write` clear `dev->errors` under different locks and
   can both report one error (`usb_error_once`).
2. `seqlock_init` after the start of the threads can make the removal of the
   module hang for ever (`seqlock_removal`).

Two more are the exceptions the properties of a passing run have to make:

- `blk1.c:122`: a request with segments of different lengths is transferred with
  the length of the first and ends with success. The reference allows such a
  write anything from its start on (`Field`, `Gives`) and `ReadsReturn` says nothing
  of such a read; without these exceptions TLC refutes both.
- `wait1.c:25`: `(head - 1) % RINGSIZE` is -1 when `head` is 0, and a full ring is
  written to, although the comment above says "sleep if necessary until the
  ringbuffer has room for new data". `Fifo` speaks of the time before
  (`overrun`) and shows that this is the only way it happens.

The models also reach these states, which have no run of their own because
nothing but the reader's expectation is contradicted, or because one run per
driver shows enough:

- `usbdrv3.c:169`: the status of an unlinked URB is stored as an error although
  the lines above except it from the message; `:618`: a writer can wipe out
  the notification of a reset.
- `blk1.c:339`: `blk1_init` succeeds when `setup_device` has failed; after
  `out_vfree` the exit then frees the data a second time (`:315`, `:360`; `mem` is
  "freed_twice"). `:289`: `blk_mq_init_sq_queue` fails by an error pointer, which
  the test for NULL lets through and the next line follows. `:231`: the
  made-up geometry takes bytes for sectors.
- `wait1.c:53` and `:26`: the shared `condition` can leave a reader asleep
  beside data and a writer beside room; `:58`: two readers can get one byte.
- `comp1.c:59`: the exit's event can be taken for a read, and then the thread
  survives the module.
- `spin1.c:154` and its five copies: a failed `kthread_run` is an error pointer
  and passes the test for NULL; stopping it is an oops. So is, at exit, the error
  pointer of a failed `class_create`. If the second thread could not be created
  the first runs on in the module that is being unloaded. `comp1.c:137`: the
  error pointer of `kthread_create` is woken up.
- `signal2.c:33`, `timer1.c:31`, `tasklet2.c:32`, `wait2.c:39`: the exit may return
  while code of the module still runs; `LeftBehind` says which. `thread2.c:59`:
  after a kill the exit stops a task that has ended. `tasklet1.c:12`: the tasklet
  waits for itself, and rmmod for the tasklet.
- `usbdrv1.c:251`: the input device is never unregistered, and can be opened after
  the disconnect and after the module has gone; `:229`: a second mouse clears the
  flag of the first, whose number is then never given back.
- `watchdog.c:240`: SIGINT before the handler is there, and SIGTERM and SIGHUP at
  any time, leave the watchdog running; so does a failed WDIOC_GETSUPPORT.
- `signal1.c:60`: a process that leaves can clear the pointer of the one that has
  registered since, whose read then sends no signal, or uses NULL.
- `usbdrv4.c:244`: without memory for the structure the error path reads
  through NULL.

## Plan

Done: the drivers and programs above. What is left, in order:

1. Theorems: what several readers and writers of `wait1.c` can still rely on (that
   both indices stay in the ring and a byte taken had been stored).
2. The registration of the character, proc and sysfs drivers, which is the one of
   `ThreadedDriver` without threads.

Drivers of one kind share a module and a run, as the six counter drivers and the
nine of `Teardown` do, so that a question is asked once for all of them.

## Not modelled

- `UartDriver/test_serial.c`: from kernel 4.15 on its timer callback is handed the
  timer where it expects the port, so the driver's behaviour after the first
  expiry is undefined.
- `Sysfs`, `Debugfs`, `CharacterDriver*`, `MiscDriver`: one value or buffer, set
  and copied in one call. There is no protocol, and a property would restate the
  assignment. `sysfs-poll-user.c` does not compile.
- `Procfs`, `ReadonlyCharacter`: as above, with one read position (`len`,
  `msg_Ptr`) for all open files. With a single reader every read is sequential;
  a second one takes part of the first one's answer, and the code promises
  nothing about it.
- `IRQ`: the handler prints. The init's error path frees an interrupt that it
  could not request.
- `SocketTCP`, `SocketUDP`: one exchange over the kernel's sockets.
- `NetworkDriver`, `PlatformDriver`, `Framebuffer`, `PCI`, `IIODriver`, `GpioChip`
  and the module basics register themselves and print.
- `usbdrv2.c` prints the descriptors of the device it is bound to.

`PROJECT.json` gives the reason for each part.
