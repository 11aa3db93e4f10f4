# A TLA+ model of MINE OS

MINE OS is a small kernel in C for the S3C2440 (ARM920T) with a board's worth of
drivers.  It has no documentation and no tests; the code and its comments are
the reference.  This directory models the parts of it in which order matters:
interrupt handlers that share state with spinning programs, lists and queues
that many call sequences work on, allocators whose counters must agree, a file
system whose sectors reach the card one by one, and protocols with a partner
that does not wait.

## 1. The system

One CPU.  `main()` (`init/main.c`) initialises everything with interrupts off,
creates one kernel thread, enables interrupts and becomes the shell, task 0.
From the IRQ vector to the return of `do_irq` interrupts stay masked (`sti()` and
`cli()` are empty), so a handler is atomic towards programs and other handlers;
a program is interrupted anywhere.  Devices act on their own at any time, also
while a handler runs.  `do_irq` calls the handler, then `do_softirq`, then
`schedule`.  A failed assertion turns interrupts off and stops.

| Component | State | Operations | Interacts with | Hard behaviour | What makes it correct |
|---|---|---|---|---|---|
| Scheduler, `kernel/schedule.c`, `task.c` | sorted run queue, its count, time slice, run times, states | fork, tick, `schedule` after every interrupt | interrupts, tick | preemption in every order, division by a count | no thread lost or queued twice, count right, queue sorted, shares even |
| Timers, `kernel/timer.c`, `softirq.c` | circular list of timers by its pointers, jiffies, soft interrupt bit | init, add, delete, tick, fire | tick, drivers' callbacks | list not in expiry order, callbacks that change it | list intact; a timer fires once, never early, and eventually |
| Clock, `drivers/timer.c` | jiffies and the hardware counter | read time, wait, one-shot delay | tick, every timeout | reload before the tick is taken, two loads | near the true time; waits not cut short |
| Interrupts, `kernel/interrupt.c`, `irq.c` | descriptors; mask and pending registers of three levels | request, free, `do_irq`, demultiplex, acknowledge | every driver | requests raised between any two register accesses | requested lines open, others closed; no request swallowed; no assertion |
| Touch screen, `drivers/touch_screen.c` | mode, sample count, last report, timer | two handlers, timer function, read | timers, interrupts | stylus moves at any time | no torn read; never deaf; comes to rest |
| Heap, `mm/memory.c` | page bitmap, slabs, block bitmaps, counters at three levels | `kmalloc`, `kfree`, slab growth and return | everything at boot | nested allocation, give-back, exhaustion | counters match bitmaps; no block twice |
| I2C, `drivers/i2c/` | current message, controller registers | EEPROM read and write, interrupt per byte | interrupts, EEPROM | EEPROM silent during a write cycle | prefix written, bytes in place, bus released, calls return |
| Audio, `sound/wav.c`, `dma.c` | two buffers, DMA status, channel | fill, start, end of transfer, stop | interrupts, file system | transfer ends at any time | heard in order, whole, to the end |
| Infrared, `drivers/sensors/irda/` | ring of pulses, decoder's place | record pulse, read, decode, time out | clock, interrupts | lock-free ring, overflow, frames cut short | ring is a queue; only what was sent is reported |
| File system, `fs/Fatfs_f8a/` | sector window, file buffer, FAT, directory entries, free count | the `f_` calls | SD card, applications | full disk, failed sector, power lost in the middle | calls keep their promises; chains sound; what was synchronised stays |
| SD card, `drivers/sdi.c` | what the driver knows of the card; the card | initialisation, reads and writes of sectors | FatFs | lost answers, late or bad data, states of the card | sectors moved exactly; calls return |
| USB disk, `drivers/usbslave/` | endpoint 0 state, command/data/status stage, RAM disk | endpoint interrupts, control requests, SCSI commands | host | host goes on inside the handler; bus reset | data, status, replies exact and in turn; answered |
| Semaphores, wait queues, `kernel/semaphore.c`, `waitqueue.c` | counter and list | up, down, sleep, wake | scheduler | not built | – |
| Shell and applications, `kernel/command.c`, `kernel/app/` | line buffer, screens | line editor, commands | drivers | sequential | – |
| Display, serial, SPI, NAND, sensors, RTC, codec, MMU, boot, library | registers | polled accesses | – | – | – |

`PROJECT.json` lists every component with its status and every hazard at its line.

## 2. The order of the work

1. Scheduler, and its proof.
2. Timers with the abstract timer service; the touch screen driver over them.
3. Interrupts at the level of register accesses.
4. The heap against an abstract allocator.
5. Drivers that share state with a handler: I2C, audio, infrared.
6. The file system, call by call, against an abstract tree of files, with
   faults of the card and of the power.
7. USB mass storage against a host; the SD card driver against a card.
8. The clock, and with it the times that the infrared receiver works with.
9. Proofs for clock, infrared ring, touch screen, interrupts and I2C.
10. Proofs of what the data structures hold: the timer list and its service, the
    heap and its allocator, the bytes of I2C and of the SD card, the infrared
    decoder, the exact slices of the scheduler, the USB disk.
11. Proof of the bottom of the file system: its sector window, its FAT and the
    chains in it, under failed writes and losses of power.

All of this is done.  What would come next: the directories and the calls of the
file system without recursion, so that they can be proved about as well; FAT12, the
shell's line editor against a reference definition, and semaphores once they are
part of the build.

## 3. Modules

| Module | Models | How |
|---|---|---|
| `Scheduler` | `schedule.c`, `do_fork`, the tick | the list headed by `task_queue` is a sequence; an interrupt is one action ending in `Schedule` |
| `TimerService` | what timers promise | `pending`, `now`, `expire`; abstract |
| `Timers` | `timer.c`, `softirq.c`, `lib.h` | `next` and `prev` pointers as functions; one action per call, one per turn of `do_timer` |
| `Clock` | `drivers/timer.c`, the wait of `circle_buffer.c` | each of the two loads of a read is an action, in either order; timer 4 counts down beside them |
| `TouchScreen` | `touch_screen.c` | EXTENDS Timers; handlers are actions, `ts_read_raw` is one action per word copied |
| `Interrupts` | `interrupt.c`, `irq.c` | one action per access to the controller's registers |
| `BlockAllocator` | what an allocator promises | abstract |
| `Kmalloc` | `memory.c` | a call is one action; the heap is one record so that nested calls compose |
| `I2c` | `drivers/i2c` | handler one action with a disjunct per path; bus and EEPROM external |
| `AudioPlayer` | `wav.c`, `dma.c` | the player is one action per access to shared state; the DMA channel external |
| `EventQueue` | a bounded queue | abstract |
| `IrReceiver` | `sensors/irda` | a read of the ring is two actions, copy and advance; the remote control external |
| `FileStore` | what a file system promises a program | a tree of paths, a file, a current directory; abstract |
| `FatWindow` | the bottom of `ff.c`: window, FAT, chains; `diskio.c` | functions on one record; every sector that is transferred is counted, and may be the one that fails; at its end what they keep (`Sound`) |
| `FatVolume` | `ff.c` between that and the calls: directories, paths, mounting | EXTENDS FatWindow |
| `FatTree` | – | reads the tree of files off a disk image; used by properties only |
| `FatFs` | the calls of `ff.c` | one action per call; a call runs on the record of FatVolume |
| `SdCard` | `sdi.c` | one action per command with its answer, or per sector; the card external |
| `UsbMassStorage` | `drivers/usbslave` | the handler is four actions, as it reads its registers once; the host external |
| `SchedulerProofs`, `InterruptsProofs`, `KmallocProofs`, `UsbProofs`, `FatProofs`; `StorageProofs` (I2C, SD card); `TimersProofs` (timers, touch screen); `DeviceProofs` (audio, clock, infrared) | | theorems, section 6 |
| `MC*` | | constants for TLC |

How they fit together.  `TouchScreen` composes with `Timers` by sharing its
variables and list operators.  `FatFs` works on `FatVolume`, and that on
`FatWindow`, whose `disk_write` loses sectors as `Write_Mult_Block` of `sdi.c` does:
those before the failing one reach the card; `TransfersExact` of `SdCard` is that contract ("a call that fails
has written a prefix").  In one thing FatFs sees a kinder driver: it takes a failed
transfer for an error that returns, while in `SdCard` the call after a failed
transfer of several sectors may never return (`Stranded`, section 5).
`IrReceiver` takes from `Clock` what `EarlyOnlyAtTick` and `ClockNearTrue` leave
open: a wait may end at any time, and a time between edges may be wrong by a tick
(`Misreadings`).

The abstract modules are implemented by refinement: `Timers` implements
`TimerService` with `pending` the timers found by following the pointers;
`Kmalloc` implements `BlockAllocator` with `used` the set of blocks held (a block given
out a second time while it is held would leave that set as it is; it would be
counted twice and marked once, which `CountersMatchMaps` excludes); `IrReceiver`
implements `EventQueue` with the slots between the two indices; `FatFs`
implements `FileStore` with the tree that a program sees, which is the card with
the window, the file's buffer and its unwritten entry laid over it (`ViewOf`).

Definitions are named for the functions they model.  `Mut...` operators are
plausible bugs, each defined before the definition it would replace; they show
that a property can fail.

At this commit the touch screen's two interrupts never arrive (section 5), so
`TouchScreen` models the driver against the interrupts it was written for.

## 4. Runs

| Run | Bounds, and why they are enough | Shows |
|---|---|---|
| `kernel`: scheduler | 3 threads, 12 ticks, any number of other interrupts; slices are used up and granted several times, and threads overtake each other | count, nobody lost, fair shares, exact slices |
| `kernel`: clock | a period of 3, 8 units of time, waits of 2: reads and waits that begin, go on and end on every side of a tick, pending or not | clock near the true time, waits not cut short |
| `kernel`: audio | files of 0 to 4 pieces: each buffer filled twice; transfers end at any moment | order, assertions, end |
| `kernel`: I2C | 3 cells, 2 values, calls of 1 to 3 bytes: first, middle and last byte, and wrapped addresses | prefix, placement, message alive, calls return |
| `kernel`: SD card | every kind of card and none, 3 calls of 1 or 2 of 3 sectors, 2 faults, of which one may be at the end of the last sector | sectors exact but perhaps the last, calls return |
| `kernel`: heap | 3 sizes, two kept in their page and one not, slabs of 1 to 3 blocks, 6 pages; runs until memory is out, nested slabs included | counters, pages, refinement |
| `timers` | 3 timers, delays 0 and 2, 3 ticks; timers behind and before each other, added to lists of every shape | pointers, refinement, every timer ends |
| `touch` | 3 samples to a report, one timer, 2 coordinates, the stylus moving at any moment | list, reads not torn; held is sampled, release settles |
| `interrupts` | 2 main lines, one freed by its own handler, 2 external lines sharing a parent; a latched request is taken up to 2 accesses of the program late, which is just enough for it to outlive `free_irq` | no assertion but over such a request, open lines, each request handled |
| `infrared` | a ring of 3 slots, wrapped and overflowed within a frame; two frames of 3 keys after a cut one; one misread edge | ring is a queue; decoder |
| `fatfs` | FAT16 and FAT32 volumes of 4 and 5 clusters of 2 sectors of 2 cells, nearly full; programs of 2 to 5 calls, with one failing sector or one loss of power anywhere | refinement, chains, leaks, durability, listing |
| `usb` | a disk of 2 blocks of 2 packets; up to 3 control requests, 2 commands, 1 reset, in three mixes; replies of one and of two packets | data, status, replies, everything answered |

`kernel` checks six small modules at once, each on its own: the first state
chooses a part, and only that part moves.  (Nothing is shared between them in
the code but the interrupt, which each module has.)

A cell of `fatfs` is a FAT entry, a directory entry or a unit of data: with two
to a sector, the FAT has several sectors, a directory crosses sectors and
clusters, and a file crosses both.  Each program of `MCPrograms` is a set of
calls made in any order: all calls, pairs of them with faults; files, four and
five long; directories; listings.

The first conjunct of `ListSound` and of `InterruptHasMessage` and two of
`CountersMatchMaps` are type invariants; in the other modules types are proved
as a part of the inductive invariants.

Five more runs end in a violation; they are the findings of section 5.

The bounds are named: `MaxTicks`, `MaxJiffies`, `MaxTime`, `MaxLen`, `MaxPieces`,
`MaxFrames`, `MaxTransfers`, `MaxFaults`, `MaxIo` (of the sectors that a call
transfers, 12, more than any call of the runs does), `MaxSlip` of
Interrupts, `Programs` of FatFs and `Plans` of UsbMassStorage; the number of pages bounds Kmalloc.  A byte of the NEC
protocol is one bit long in IrReceiver, so a frame has 12 pulses instead of 68.

### Assumptions that the models name

* Interrupts: the controller latches a request in INTPND, and the program may get
  `MaxSlip` accesses further before the CPU takes it.  `late` becomes true when
  `free_irq` has masked a line and forgotten its handler while a request of that
  line stood in INTPND: `do_irq` then calls `dummy_isr`, which asserts.
  `NoAssertFails` excepts exactly this.  `Storm` is the state in which the
  demultiplexer of the external lines is entered and finds nothing to do (section
  5); `OwedIsHandled` excepts it.  `DevicesRest` is asked of the devices: none
  raises its line for ever while a call of the program is under way, and external
  lines do not come for ever before `do_irq` is done with the last.
* `bounced` in TouchScreen becomes true when the stylus moves, or a conversion
  ends, within the microseconds between a request and its handler, or when
  INT_ADC is served before a pending INT_TC, against the order of
  `s3c_irq_demux_adc`: `Isr_Adc` can then add the timer twice and the list lose
  its head.  The list and the liveness properties are claimed without a bounce.
* `early` in AudioPlayer becomes true when a transfer is over before the store
  that follows its trigger: `DMA_RUN` then overwrites the handler's `DMA_INIT`,
  and the player waits for ever.  `PlayEnds` excepts it.
* In Clock the tick is handled before the next one.  That is what the code needs:
  a tick latched twice is counted once.
* `Stranded` in SdCard: the card has obeyed a command whose answer was lost, or a
  transfer of several sectors has failed, and the driver repeats a command that
  the card does not know in its state.  `SdReturns` excepts exactly this.
  `xfer.good` counts the sectors moved without an error, which `TransfersExact`
  says are where they belong.  A call that fails reports what went wrong, but a
  call that succeeds may have had an error at the end of its last sector (section
  5): all the property promises of it is `good >= count - 1`.
* FatFs: what the code leaves to the programs they keep.  An open file is not
  removed, renamed or opened again, a directory is not moved below itself, dirty
  data is synchronised before `f_truncate`, and after a disk error the card is
  mounted anew (`Careless = FALSE`; with TRUE, in run `fatfs_sync`, the program
  goes on).  One fault in a behaviour: a sector that cannot be written, or the
  power lost before a sector, which leaves what the card holds and nothing else.
  `harmed`: that fault was met inside `f_rename` (the code's own comment calls it
  a critical section), or from `f_truncate` on, which frees clusters before the
  file's entry is written, until the file is synchronised.
* USB: the host follows the bulk-only transport, waits until SETUP_END has been
  handled before its next request, sends no command of no blocks, and resets the
  bus only when nothing more will come and never inside a Write.  `CutShort` is the
  one reply that is not what was asked for: a device descriptor before SET_ADDRESS
  is 8 of its 18 bytes, whatever the length asked (section 5).  `RepliesExact` says
  so, and claims the whole reply, up to the length asked, of every other request.

Deadlock is not checked where the system really stops: in `kernel`, after a
`kmalloc` that writes to NULL, a player that waits for ever, a last SD call; in
`interrupts` after an assertion has failed; in
`infrared`, `fatfs` and `usb` when the remote control, the program or the host
has no more to do.

Fairness.  `Timers`: the tick comes, and a handler that runs, ends.
`TouchScreen`: the hardware raises what it owes, and pending interrupts are
taken (strong fairness: other handlers and the tick come between); the reading
program has none.  `Interrupts`: the CPU takes what is latched and `do_irq` runs on,
the controller holds the parent of a pending external line (all weak: nothing
preempts them), and the arbiter, a rotating one, passes over no line for ever
(strong).  The program is preempted by every open request, so it is given time
only where none is pending: `WF(Quiet /\ Calling)`.  That a call ends is therefore
not assumed; it follows when the devices rest, and fails in a storm.  Devices and
programs need not begin anything.  `I2c`, `AudioPlayer` and `SdCard`: the
program runs, the bus shifts, the card goes on, interrupts are taken; the EEPROM's write cycle need not end.
`UsbMassStorage`: the interrupt is served, and the host goes on with what it has
begun and gives up what is not answered; it need not begin anything.  The others
are checked for safety only.

## 5. Where the code disagrees with its comments

* `interrupts_sub`: `irq_init` gives the sub lines the functions of the external
  lines, so requesting INT_TC or INT_ADC unmasks nothing.  `touch_screen.c:233`
  says it enables the interrupt.
* `kmalloc_free`: `kfree` looks in its first cache only and blames its first slab.
* `i2c_read`: the last byte of every read is never stored, though
  `s3c2440_i2c_controller.c:98` says each is.
* `fatfs_sync`: `f_sync` marks the file as written back before it is; the call
  repeated after an error answers FR_OK and the entry is not on the card.
* `usb_reset`: the class request RESET answers with an empty buffer, on which
  `usb_buf_init` asserts.

Also met while modelling, and not stated as runs:

* Applications call `init_Ts` again without `close_Ts` (`app3.c:110, 136, 469`),
  and `request_irq` stops the kernel on the second call.
* `Isr_Tc` tests bit 15 of ADCDAT0, good in the waiting modes only by the comment
  at `touch_screen.c:156`, and can run in the converting mode, after the timer
  function.  `BitUp` makes the bit nondeterministic there.
* After a read error the interface is switched off under the running transfer
  (`wav.c:90`), which the comment at `wav.c:122` warns against; the transfer goes
  on in the next play, whose `dma_init` waits for it.
* A slice that is odd passes below zero and is never granted again (four runnable
  threads), and task 0 starves while two threads can run.
* A ring that overflows can splice two frames into one that passes the decoder's
  check, which tests the complement of the data but not of the address.
* The clock goes back by a period while a tick is pending, and a wait that
  subtracts unsigned numbers then ends at once.
* `SDI_CheckDATend` answers 1 also after a time-out or a bad CRC (`sdi.c:461-477`):
  an error that shows only at the end of the last sector is printed, and the call
  reports success (`sdi.c:530-542, 597-611`).
* A write of several sectors that fails returns 0 without CMD12: the card stays in
  its receiving state, and the next call spins on a command that is not answered.
* `free_irq` masks the line and then stores `dummy_isr` (`interrupt.c:73-74`).  The
  mask does not take back a request that is in INTPND already; if the CPU takes it
  only after the store, `dummy_isr` asserts.
* An external line masked when its request has already reached the parent
  (`irq.c:50`) leaves the parent pending.  `s3c_irq_demux_extint8` finds no line
  that is open and returns without an ack (`irq.c:311-327`), and the interrupt is
  entered again before the program's next instruction, for ever: the mask of the
  parent (`irq.c:57`) is never reached, and `OwedIsHandled` without its exception
  fails there.
* A full directory of fixed size makes `f_open` answer FR_NO_FILE, not FR_DENIED
  as the comment at `ff.c:1256` says.
* The descriptors of the device and of the configuration are sent whole: a host
  that asks for fewer bytes, and not for whole packets, gets more than it asked for.
  Before SET_ADDRESS the device descriptor is cut to 8 bytes, also for a host that
  asked for all 18 (`usb_isr.c:102-104`).
* ModeSense sends as many bytes as the host asked for out of a table of 4
  (`usb_mass.c:192-197`): what follows it in memory is sent too, and a length of 0
  stops the kernel.
* `create_chain` looks at what a cluster is linked to, and takes the 0xFFFFFFFF of
  a `get_fat` that has failed for an end mark (`ff.c:805-807`): when the dirty
  window cannot be written back just then, a write in the middle of a file puts a
  new cluster in place of those that follow, which are lost, and `f_write` answers
  FR_OK.  The proof of `CreateChain` comes to it (section 6), and TLC reaches it
  with four calls (a file of three clusters written, `f_lseek` to its start, one
  and a bit written again) on a volume of seven clusters.  The files of run
  `fatfs` are too short for it, and FileStore promises nothing after a fault.
* ReqSense, FormatUnit and Verify send no status; a Read of no blocks stops the
  kernel; a bus reset inside a Write leaves the data stage as it was.

## 6. Proofs

Every theorem holds for all values of the constants, under the assumptions of the
module it extends.  In each module one inductive invariant, proved by one step
for each action, carries the rest.

`SchedulerProofs` (`SchedulerInvariant`).  `QueueSorted` alone is not
inductive: a tick changes the run time of the current task only, so it must be
known not to be in the queue; `FairShare` needs the queue sorted and the
current task no more than one charge ahead of its head; `CountMatchesQueue`
needs task 0 out of the queue.  Lemmas state what insertion at
`InsertionPoint` keeps (order, elements, injectivity).  Beside what the run
checks it proves that the queue stays sorted, that the chosen task has run least,
and that task 0 gets the CPU from a thread only when the queue is empty.
`SlicesAreUsedUp` has an invariant of its own (`SliceInv`): a slice of 3, which is
odd, would need three threads queued when the scheduler grants, and with at most
three the first interrupt, which finds task 0 idle, has given one of them the CPU
before that.

`TimersProofs` (`TimersInvariant`), for any timers, delays and ticks.  That `next`
and `prev` are inverse says nothing of what can be reached by following them, and
the code has nothing else.  The invariant names a numbering of the listed nodes,
the head being 0, of which `next` is the successor: an insertion or a removal
renumbers the nodes behind it, and what `Chain` reaches is read off it
(`ListStaysSound`).  `ListIsService` is then the refinement of `TimerService`,
action by action.

`TimersProofs`, the touch screen: `NeverDeaf` is inductive by itself, for any bounces; that reads
are whole (`ReadsAreWhole`) needs `Copied`: between its loads the program holds
`valid`, and no handler reports over it.  `TouchListSound` is the timer list
under this driver, which deletes its timer whether or not it is listed and relies
on when it adds it (`Modes`).  It is stated for a report of more than one sample
(the code takes 16): with one, a conversion started twice reports twice and adds
the timer twice, which TLC shows for `NSamples = 1`.

`KmallocProofs` (`HeapInvariant`), for any zone, block sizes and slabs.  A
`kmalloc` of a size kept outside its page calls itself twice while a page that it
has taken is in no list, so the invariant is one of a heap and of the pages under
way (`HeapSound(h, out)`), and every part of a call (a page taken, a slab put
into its list, a bit set, a counter moved) has a lemma of that form.  From it
follow that the counters match (`HeapCountersMatch`), that no block is lost
(`HeapNoLeak`) and that the heap refines `BlockAllocator` (`HeapIsAllocator`).
The hypothesis, `Freed \subseteq {Size32}`, is the finding of run `kmalloc_free`:
the code's `kfree` is right for the blocks of the first cache only.

`DeviceProofs`, the player (`AudioInvariant`), for files of any length and
transfers of any duration.  It ties the status, the registration and the channel
to the places of the player's loop (`Status`, `Transfer`): the player leaves its
wait only when the handler has run, and then the channel is off, so the buffer it
fills is not the one playing.  `Started` ties the number of transfers to the
file's position.

`DeviceProofs`, the clock (`ClockInvariant`), for any period and timeouts.  The
hardware's time is jiffies periods, one more if a tick is pending, and what the
counter has gone down (`Elapsed`); a read combines two loads of different moments,
so the first is bounded when it is made (`LoadedNear`), and as long as no tick has
been pending what was loaded still fits (`Quiet`).

`DeviceProofs`, the receiver's ring (`RingInvariant`, `RingIsQueue`): for a ring of
any size and any pulses, IrSpec implements the bounded queue.  What makes the read
safe without a lock is that the slot after the last is never one of the filled
ones, so a put while a read is half done cannot touch the event being copied.
Its decoder (`DecoderInvariant`), for any frames and any number of them: each pulse
on its way, in the ring or still in the air, has a label, its frame and its place
in it (`Carries`); in the middle of a frame the decoder holds what came before the
next label (`Synced`), and as long as nothing went wrong the frames reported are
those that ended before it (`OnTime`).  `WhatIsReportedWasSent` needs the first two
only, since a timeout or a misread pulse merely makes the decoder let go of its
frame; `EveryFrameIsReported` needs the third.

`InterruptsProofs` (`IrqInvariant`), for any main and external lines, under
`NormalUse`: no sub lines (they are the finding) and no line requested twice (which
the assertion forbids).  The program changes a line's mask and handler in an order
that never leaves it open without a handler (`ArgMatches`), and the shared line
is open whenever an external one is (`ParentMatches`), at every register access.
That is not enough for `do_irq`, whose line comes from INTPND and may have been
masked since: `HandlesLatched` says what it still finds, and `SlippedMask` that a
latched request of a masked line has let the program do at least one access.
Hence `NoAssertionFails`: an assertion fails only if `late`, that is, if
`free_irq` ran to its end over a latched request of its line.  That takes two
accesses, the mask and the store, so a CPU that answers before the second is safe
(`PromptCpuNeverFails`, for `MaxSlip` up to 1); the code itself has nothing that
holds the store back.

`StorageProofs`, I2C (`I2cInvariant`), for EEPROMs of any size and calls of any length.
How many bytes the EEPROM has got or given is a function of `cnt_transferred` and
of whether an interrupt is pending (`Sending`, `Receiving`); therefore the
transfer is over when the program leaves its loop, and the interrupt cannot find
a message that is gone.  `I2cDataInvariant` adds the bytes: a write has stored the
messages before its failure (`WritesStoreAPrefix`), and a read puts each byte
where it belongs (`ReadsStoreInPlace`), with the EEPROM's own counter and the
program's index in step.

`StorageProofs`, the SD card (`CardInvariant`), for cards of any size, calls of any length and any
number of faults.  What the driver believes of the card is what the card is in, up
to the command whose answer is lost (`CardState`), and what has been moved is a
prefix, whose length is `xfer.good` (`OnCard`, `InBuffer`): the loops leave at the
first error they see, so that only the last sector can be moved and not good, by an
error that `SDI_CheckDATend` swallows.  Hence `CallsMoveTheirSectors`, which says of
a successful call that all but perhaps its last sector are exact.  `StrandedForEver`
says that the state excepted from `SdReturns` is one that is never left.

`FatProofs` (`Sound`, defined at the end of FatWindow), for volumes of any size,
sectors of any number of cells, and a write that fails or a loss of power at any
sector.  The invariant speaks of two volumes at once: what the card holds (`Card`,
without the copies of the FAT) and what the program sees, the card under its dirty
window (`Shown`).  In both, no two clusters are linked to the same one, none is
linked to a free one, and no entry holds what the code takes for an error
(`Chains`).  Run `fatfs` evaluates it between the calls, as a part of `ChainsSound`.
It is kept because the card only ever becomes what the program saw at some moment:
`MoveWindow` leaves the card as it was or as the program saw it, no third thing,
and never changes what the program sees; `PutFat` changes one entry, or none when
it fails.  A change of a chain of many sectors is a sequence of such steps, each
sound: hence the order of `create_chain`, which writes the end mark before the link
(`CreateChain`), and that of `remove_chain`, which frees a cluster after reading
where it leads and from the front, so that no link to a free cluster remains
(`RemoveChain`: this needs that nothing is linked to the first cluster).  What the
functions do when no write fails: `RemovesAll` frees exactly the chain;
`NextFreeFinds` finds a free cluster if there is one, round the FAT, and
`CreateChain` answers "full" only if there is none; `RemoveChain` and `CreateChain`
keep the count of free clusters right; when `Sync` succeeds the card is what the program sees.
`ChainOnce`, `ChainsApart` and `ChainEnds` are what soundness means for files:
chains that nothing leads into are without repetition, share nothing, and end;
`SectorsApart` carries it to the sectors of the data.  Where `CreateChain` does not
promise what its name says, it says so: after a failed write the cluster may take
the place of one that was already linked (section 5); `Sound` holds even then.
The hypotheses: the boot record describes the volume (`Fits`), and no sector has
failed to be read (section 7).  That the calls above pass such clusters to these
functions, and the directories, are model-checked only.

`UsbProofs` (`UsbInvariant`), for a disk of any size and any requests, commands and
resets.  At any moment a command is in one of six phases, which say where each of
its packets is: on the disk, in an endpoint or with the host, and which interrupt
will move the next one.  In a Write the disk is what it was, overlaid with the
packets received (`Receiving`); in a Read the packets sent are those the host has
and the one in endpoint 2 (`Sending`).  ModeSense answers in as many packets as were
asked for, and its status waits for the last (`Informing`).  `Snapshots` is why one snapshot of the
registers is enough although it serves one of the endpoints only: the interrupt of
endpoint 2 that precedes a packet of endpoint 3 is in every snapshot with it, and
goes first.  Endpoint 0 has phases of its own; a reply moves in packets of 8, and
since what is asked is the whole reply or whole packets, the host stops exactly
where it should (`RepliesAreExact`), but for the descriptor that is cut to its
first packet.  The hypotheses are the transport's: a command
without data has length 0, and data goes to the board in a Write only
(`NormalCommands`; a Read may still give a wrong length, and any block), and
requests are as just said (`NormalRequests`).  Nothing is assumed of the assertions
that can fail (run `usb_reset`): a kernel that has stopped moves no packet.

Induction: the provers cannot use the library's induction theorems, which take an
operator; but a set of naturals that has an element has a least one, by the theorem
on well-founded relations (`LeastNatural`), and that is enough for the sums of
KmallocProofs, the list of TimersProofs, and the loops and chains of FatProofs.

Only model-checked: all liveness and everything under fairness; and FatVolume, FatTree
and FatFs, whose recursive operators the provers do not accept: `NoLeak`, `Durable`,
`Listing`, `ImplementsFiles`, and of `ChainsSound` that every file has a chain of its
own.  FatWindow has its loops as recursive functions (`Loop`), and so is in reach.

## 7. Not modelled

Of 34 000 lines about 14 in 100 are modelled; the rest is not of this kind.
7 000 are fonts, 5 000 headers of registers and descriptors; dm9000, the DNW and
mouse USB functions, semaphores and wait queues are in no Makefile; the library
(formatting, strings, floating point) and `ff.c`'s unused options (long names,
`f_mkfs`, code pages, FAT12) are borrowed code without state of this kernel;
display and fonts draw into memory; serial, SPI, one-wire sensors, codec, RTC
and NAND are polled register sequences with one caller and no state between
calls, where a model would repeat the code; the shell and the applications are
sequential, and appear as what calls the drivers.  The saving of registers,
caches and the MMU are below the level of the models.

In the modelled parts: `slab_create` and its family and requests for several
pages have no caller in the kernel and are left out of Kmalloc, as are Erase_Block
and cards addressed by the byte of SdCard.  Unsigned wrap-around of jiffies (64
bits) and the sentinel 0x7fffffff of the run queue are out of reach of the
bounds; writes of `kfree` beyond a bitmap are lost in the model; the order in
which a compiler may move accesses to the non-volatile `g_ts_*` is taken to be
that of the source.  Times and dates of files are left out of FatFs.  A failed
read is in `disk_read` but among the faults of no program: `move_window`
(`ff.c:559`) then leaves whatever arrived in the window under the number of the
old sector, `put_fat` marks it dirty, and what a later write-back does to the FAT
depends on data that the model does not have.
