# A verification project for the titania3 kernel drivers

The repository is the source release of a television: Linux 2.6.26, busybox and
other vendored programs, and, in `src/kernel_src/drivers/kdriver/`, the
manufacturer's own drivers. Those drivers are the program's own core, and this
directory holds TLA+ models of them, TLC configurations and TLAPS proofs.

Four drivers are modelled. MSMAILBOX (`kdriver/msmailbox/`) lets the host CPU
exchange eight-word mails with two other processors, the AEON and the PM 8051,
through register groups, interrupts, a tasklet, two rings, a wait queue and a
mapping into user space. Teletext (`ttx/`) has a packet ring between hardware,
tasklet, delayed work and user space. HDMI CEC (`cec/`) has a receive FIFO filled
by an interrupt and a transmit loop that polls. BDMA (`bdma/`) is a copy engine
shared by callers that sleep while it works.

Paths below are relative to `src/kernel_src/drivers/kdriver/` and, in the
sections on a driver, to its directory:
`dev.c` is `mdrv_msmailbox_dev.c`, `interrupt.c` is `mdrv_msmailbox_interrupt.c`,
`mbmgr.c` is `mdrv_msmailbox_mbmgr.c`, `mhal` is `titania3/mhal_msmailbox.[ch]`
and `mhal_interrupt.c` is `titania3/mhal_msmailbox_interrupt.c`; `ttx.c` is
`mdrv_ttx.c` and `ttx_interrupt.c` is `mdrv_ttx_interrupt.c`; `cec.c` is `mdrv_cec.c`;
`bdma.c` is `mdrv_bdma.c`.

## 1. The system

### 1.1 MSMAILBOX

| Part | State | Operations | Interacts with |
|---|---|---|---|
| Register groups (`mhal`) | eight words for each sender: word 1 holds the FIRE bit of CONTROL, the last holds BUSY (bit 15), OVERFLOW (bit 13) and two status bytes | `hal_opFire`, `hal_opFireLoopback`, `hal_opReceive`, `hal_opOverflow`, `hal_opInit` | the AEON and the PM, which read and write the same words at any time |
| CPU interrupts (`mhal_interrupt.c`) | `REG_CPU_INT[src << 1]`, one bit per destination; mask and latched status of each FIQ line | `ICO_PROC` (a pulse of two read-modify-writes), `EnableFiq_VPE0`, `DisableFiq_VPE0`, `ClearFiq_VPE0` | every sender |
| Interrupt manager (`interrupt.c`) | `INT_MGR.aFlag[cpu]`, `bValid`, the two registration flags | `MDrv_MSMailBox_Interrupt`, the tasklets, `opEnable`, `opDisable`, `opInit`, `opRelease` | the handler schedules a tasklet, the tasklet calls `callback_receive_mail_int` |
| Mail ring of the AEON (`mbmgr.c`) | slots, `u32PutAdr`, `u32GetAdr`, `u32MaxMUnit`, in pages mapped by user space | `opMBPutAddr`, `opMBInit`, `opMBRelease` | filled by the tasklet, emptied by user space without a system call |
| Ring of the PM (`dev.c`) | `PM_Mail[20]`, `PMIndxP`, `PMIndxG` | `callback_receive_mail_int`, `_receive_mail_fromPM` | filled by a tasklet, emptied by a kernel client |
| Wait queue manager (`dev.c`) | `aNum`, `tWQ` | `opWQWait`, `opWQSet`, `opWQClr`, `opWQWakeup` | `ioctl_WAIT_SYNCMAIL` waits, the tasklet wakes |
| Device (`dev.c`) | `bOpen`, `u32MM`, the managers' `bValid` | open, ioctl, mmap, the vma callbacks, release | processes, fork, the file's reference count |

Hard behaviour: the handler, a tasklet, the threads and two other processors
share every one of these; no access to the indices, to `aNum`, to `u32MM` or to
the status word is protected by a lock; `_RIU_LOCK` is dropped before the mail it
protects is fired; the ioctls write the caller's words, control and status bits
among them, into the registers as they are; interrupts are edge-latched and can be
dismissed, and the line of the PM stays masked until the first enable or disable; a
full ring refuses a mail; `request_irq` can fail half way through open.

What makes it correct: no mail is lost, torn, repeated or reordered between a
sender and its reader; a thread does not sleep on a mail that is there; sooner or
later every mail arrives and every sleeper returns; open and release exclude each
other and leave nothing installed behind.

### 1.2 Teletext, CEC and BDMA

| Part | State | Operations | Interacts with |
|---|---|---|---|
| Packet ring (`ttx_interrupt.c`) | `_u32GetAdr`, `_u32PutAdr`, `_u32Overflow`, `_u32Status` in mapped memory; `_u32PrevTTXPacketCount` | `MDrv_TTX_BH`, `MDrv_TTX_WQ`, `_MDrv_TTX_Reset` | the VBI slicer counts packets, user space takes them without a system call |
| Interrupt and wait (`ttx.c`, `ttx_interrupt.c`) | `_u32TTX_Count`, `_u32VBI_Count`, `_aWaitQueueGuard`, `wq_ttx`, `TTXTasklet`, `TTXWorkQueue` | `MDrv_TTX_Interrupt`, `MDrv_Wait`, `MDrv_Wakeup` | the handler schedules tasklet and work and wakes the thread |
| Device (`ttx.c`) | `_tpVBIParametersTTX`, `_u32VMASTTX`, `_bIRQ_ISR_ReadyTTX`, `_aInterruptStop` | open, ioctls, mmap, release | handler, tasklet and work use the buffer that release gives up |
| CEC reception (`cec.c`) | `CecRxBuf`, `CecFifoIdxE`, `_u8CecResponse` | `_MDrv_HDMI_ISR`, `MDrv_CEC_RxApi`, `MDrv_CEC_Init` | the client copies the whole FIFO and keeps the start index |
| CEC transmission (`cec.c`) | transmit registers, `_u8AckResult`, `_u8CecResponse2`, `CecDevicesExisted` | `_MDrv_CecSendFrame`, `MDrv_CEC_TxApi`, `MDrv_CEC_ChkDevs`, `MDrv_CEC_GetResult` | the bus answers, perhaps after the loop gave up |
| BDMA (`bdma.c`) | BUSY, QUEUED, DONE and RESULT of two channels, the CRC register | `MDrv_BDMA_CopyHnd`, `MDrv_BDMA_Search`, `MDrv_BDMA_CRC32`, all through `_MDrv_BDMA_CmnHnd` | callers in different threads share the channels |

Hard behaviour: teletext resets the ring from three contexts, reads the packet
count in two registers while it moves, gives up what is unread when many packets come
at once, and frees its buffer while a delayed work or a tasklet may be pending. The CEC interrupt stores while the client copies; an answer on the
bus may come after its frame was given up and while the next one is prepared. A
BDMA caller stops whatever runs on its channel, and callers sleep in `msleep`,
which drops the big kernel lock.

What makes them correct: no packet is overwritten unread without the overflow flag
(a burst of more than 88 breaks this, by the code's own decision), no thread is left asleep while packets come, nothing uses a freed buffer; every CEC
message is taken once and in order, and a transmit result is that of its own frame;
a BDMA call that says `E_BDMA_OK` has done its work and is done with it.

### 1.3 The other drivers

Not modelled; section 6 says why.

| Component | State and operations | What would make it correct |
|---|---|---|
| AESDMA (`aesdma/`) | one status word between the interrupt, a tasklet and a callback | every event is notified |
| TSP (`tsp/`) | PID and section filters of a demultiplexer, allocated and freed by ioctls; interrupt status turned into events | no filter is handed out twice; no event is cleared unseen |
| Suspend (`str/`), CI (`ci/`), IR (`ir/`) | power state; card slot; key decoder | ordering of saved state; card removal during a transfer; decoder state after noise |
| MPIF (`mpif/`) | one bus transaction at a time with interrupts off | nothing outlives a transaction on the uniprocessor build |
| Hardware semaphore (`mad/mdrv_semaphore.c`) | stubbed out: `MHal_SEM_Get_Resource` returns TRUE at its first line | nothing to check |
| Decoders, graphics, scaler, Ethernet, NAND, small peripherals | register programming, firmware loading, data paths | little shared control state |
| `kernel/`, busybox and other vendored programs | third-party | modelled only where a driver uses them |

### 1.4 How the code is scheduled

The configuration is uniprocessor with `CONFIG_PREEMPT` and HZ 1000. From that and
from the kernel in `src/kernel_src/kernel/linux-2.6.26-saturn7/`:

* `open` and `ioctl` handlers run under the big kernel lock (`fs/char_dev.c`,
  `fs/ioctl.c`), which is given up while a thread sleeps; `mmap`, the vma
  callbacks and `release` run without it.
* With the big kernel lock or a spinlock held a thread is not preempted by another
  thread; `spin_lock_bh` keeps tasklets out as well.
* A tasklet is interrupted only by an interrupt handler, and a handler by nobody.
* A tasklet that a handler schedules runs at the handler's exit or, where softirqs
  are raised too often, is left to ksoftirqd (`kernel/softirq.c`, `__do_softirq`), a
  thread that may run after others. Once it runs no thread does. Nothing in these
  drivers calls `tasklet_kill`. Work queues run in a kernel thread, without the big
  kernel lock.
* The AEON and the PM, the VBI slicer, the CEC bus and the BDMA engine are other
  processors or hardware: they step between any two register accesses of the host.

Each model takes an atomic step for one access to shared state (a register, an
index, a flag) and lets happen between two steps what these rules allow.

## 2. Modules

| Module | Models |
|---|---|
| `MSMailboxRx` | AEON to host: handler, `MSMailBoxTasklet`, ring, wait queue, enable and disable |
| `MSMailboxTx` | host to AEON, host to PM and the loopback: `hal_opFire`, `hal_opFireLoopback`, the interrupt pulse, the receiver of each group |
| `MSMailboxPM` | PM to host: handler, `PM2MIPS` tasklet, `PM_Mail`, `_receive_mail_fromPM` |
| `MailFifo` | abstract: a bounded FIFO of mails, which `MSMailboxPM` implements, and `MSMailboxRx` from the AEON to the reader |
| `MailSlot` | abstract: places for one mail each, which the register groups of `MSMailboxTx` implement |
| `MSMailboxDev` | open, mmap, fork, munmap, close, release; registration of both lines |
| `TTX` | teletext: slicer, handler, tasklet, delayed work, ioctls, `MDrv_Wait`, reader |
| `CECRx` | CEC reception: interrupt, FIFO, copying ioctl, initialisation |
| `CECTx` | CEC transmission: frame, polling loop, results, search for devices |
| `BDMA` | BDMA: channel choice, stop, start, wait, timeout, the engine |
| `CopyService` | abstract: what callers who disturb each other are promised by `MDrv_BDMA_CopyHnd`, which `BDMA` implements |
| `MSMailboxRx_proofs`, `MSMailboxTx_proofs`, `MSMailboxPM_proofs`, `MSMailboxDev_proofs`, `TTX_proofs`, `CECRx_proofs`, `CECTx_proofs`, `BDMA_proofs` | theorems about the module each is named after, and their proofs |
| `MC...` | the constants' values and symmetry sets for TLC |

A definition under a comment that starts with "(mutant)" is a plausible bug of the action that follows it. No
specification uses it; `PROJECT.json` pairs it with the property that would catch
it. Payloads are numbers: mail *n* is the *n*-th mail fired, so that order, loss
and repetition can be read off a slot.

### 2.1 MSMailboxRx

`AeonFire` and `AeonRaise` are the AEON, which is not in the repository: what
`hal_opFire` does on the host's side, it does on its own (test FIRE and BUSY, fill,
set FIRE, then raise). `InterruptTest` and `InterruptClear` are the two ends of
`MDrv_MSMailBox_Interrupt`: the flag is tested and the tasklet scheduled first,
the latched interrupt is cleared last. The tasklet is one action for each access
(`opMBPutAddr`, then `hal_opReceive` as BUSY set, copy, BUSY clear, FIRE clear,
then `opWQWakeup`). A waiting thread goes through `opWQWait` in the code's order:
`prepare_to_wait`, `opWQSet`, the test of the ring, `schedule_timeout(500)`, which
drops the big kernel lock, `finish_wait`, `opWQClr`. `opEnable` and `opDisable`
store the flag and touch the mask one step later. `ReadMail` is user space taking
a mail from the mapped ring; since it makes no system call, it is modelled from
the layout of `msmailbox_info_t` and is external. The wakeup removes the entry
from the queue (`autoremove_wake_function`).

Not here: `opMBFill`, `opMBInstant`, `ioctl_INTERRUPT` (registered as NULL), none
of which has a caller; `ioctl_INFO`, which only copies the layout out; `IEnable`,
dead because `bFiq` is always TRUE.

### 2.2 MSMailboxTx

One action for each step of `hal_opFire`: take `_RIU_LOCK`, test FIRE, test BUSY
(and OVERFLOW in the loopback), `_S1_C`, fill word by word, unlock, `_FIRE_S` as
a read and a write of word 1, then the interrupt pulse as two read-modify-writes
of `REG_CPU_INT[src]`. A destination latches the rising edge (external). The
receiver of group PM is the host's own tasklet, so `spin_lock_bh` keeps it out and
it keeps threads out; the receivers of group H3 are the other processors. The
callback that finds the PM ring full is `RxRefuse`; `_receive_mail_fromPM` is here
only through its read-modify-write of the status word (`DrainRead`,
`DrainWrite`), which can hit the words of a mail in flight.

The words of an ioctl are its caller's raw bytes (`dev.c:382`, `mhal_msmailbox.c:157`),
so `u8Ctrl` and `u8S1` carry FIRE, INSTANT, BUSY and OVERFLOW as the caller chose. The
constant `Raw` gives each mail its set of such bits, any set for the theorems, and
`FillWord` writes them with the word (`Written`): the first word sets or clears FIRE,
before `_FIRE_S` does, the last one BUSY and OVERFLOW. READBACK is INSTANT here, since
`hal_opReceive` treats them alike: on the host it ends in `MSMAILBOX_ASSERT(FALSE)`, a
`BUG()` (`RxBug`). What the AEON does with these bits is not in the tree; its receiver
takes the mail. The last word holds the status bytes only: `_OVERFLOW_C` may write back
an old `u8S0` over a newer one, and nothing in the tree reads it; the properties speak
of the words before it.

`opInit` masks the host's line of the PM (`interrupt.c:188`), and the first
`ioctl_ENABLE`, `ioctl_DISABLE` or `ioctl_INTERRUPT` unmasks it (`EnablePM`, `unmasked`):
until then an interrupt stays latched and the receiver of group PM does not start
(`RxMay`).

`_send_mail_toPM` takes no big kernel lock and has no caller in the tree. It is in
the module (`PMClients`) for whoever adds one, and in no run: alone it keeps all the
properties, beside an ioctl thread it breaks `NoClobber`, as one expects from the lock
it does not take.

### 2.3 MSMailboxPM

The interrupt half is that of `MSMailboxRx` without a wait queue. On an open device
nothing disables this line: `ioctl_DISABLE` calls `opEnable(CPUID_PM)`.
`CallbackStart` tests for room and refuses (`CallbackOverflow`) or receives into
`PM_Mail[PMIndxP]`, whose index moves after FIRE is cleared. The reader copies the
slot in two halves, so that a writer under the `memcpy` would show, moves
`PMIndxG`, and clears OVERFLOW by a read and a write of the status word.

Mails with INSTANT or READBACK, at which `hal_opReceive` stops the host, are in
`MSMailboxTx`; here and in `MSMailboxRx` nobody sends one.

`PMIndxG = PMIndxG + 1; if (PMIndxG == 20) PMIndxG = 0;` may be compiled to one
store or to two: `PMIndxG` is a plain variable. `split` is chosen in `Init` and
never changes, so that a run covers both builds. One thread calls `_receive_mail_fromPM` (the tree has no caller at
all; two would copy the same slot).

### 2.4 MSMailboxDev

A process stands for its threads and holds `fd` and a number of mappings.
`Open` .. `OpenEnd` is `_MDrv_MSMAILBOX_Open` with `opInit` in it, where
`request_irq` may sleep and may fail for either line. `u32MM++` and `u32MM--` are a
load and a store. `Fork` .. `ForkEnd` is `dup_mmap`: the descriptor, then for each
mapping the reference and the vma `open` callback, under the parent's `mmap_sem`;
the child starts at the end. Whoever drops the last reference runs
`ReleaseCheck` .. `ReleaseEnd`. `s32Err`, a local that `opInit` tests, has the value
"undef" until a branch sets it, and `InitEnd` then chooses either outcome.

Left out: allocation failures, `remap_pfn_range`, and an mmap longer than the
ring's pages, which ends in an assertion (`dev.c:683`) before any state changes.
`MSMAILBOX_ASSERT` is a `BUG()` in this build; in release it leaves the process at
"bug" and `bOpen` set. `lost` remembers that a store of `u32MM` overwrote one made since
its load.

### 2.5 TTX

`Packet` is the slicer, which counts packets modulo the ring. `MDrv_TTX_Interrupt`
has the handler's three outcomes (bad signal, new packets, none), each of which
schedules the delayed work; every `Group`-th interrupt with packets runs
`MDrv_Wakeup`. The tasklet is two actions since `MHal_TTX_TXX_Count` reads two
registers, in an order the language leaves to the compiler: `BhFirst` chooses it,
`BhSecond` may find that the other half has moved on. `MDrv_TTX_WQ` is store by store;
`fresh` says that the last interrupt is less than `TTX_TIMEOUT` ago. `MDrv_Wait` is
`WaitPrepare`, `WaitGuard`, `WaitSchedule`, `WaitFinish`; the big kernel lock keeps
other threads out until it sleeps. `oops` records who used a NULL
`_tpVBIParametersTTX`, and the system stops there. Threads run while a tasklet is
scheduled (`Quiet` is only that none is running), so a release may come first. One
assumption on the scheduler remains: no tasklet waits for `TTX_TIMEOUT`, 200 ms
(`Elapse`).

History: `due` counts the packets after the last one read when the ring tells. It is
`Unset` after an init, an ioctl or a work has reset the indices, which drops unread
packets on purpose, and `Burst` after the tasklet has done so because more than 88
(`MaxComing`) packets came at once; the next packet read starts the account again. `odd`
is set by what makes it not tell, namely a count torn between its registers, a lap of
the slicer that nobody saw, a reset of the work half done under the tasklet or the
reader, and a reader that was overrun.

Not here: VPS and WSS (two more tasklets that copy 15 and 2 bytes and set a bit of
`_u32Status`), the data rate, the programming of the slicer; the bits of `_u32Status`
other than `E_TTX`. One client is assumed: the driver counts no opens and a second one
resets everything under the first.

### 2.6 CECRx

`RxChkBuf` stores a message at `CecFifoIdxE` and moves the index, unless it was a
polling message, which spoils the slot but does not take it; the interrupt announces in
any case. The client asks when `_u8CecResponse` says so, and `MDrv_CEC_RxApi` copies the
struct field by field while the interrupt runs, index first, then resets the response
byte. Nothing in the driver moves `CecFifoIdxS`: the client keeps its own start index
(external). `MDrv_CEC_Init` is three steps against the handler of an earlier one.
`raced` marks a message stored during the copy, `odd` more than `FifoCnt - 1` unread
messages or one stored during an initialisation.

### 2.7 CECTx

A frame is `SendFrame` (clear the status, write the registers), `StartFrame`, a number
of `Poll`s with `msleep` between them, `ReadStatus` and `Finish`, which is `TxResult`
for a message and `ChkResult` for a device asked. The bus answers at any time
(`Answer`), also to a frame given up. `answer` and `mixed` record what the bus said to
the frame while its thread was looking, and whether another frame or an initialisation
disturbed it. The kinds of failure are one here, since the result is only success or
not. `E_CEC_SYSTEM_BUSY`, added whenever the count has reached its end, changes no
result: success is tested first.

### 2.8 BDMA

`Call` is any of the ioctls and kernel entry points; a copy is one transfer, a search
one, a copy with CRC check three: CRC of the source, copy, CRC of the destination
(`stage`). For each, `Get_FreeCh` (a channel with nothing queued), `Stop` (whoever it
belongs to), `Clear_Status`, `Start`, then `Look` and `Wake` until DONE or until
`WaitTime` naps are over. The engine (external) ends a transfer at any time or never,
and may take time to stop one. `dst` says whether the caller's destination holds the
old data, part of the new or all; `hit` that another caller took the channel while
this one slept.

Assumptions: a stopped transfer raises no DONE; callers copy different data; a CRC tells
data apart (the code compares its lower 16 bits only, see the hazard at
`mhal_bdma.c:215`). A fill is a copy here. The completion interrupt is compiled out and
no caller passes a callback. `Get_FreeCh`'s way out of its nap is left out, since
`OneChannel` shows that no thread naps there.

## 3. Runs

| Run | Question | Bounds |
|---|---|---|
| `Rx` | ring in order, a bounded FIFO from the AEON to the reader, no lost wakeup, no lost mail, dismissal confined to `opDisable` and final, delivery and return | one waiter and a second thread, 3 slots, 4 mails: the ring wraps and overruns |
| `Rx_two` | two threads asleep in `opWQWait`: violation | two waiters, 3 mails |
| `Tx` | no clobbered, torn, repeated or lost mail; OVERFLOW only behind FIRE or from a caller's own word; each register group a place for one mail; an accepted mail is taken | two threads, 3 words (FIRE's, one plain, the status one), 3 calls: a plain mail, one with FIRE, BUSY and OVERFLOW, one with INSTANT |
| `PM` | order unless misjudged, copy intact, bounded FIFO with one store, nothing lost, refusal final, delivery | 3 slots, 7 mails: two laps and a full ring; one or two stores |
| `Dev` | open and release exclude each other, flags and lines agree, no assertion without a lost update, the device closes | 2 processes and one to fork, 2 mappings each |
| `Dev_assert` | the assertion of release: violation | a parent and its child, one mapping each |
| `TTX` | one sleeper, no silent loss but by a burst, index in the ring, no freed buffer in the handler | 2 threads, 3 slots, bursts of 3 reset, 1 mapping |
| `TTX_live` | the waiter returns, the status is cleared | 1 thread, 2 slots |
| `TTX_release` | work and tasklet on a freed buffer: violation | as `TTX` |
| `CECRx` | messages once and in order, and taken in the end | the 4 slots of the code, 5 messages |
| `CECTx` | results and devices true, sending ends | 2 threads, 2 looks, 2 devices |
| `BDMA` | what `E_BDMA_OK` promises; a copy service; every call returns | 2 callers, 2 naps |

Why the bounds are enough. The ring models compare indices only with each other
and with the end of the ring; two slots are the least with an index that moves and
wraps, three let a slot be neither the oldest nor the newest, and the mails go
around more than twice. Words beyond the one in the middle behave as it does: only
the first and the last share a register with a bit. Two ioctl threads are all that
matter under the big kernel lock (one inside, one that comes next), and two
processes plus a forked one give every pair of load and store on `u32MM`.

For TTX three slots are the least with a slot that is neither the newest nor the
oldest, and a count whose halves both change; the packets are unbounded. In CECRx the fifth
message meets a full FIFO. In CECTx one look fewer than the loop's end and the end
itself are what `PollEnds` tells apart. In BDMA two callers give every pair of one that
sleeps and one that comes, and two naps a loop that goes on and one that gives up;
transfers and calls are unbounded.

Symmetry (threads) is used only in `TTX`, which checks no liveness.
`CHECK_DEADLOCK FALSE` is set in the `Tx` and `PM` runs: once `MaxFires` or `MaxMails`
is used up, or a full ring has closed the channel, the system does stop; and in the
`TTX` runs, where it stops at a NULL dereference. The others are checked for deadlock.

### 3.1 What the runs show

* Receive path. The order register - announce - test in `opWQWait` rules out a lost
  wakeup, although nothing is locked. The ring delivers in order though
  `u32PutAdr` moves before the slot is filled, because user space cannot run before
  the tasklet ends. It overruns silently: `opMBPutAddr` never looks at `u32GetAdr`,
  so `RingInOrder` holds up to the first overrun and claims nothing after it. Up to
  there registers, tasklet, ring and reader together are one bounded FIFO
  (`MailsAreFifo`), although a mail is in the registers and, half written, in its slot
  at the same time: it counts as in the registers until it is copied whole.
* An interrupt between the two stores of `opDisable` is dismissed, and the loss is
  permanent: FIRE stays set, the AEON never fires again, and re-enabling does not
  help (`DismissalIsFinal`). `DismissedOnlyInDisable` shows that no other
  interleaving has this effect.
* Send path. Under the big kernel lock the early unlock in `hal_opFire` is
  harmless. `E_HAL_COPROCESSOR_OVERFLOW` never reports a full ring: a refused mail
  keeps FIRE set and the FIRE test comes first. It can be returned all the same: a
  caller's own `u8S1` sets OVERFLOW, `hal_opReceive` clears FIRE and leaves it, and the
  next loopback is told of it (`OverflowBehindFire`; without its second disjunct TLC
  finds that state). A mail to the host waits for the line to be unmasked, and one
  with INSTANT stops the host, so `AcceptedTaken` excepts both. A register group is a place for one mail
  (`GroupsAreSlots`): a refused mail stays in it, and nothing else is put over it.
* PM path. One refused mail closes the channel for good (`RefusalIsFinal`), however
  much room the ring gets later. With two stores of `PMIndxG` a full ring can be
  mistaken for one with room (`misjudged`); with one store it is a bounded FIFO.
* Device. A failing `request_irq` leaves flags and lines in agreement, and `s32Err`
  is never read unset. Only a lost update leads to the assertion of release; a second
  mapping, which the test `u32MM > 1` (`dev.c:674`) admits, does not.
* Teletext. The reader is never overrun without `_u32Overflow`, in spite of the
  modulo count, as long as the count is read whole and no burst comes; a torn read can
  give it a slot outside the ring. A burst of more than 88 packets clears both indices
  before the test for an overrun (`ttx_interrupt.c:118`): the unread packets are gone,
  `_u32Overflow` stays 0, and `NoSilentLoss` excepts it by name. If `BhPut` leaves `due`
  to count on through a burst, TLC finds the loss: five slots, get 1, put 2, three
  packets at once (a burst with `MaxComing` 2), then get 0, put 0, an empty ring, with
  five packets not read and no overflow.
  The guard admits one sleeper although it is set a step after the queue is entered; a
  wakeup skipped meanwhile is made up for by the next group. `free_irq` comes before the
  buffer goes, so the handler never sees NULL (`HandlerHasBuffer`), but the delayed work
  does, and the tasklet if it was left to ksoftirqd (3.2). That `E_TTX` is cleared for
  good (`StatusCleared`) says nothing of the ring that `MDrv_TTX_WQ` resets store by
  store under tasklet and reader; no property does.
* CEC. The copy is safe against the interrupt: a polling message spoils only a slot the
  client's window never includes. A message stored between copy and reset of the
  response byte stays unannounced until the next one. Results are true as long as one
  thread sends at a time and no answer is still on the bus.
* BDMA. The second channel is never used, so every call stops the transfer of
  whoever sleeps. A caller hit in this way may see the other's DONE and say
  `E_BDMA_OK` for a copy that was aborted. So the driver is only the service of
  `CopyService` (`ServesCopies`): a destination is written by one transfer, never after
  `E_BDMA_OK`, and `E_BDMA_OK` means that it was copied, with the exception `disturbed`
  for callers without a right CRC of their source; without the exception it fails. Even
  then the engine is done with the caller's buffer (`OkIsQuiet`), and the CRC check
  catches it (`VerifiedCopy`).

### 3.2 Disagreements found

1. `Rx_two`. "wait queue only accepts one thread to wait MLK Mail" (`dev.c:236`):
   `opWQWakeup` wakes the first waiter and clears `aNum` before that thread has run; a
   second one queues, sets `aNum` and sleeps. The first waiter's `opWQClr` then clears
   the second one's `aNum`, so that its own next call queues beside it and sets `aNum`
   again. Two threads sleep, both queued non-exclusively, and the next `opWQWakeup`
   wakes both.
2. `Dev_assert`. Release asserts that no mapping is left (`dev.c:586`). `u32MM++` and
   `u32MM--` in the vma callbacks are covered by no lock that two processes share; a
   parent and its child that unmap or fork together lose an update.
3. `TTX_release`. "if _u32VMASTTX == 0 means this mmap doesn't be referenced by other
   appilation and we can free it" (`ttx.c:187`): the driver's own delayed work still
   refers to it. Every interrupt schedules `TTXWorkQueue`, release does not cancel it,
   and after `TTX_TIMEOUT` `MDrv_TTX_WQ` writes through `_tpVBIParametersTTX`, which is
   NULL by then (`ttx_interrupt.c:201`); this is the run's trace. So does `MDrv_TTX_BH`
   (`ttx_interrupt.c:149`) when the tasklet of the last interrupt was left to ksoftirqd:
   with the work taken out of `FreedUnreferenced` TLC finds it in nine states (open,
   init, enable, a packet, its interrupt, close, tasklet).

### 3.3 Fairness

`FairSpec` is used only where a liveness property needs it.

* Weak fairness of the handler, the tasklet and the processors' own second step
  (`AeonRaise`, `PMRaise`): hardware interrupts and softirqs are served, and the
  sender raises the interrupt of a mail it has fired.
* `Receiver` of `MSMailboxTx`, weak: a latched interrupt is served. For group PM it is
  enabled only once the host's line is unmasked (`RxMay`), and nothing makes anybody
  unmask it.
* Weak fairness of a thread inside the driver: the scheduler runs it. A thread that
  competes for a lock (`WaitResume`, `Sender`) gets strong fairness, since a
  tasklet or another thread may take the processor or the lock again and again;
  kernel locks are taken for short times and threads of equal priority alternate.
* `Receive` of `MSMailboxPM` has strong fairness: delivery is stated for a client
  that keeps calling.
* TTX: tasklet (ksoftirqd included), delayed work and threads in the driver are
  scheduled; time passes once the interrupts are stopped and no tasklet is due. The work gets strong fairness, as it needs a moment
  without tasklets. That interrupts come and find packets is a premise of
  `WaiterReturns`, not fairness.
* CEC: a pending interrupt is taken; an initialisation goes on once begun; the client
  asks for what is announced (strong, as it competes with other ioctls). Nothing makes
  the bus answer: `SendReturns` holds without.
* BDMA: a thread with the big kernel lock runs, and one that waits for it after its nap
  gets it (strong). Nothing makes the engine finish.
* Nothing makes user space enable, wait, read, fire or open; the properties are
  conditional on it (`<>[](~mask) => ...`).

## 4. Proofs

Each `..._proofs` module proves, for every value of the constants, the safety
properties that the run of its module checks on a small instance. The only premises
are the module's one assumption on its constants (`PMAssumption`, `TTXAssumption`,
...: a ring has two slots or more, ids are distinct, bounds are natural numbers), for
`NoLostWakeup` that at most one thread waits, and for the send path that nobody calls
`_send_mail_toPM`. Each module has the same shape: named parts of an inductive
invariant `IInv`, a lemma for the initial states, one lemma per action, and the
theorem `Inductive` (`Spec => []IInv`), from which the others follow. Every `IInv`
was checked by TLC before it was proved.

| Module | Theorem | Shows |
|---|---|---|
| `MSMailboxPM_proofs` | `TypeCorrect`, `InOrder`, `CopiesIntact`, `Accounted` | `TypeOK` (no run checks it), `RingInOrder`, `CopyIntact`, `MailAccounted` |
| | `Refused` | `RefusalIsFinal` (an action property) |
| | `RefinesFifo` | `RingIsFifo`: with one store of `PMIndxG` the ring implements `MailFifo` |
| `MSMailboxRx_proofs` | `Ordered`, `Accounted`, `OnlyInDisable` | `RingInOrder`, `MailAccounted`, `DismissedOnlyInDisable` |
| | `WakeupKept` | `NoLostWakeup`, while at most one thread waits |
| | `Final` | `DismissalIsFinal` (an action property) |
| | `RefinesFifo` | `MailsAreFifo`: until it is overrun the path from the AEON to the reader implements `MailFifo` |
| `MSMailboxTx_proofs` | `WordsKept`, `TakenWhole`, `Accounted`, `OverflowHidden` | `NoClobber`, `TakenIntact`, `AcceptedAccounted`, `OverflowBehindFire`, with `PMClients = {}` |
| | `RefinesSlots` | `GroupsAreSlots`: the register groups implement `MailSlot`, likewise |
| `MSMailboxDev_proofs` | `Alone`, `FlagsTrue` | `OpenReleaseAlone`, `FlagsMatchLines` |
| | `CountTrue`, `NeedsRace` | `Counts`, the invariant that counts the mappings; `AssertNeedsRace` |
| `TTX_proofs` | `OneWaits`, `LossTold`, `SlotGiven`, `BufferThere` | `OneSleeper`, `NoSilentLoss`, `IndexInRing`, `HandlerHasBuffer` |
| `CECRx_proofs` | `InOrderTaken` | `InOrder` |
| `CECTx_proofs` | `ResultsTrue`, `DevicesFound` | `ResultTrue`, `DevicesTrue` |
| `BDMA_proofs` | `TypeCorrect`, `SecondChannelIdle`, `OkTrue`, `OkQuiet`, `Verified` | `TypeOK` and `OkIsDone` (no run checks them), `OneChannel`, `OkIsQuiet`, `VerifiedCopy` |
| | `RefinesService` | `ServesCopies`: channel, stops and timeouts implement `CopyService` |

The modules without a line for it also prove type correctness (`TypeCorrect`).

### 4.1 The arguments

* `MSMailboxPM`. `RingInOrder` is not inductive. `IInv` adds `OneMail` (a mail in the
  PM registers is at one stage, with FIRE set exactly then), `RoomKept` (there is room
  while the tasklet receives, unless its test fell between two stores of `PMIndxG`;
  the ring is not empty while the reader copies) and `Copied` (the slot that `AdvanceP`
  is about to add holds the next mail; the halves that the reader has copied are those
  of the oldest slot). The modulo arithmetic of the ring is in the lemmas `WrapIndex`,
  `ModFollow`, `DistPut`, `DistGet` and `DistAt`, so that no action's proof sees a `%`.
  The refinement maps the step that advances `PMIndxP` to a put, the one that advances
  `PMIndxG` to a get, all others to stuttering.
* `MSMailboxRx`. `OneMail` is the same idea for the AEON, with the dismissed interrupt
  as a fifth stage; `Delivered` says what the registers and the slot filled hold;
  `Registered` says that a thread about to sleep is in the queue with `aNum` 1. The last
  one needs a single waiter: two are the violation of `Rx_two`. `Ordered` uses a form of
  `RingInOrder` without modulo (`InOrder`) on top of `IInv`. The refinement of
  `MailFifo` has one lemma on what the queue is (`ShapeHolds`: the mails after the last
  one read, as many as are under way), so that a step is judged by two numbers:
  `AeonFire` puts, `ReadMail` gets, all others leave both alone (`FiredOrRead`).
* `MSMailboxTx`. `Held`: who is in a call has the big kernel lock, hence one thread is.
  `Stage`: a fired mail is to be raised, latched, received or refused, at one of these
  only, and FIRE is set exactly then; so past the test of FIRE the group is empty, and
  the words are the sender's (`Fills`). `LineLow`: the bit in `REG_CPU_INT` is low
  before each pulse, hence each pulse has an edge. FIRE is taken as set from `_FIRE_S`
  only (`Fired`), whatever the words of a call still at work have put there, and
  `Overflows` says whose word brought an OVERFLOW that no refusal set. `Fresh`, `Whole` and `TwoMails` keep
  mails apart, `Kept` carries the accepted ones to the receiver. With a PM client, which
  does not take the big kernel lock, `Held` fails and `NoClobber` with it.
  For `MailSlot` a group holds a mail from the write of `_FIRE_S` (`FirePuts`: `Stage`
  makes the group empty, `Fresh` the mail new) to the copy of its receiver (`CopyGets`:
  `Whole` makes all its words those of one mail not taken before). All other steps are
  stutters: the fill loop writes a group that holds nothing, `_OVERFLOW_C` a word that
  is no mail.
* `MSMailboxDev`. `Requesting` and `Released` say what open has found and what release
  has taken back at each of their steps, `ValidHasBoth` what a valid interrupt manager
  means; `Holds`, `Forking` and `Counted` keep mappings and their counting together.
  `AssertNeedsRace` needs a sum over all processes. `Tally` states it without one: the
  counted mappings are a set of pairs (`Mapped`) and `u32MM` is its cardinality unless an
  update was lost. Each step leaves the set, adds one pair or takes one away
  (`FS_AddElement`, `FS_RemoveElement`); that `mmap` and `munmap` are not finished, or a
  fork is copying, is what `Uncounted` allows for. `RingThere` and `ChildMaps` exclude an
  `munmap` that finds no ring and a fork with nothing to copy. When release runs nobody
  has a mapping, so the set is empty and `u32MM` is 0.
* `TTX`. `DueTells` relates the packets due to the reader to the ring and to what the
  slicer counted since the tasklet looked last, while `due` is a number and not `Unset`
  or `Burst`; `WorkTells` and `ResetTells` cover the
  half-done reset of the indices by the delayed work and by a thread, and `PrevTells`
  the restart of the count. `HalvesType` bounds a count read from two registers.
  `Waits`: who is on the queue has not passed `schedule()`, and the guard is set
  before anybody else gets to run.
* `CECRx`. `Stored`: the messages taken, those in the FIFO and the one in the register
  are all that came, in order; `Copied`: the slots the client will look at do not change
  while it copies.
* `CECTx`. `Lone` (one call between its entry and its first nap), `Disturbs` (a call
  that starts a frame marks every sleeper as disturbed), `Own` (for an undisturbed call
  the bus carries its frame or nothing, and the status is its answer).
* `BDMA`. `Lone` and `Mine` likewise; `EngineTells`, `Stopped`, `Cleared` and
  `InProgress` tie DONE, RESULT and the CRC register to the transfer they come from,
  `Checking` the two CRCs of a verified copy to its buffers. The refinement of
  `CopyService` adds `Steady`: the transfer that writes a destination belongs to the copy
  stage of its call and finds the old data there, or a part of the new when it is being
  stopped (`Writing`); before that stage nothing is written and there is no CRC
  (`Unwritten`); the CRC of the destination is taken after a copy or a disturbance
  (`CopiedFirst`). A call's entry then maps to `Begin`, the end of a transfer to `Copied`,
  `Stop` to `Interfere`, the CRC of the source to `Ascertain`, a return to `Finish`, and
  every other step to a stutter. `OkIsDone` is a part of `IInv`; the runs check
  `ServesCopies`, which says the same of each step.

### 4.2 Only model-checked

* All liveness properties (`MailDelivered`, `WaiterReturns`, `AcceptedTaken`,
  `ReleaseCompletes`, `StatusCleared`, `MessagesTaken`, `SendReturns`, `CallReturns`):
  liveness under fairness is out of the proof system's reach.
* The three violations are counterexamples of TLC.

## 5. Running

    tlc -config TTX.cfg MCTTX
    tlapm MSMailboxPM_proofs.tla

Each configuration names its own bounds; the largest, `TTX`, has 7.3 million states.
The three runs that end in a violation are listed in 3.2.

## 6. Not modelled

* MSMAILBOX: Tx and PM composed into one loop (`ioctl_FIREMAIL_LOOPBACK` filling
  `PM_Mail`): the two meet only at the status word, which both modules model from their
  side. A release under a tasklet already scheduled and left to ksoftirqd: `opRelease`
  has no `tasklet_kill` either. Teletext, which has the same gap, shows what it leads to.
* AESDMA: its shared state is one status word between interrupt and tasklet; the hazard
  listed for it is visible in the source, and nothing in the tree promises otherwise.
* TSP: filters are allocated through a firmware that the tree holds as a binary; the
  driver's part is register programming and the hazard listed.
* MPIF: a transaction runs with interrupts off and leaves no state.
* The hardware semaphore of `mad/` returns TRUE at its first line and has no caller.
* Audio, video, graphics and scaler drivers, Ethernet, NAND, suspend, CI, IR and the
  small peripherals: register programming, firmware loading and data paths, whose
  correctness lies in what the hardware does with a value. They make most of the lines
  under `kdriver/`.
* The kernel, busybox and the other vendored programs are third-party; what the drivers
  use of them (`prepare_to_wait`, `dup_mmap`, `fput`, `vfs_ioctl`) is modelled there.
