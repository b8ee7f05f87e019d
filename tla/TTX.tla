--------------------------------- MODULE TTX ---------------------------------
(***************************************************************************)
(* The teletext driver: the VBI slicer writes packets into a ring, its     *)
(* interrupt schedules a tasklet that moves _u32PutAdr, every few          *)
(* interrupts it wakes the thread in MDrv_Wait, and a delayed work resets  *)
(* the ring once the interrupts stop.  User space reads the mapped ring.   *)
(*                                                                         *)
(* ioctl handlers run under the big kernel lock, which only MDrv_Wait      *)
(* gives up; the work runs in a kernel thread that everybody may preempt.  *)
(* A scheduled tasklet runs at once or is left to ksoftirqd, behind other  *)
(* threads; once it runs, it keeps threads out and is interrupted by the   *)
(* handler only.  The slicer is hardware and steps at any time.  One       *)
(* client opens the device.                                                *)
(***************************************************************************)
EXTENDS Integers, FiniteSets

CONSTANTS
  Threads,      \* the threads of the one process that has the device open
  Unit,         \* _VBIBufferUnitTTX: slots of the ring
  LowBase,      \* the count is read as two registers: count % LowBase first
  MaxComing,    \* 88: more packets at once reset the ring
  Group,        \* 5: interrupts with new packets for each wakeup
  MaxMaps       \* bound on the mappings at once

ASSUME TTXAssumption ==
  /\ Unit \in Nat /\ LowBase \in Nat \ {0} /\ Group \in Nat \ {0}
  /\ MaxComing \in 1 .. Unit - 1 /\ MaxMaps \in Nat

VARIABLES
  \* the slicer
  count,        \* MHal_TTX_TXX_Count: 0, then 1 .. Unit over and over
  \* the device
  bOpen,
  params,       \* _tpVBIParametersTTX (and _pu8VBIBufTTX) is not NULL
  ready,        \* _bIRQ_ISR_ReadyTTX: the handler is installed
  stop,         \* _aInterruptStop, and the line is masked
  mapped,       \* _u32VMASTTX
  \* the mapped parameters
  get, put, overflow,   \* _u32GetAdr, _u32PutAdr, _u32Overflow
  ttx,          \* bit E_TTX of _u32Status
  \* handler, tasklet and work
  last,         \* _u32TTX_Count of the handler
  vbi,          \* _u32VBI_Count of the handler
  sched,        \* TTXTasklet is scheduled
  bh, at,       \* which half of the count it reads next; the count at the other half
  prev,         \* _u32PrevTTXPacketCount
  fresh,        \* the last interrupt is less than TTX_TIMEOUT ago
  work, wq,     \* TTXWorkQueue is pending; next step of MDrv_TTX_WQ
  \* waiting
  guard,        \* _aWaitQueueGuard
  sleepers,     \* the threads on wq_ttx in TASK_INTERRUPTIBLE
  pc,           \* next step of each thread
  \* history
  due,          \* packets after the last one read, the newest included; Unset, Burst
  odd,          \* a step noted below took the ring out of step
  oops          \* who used a NULL _tpVBIParametersTTX

devVars  == <<bOpen, params, ready, stop, mapped>>
ringVars == <<get, put, overflow>>
bhVars   == <<last, vbi, sched, bh, at>>
workVars == <<work, wq>>
waitVars == <<guard, sleepers, pc>>
vars == <<count, devVars, ringVars, ttx, bhVars, prev, fresh, workVars, waitVars,
          due, odd, oops>>

Unset == -1     \* (U32)(-1) of prev; a due not known since the reader's indices were reset
Burst == -2     \* a due given up by the tasklet: more than MaxComing packets at once
MaxCount == LowBase * (Unit \div LowBase) + LowBase - 1

\* The tasklet is not running: process context may.
Quiet == bh = "idle"

\* Besides, no thread holds the big kernel lock.
Lull == Quiet /\ \A t \in Threads : pc[t] \in {"user", "asleep"}

Init ==
  /\ count = 0
  /\ bOpen = FALSE /\ params = FALSE /\ ready = FALSE /\ stop = TRUE /\ mapped = 0
  /\ get = 0 /\ put = 0 /\ overflow = FALSE /\ ttx = FALSE
  /\ last = 0 /\ vbi = 0 /\ sched = FALSE /\ bh = "idle" /\ at = 0
  /\ prev = Unset /\ fresh = FALSE /\ work = FALSE /\ wq = "idle"
  /\ guard = 0 /\ sleepers = {} /\ pc = [t \in Threads |-> "user"]
  /\ due = Unset /\ odd = FALSE /\ oops = "none"

-----------------------------------------------------------------------------
(* The slicer.                                                              *)

\* A packet arrives.  The count is taken modulo the ring: a whole lap since the
\* tasklet looked last is not seen.
Packet ==
  /\ params
  /\ count' = (count % Unit) + 1
  /\ odd' = (odd \/ count' = prev)
  /\ due' = IF odd' THEN Unset ELSE IF due \in 0 .. Unit THEN due + 1 ELSE due
  /\ UNCHANGED <<devVars, ringVars, ttx, bhVars, prev, fresh, workVars, waitVars, oops>>

-----------------------------------------------------------------------------
(* The handler, MDrv_TTX_Interrupt.                                         *)

\* (mutant) clears the guard before it tests it.
MDrv_WakeupClears == guard' = 0 /\ UNCHANGED <<sleepers, pc>>

\* MDrv_Wakeup.
MDrv_Wakeup ==
  /\ sleepers' = IF guard = 1 THEN {} ELSE sleepers
  /\ guard' = 0
  /\ UNCHANGED pc

\* No PAL signal, or too long after the interrupt before.
InterruptGarbage ==
  /\ ttx' = FALSE
  /\ oops' = IF params THEN oops ELSE "interrupt"
  /\ UNCHANGED <<bhVars, waitVars>>

InterruptPackets ==
  /\ count # last
  /\ last' = count
  /\ sched' = TRUE
  /\ vbi' = (vbi + 1) % Group
  /\ IF vbi' = 0 THEN MDrv_Wakeup ELSE UNCHANGED waitVars
  /\ UNCHANGED <<bh, at, ttx, oops>>

InterruptNone ==
  /\ count = last
  /\ ttx' = FALSE
  /\ oops' = IF params THEN oops ELSE "interrupt"
  /\ UNCHANGED <<bhVars, waitVars>>

\* (mutant) the work is not scheduled after new packets.
MDrv_TTX_InterruptNoWork ==
  /\ ready /\ ~stop
  /\ InterruptGarbage \/ InterruptPackets \/ InterruptNone
  /\ fresh' = TRUE
  /\ work' = (work \/ last' = last)
  /\ UNCHANGED <<count, devVars, ringVars, prev, wq, due, odd>>

\* Each way ends in schedule_delayed_work.
MDrv_TTX_Interrupt ==
  /\ ready /\ ~stop
  /\ InterruptGarbage \/ InterruptPackets \/ InterruptNone
  /\ fresh' = TRUE
  /\ work' = TRUE
  /\ UNCHANGED <<count, devVars, ringVars, prev, wq, due, odd>>

-----------------------------------------------------------------------------
(* The tasklet, MDrv_TTX_BH.                                                *)

\* MHal_TTX_TXX_Count reads two registers and adds them: which one it reads first
\* is the compiler's choice.
BhFirst ==
  /\ bh = "idle" /\ sched
  /\ sched' = FALSE
  /\ bh' \in {"low", "high"}
  /\ at' = count
  /\ UNCHANGED <<count, devVars, ringVars, ttx, last, vbi, prev, fresh, workVars,
                 waitVars, due, odd, oops>>

\* The packets that came since prev, as U32: a negative number is a huge one.
Coming(cur) ==
  LET n == IF prev = Unset THEN cur
           ELSE IF cur >= prev THEN cur - prev ELSE cur + Unit - prev
  IN  IF n < 0 THEN Unit + MaxComing ELSE n

\* (mutant) > for >=.
OverrunLate(g, p, n) == IF p >= g THEN p - g + n > Unit ELSE g - p <= n

\* Would n more packets overrun the reader?
Overrun(g, p, n) == IF p >= g THEN p - g + n >= Unit ELSE g - p <= n

\* (mutant) no - 1.
PutAdrLate(cur) == cur

\* The slot of the newest packet: counts start at 1.
PutAdr(cur) == cur - 1

\* With no packet since last time the tasklet returns.
BhQuit(cur) ==
  /\ cur = 0 \/ Coming(cur) = 0
  /\ prev' = IF cur = 0 THEN prev ELSE cur
  /\ due' = IF odd' THEN Unset ELSE due
  /\ UNCHANGED <<ringVars, ttx, oops>>

\* More than MaxComing packets at once clear both indices before the test for an
\* overrun: what was unread is gone and _u32Overflow does not tell.
BhPut(cur) ==
  /\ cur # 0 /\ Coming(cur) # 0
  /\ LET reset == Coming(cur) > MaxComing
         g     == IF reset THEN 0 ELSE get
         p     == IF reset THEN 0 ELSE put
     IN  /\ get' = g
         /\ overflow' = (overflow \/ Overrun(g, p, Coming(cur)))
         /\ due' = IF overflow' \/ odd' THEN Unset
                   ELSE IF reset /\ due # Unset THEN Burst ELSE due
  /\ put' = PutAdr(cur)
  /\ prev' = cur
  /\ ttx' = TRUE
  /\ oops' = IF params THEN oops ELSE "tasklet"

\* Is cur none of the counts from the first read to the second?
Torn(cur) == cur > Unit \/ (cur - at) % Unit > (count - at) % Unit

\* The other half of the count, and the rest.  Packets between the two reads may
\* carry from one half into the other, and a work half done may be in the way.
BhSecond ==
  /\ bh # "idle"
  /\ bh' = "idle"
  /\ at' = 0
  /\ LET cur == IF bh = "high" THEN (at % LowBase) + LowBase * (count \div LowBase)
                ELSE (count % LowBase) + LowBase * (at \div LowBase) IN
       /\ odd' = (odd \/ wq # "idle" \/ Torn(cur))
       /\ BhQuit(cur) \/ BhPut(cur)
  /\ UNCHANGED <<count, devVars, last, vbi, sched, fresh, workVars, waitVars>>

MDrv_TTX_BH == BhFirst \/ BhSecond

-----------------------------------------------------------------------------
(* The delayed work, MDrv_TTX_WQ, store by store.  While interrupts are less *)
(* than TTX_TIMEOUT apart it only schedules itself again.                   *)

\* TTX_TIMEOUT passes without an interrupt.  No tasklet waits that long, an
\* assumption about the scheduler: ksoftirqd runs within 200 ms.
Elapse ==
  /\ fresh /\ bh = "idle" /\ ~sched
  /\ fresh' = FALSE
  /\ UNCHANGED <<count, devVars, ringVars, ttx, bhVars, prev, workVars, waitVars, due,
                 odd, oops>>

WorkClear ==
  /\ Lull /\ wq = "idle" /\ work /\ ~fresh
  /\ work' = FALSE
  /\ IF params
     THEN ttx' = FALSE /\ wq' = "prev" /\ UNCHANGED oops
     ELSE oops' = "work" /\ UNCHANGED <<ttx, wq>>
  /\ UNCHANGED <<count, devVars, ringVars, bhVars, prev, fresh, waitVars, due, odd>>

WorkStep(from, to) ==
  /\ Lull /\ wq = from
  /\ wq' = to
  /\ UNCHANGED <<count, devVars, ttx, bhVars, fresh, work, waitVars, odd, oops>>

WorkReset ==
  \/ WorkStep("prev", "get") /\ prev' = Unset /\ UNCHANGED <<ringVars, due>>
  \/ WorkStep("get", "put") /\ get' = 0 /\ due' = Unset /\ UNCHANGED <<put, overflow, prev>>
  \/ WorkStep("put", "ovf") /\ put' = 0 /\ UNCHANGED <<get, overflow, prev, due>>
  \/ WorkStep("ovf", "idle") /\ overflow' = FALSE /\ UNCHANGED <<get, put, prev, due>>

MDrv_TTX_WQ == WorkClear \/ WorkReset

-----------------------------------------------------------------------------
(* The ioctls.                                                              *)

\* An ioctl of a thread that meets no other in the kernel.
Ioctl(t) == bOpen /\ Lull /\ pc[t] = "user"

UnchangedByIoctl == UNCHANGED <<count, ttx, bhVars, fresh, workVars, sleepers, guard>>

Open ==
  /\ Lull /\ ~bOpen
  /\ bOpen' = TRUE /\ params' = FALSE /\ ready' = FALSE /\ mapped' = 0
  /\ UnchangedByIoctl
  /\ UNCHANGED <<stop, ringVars, prev, pc, due, odd, oops>>

\* request_irq fails or not.
TTXInit(t) ==
  /\ Ioctl(t)
  /\ stop' = TRUE /\ params' = TRUE
  /\ ready' \in {ready, TRUE}
  /\ get' = 0 /\ put' = 0 /\ overflow' = FALSE
  /\ due' = Unset
  /\ UnchangedByIoctl
  /\ UNCHANGED <<bOpen, mapped, prev, pc, odd, oops>>

\* (mutant) the handler stays installed.
FreeBufferKeepsIrq ==
  /\ stop' = TRUE
  /\ params' = (params /\ mapped # 0)
  /\ ready' = ready

\* _MDrv_TTX_IOCTRL_Release: what is mapped stays.
FreeBuffer ==
  /\ stop' = TRUE
  /\ params' = (params /\ mapped # 0)
  /\ ready' = (ready /\ (mapped # 0 \/ ~params))

TTXRelease(t) ==
  /\ Ioctl(t)
  /\ FreeBuffer
  /\ UnchangedByIoctl
  /\ UNCHANGED <<bOpen, mapped, ringVars, prev, pc, due, odd, oops>>

\* The last reference to the open file goes: every mapping holds one.
Close ==
  /\ bOpen /\ mapped = 0 /\ Quiet
  /\ \A t \in Threads : pc[t] = "user"
  /\ bOpen' = FALSE
  /\ FreeBuffer
  /\ UnchangedByIoctl
  /\ UNCHANGED <<mapped, ringVars, prev, pc, due, odd, oops>>

MHal_TTX_EnableInterrupt(t) ==
  /\ Ioctl(t)
  /\ stop' \in BOOLEAN
  /\ UnchangedByIoctl
  /\ UNCHANGED <<bOpen, params, ready, mapped, ringVars, prev, pc, due, odd, oops>>

\* _MDrv_TTX_Reset: the ring, and a step later what the tasklet remembers.
Reset(t) ==
  /\ Ioctl(t)
  /\ IF params
     THEN /\ get' = 0 /\ put' = 0 /\ overflow' = FALSE
          /\ due' = Unset
          /\ pc' = [pc EXCEPT ![t] = "reset"]
          /\ UNCHANGED oops
     ELSE oops' = "ioctl" /\ UNCHANGED <<ringVars, due, pc>>
  /\ UnchangedByIoctl
  /\ UNCHANGED <<devVars, prev, odd>>

ResetPrev(t) ==
  /\ Quiet /\ pc[t] = "reset"
  /\ prev' = Unset
  /\ pc' = [pc EXCEPT ![t] = "user"]
  /\ UnchangedByIoctl
  /\ UNCHANGED <<devVars, ringVars, due, odd, oops>>

Mmap(t) ==
  /\ Ioctl(t) /\ params /\ mapped < MaxMaps
  /\ mapped' = mapped + 1
  /\ UnchangedByIoctl
  /\ UNCHANGED <<bOpen, params, ready, stop, ringVars, prev, pc, due, odd, oops>>

Munmap(t) ==
  /\ Ioctl(t) /\ mapped > 0
  /\ mapped' = mapped - 1
  /\ UnchangedByIoctl
  /\ UNCHANGED <<bOpen, params, ready, stop, ringVars, prev, pc, due, odd, oops>>

-----------------------------------------------------------------------------
(* MDrv_Wait, step by step.                                                 *)

Step(t, from, to) ==
  /\ Quiet /\ pc[t] = from
  /\ pc' = [pc EXCEPT ![t] = to]
  /\ UNCHANGED <<count, devVars, ringVars, ttx, bhVars, prev, fresh, workVars, due, odd,
                 oops>>

\* Refused when the interrupt is stopped, nothing is mapped or a thread waits.
WaitPrepare(t) ==
  /\ bOpen /\ Lull /\ ~stop /\ params /\ guard = 0
  /\ Step(t, "user", "guard")
  /\ sleepers' = sleepers \cup {t}
  /\ UNCHANGED guard

WaitGuard(t) ==
  /\ Step(t, "guard", "schedule")
  /\ guard' = 1
  /\ UNCHANGED sleepers

WaitSchedule(t) ==
  /\ Step(t, "schedule", "asleep")
  /\ UNCHANGED <<guard, sleepers>>

\* (mutant) the thread that returns clears the guard.
WaitFinishClears(t) ==
  /\ Lull /\ t \notin sleepers
  /\ Step(t, "asleep", "user")
  /\ guard' = 0
  /\ UNCHANGED sleepers

WaitFinish(t) ==
  /\ Lull /\ t \notin sleepers
  /\ Step(t, "asleep", "user")
  /\ UNCHANGED <<guard, sleepers>>

\* A signal ends the sleep.
Signal(t) ==
  /\ pc[t] # "user" /\ t \in sleepers
  /\ sleepers' = sleepers \ {t}
  /\ UNCHANGED <<count, devVars, ringVars, ttx, bhVars, prev, fresh, workVars, guard, pc,
                 due, odd, oops>>

-----------------------------------------------------------------------------
(* The reader of the mapped ring, in user space.                            *)

ReadPacket(t) ==
  /\ Lull /\ pc[t] = "user" /\ mapped > 0 /\ get # put
  /\ get' = (get + 1) % Unit
  /\ odd' = (odd \/ due > Unit \/ wq # "idle")
  /\ due' = IF odd' \/ overflow THEN Unset
            ELSE IF due \notin {Unset, Burst} THEN due - 1
            ELSE IF prev = count THEN (put - get) % Unit ELSE due
  /\ UnchangedByIoctl
  /\ UNCHANGED <<devVars, put, overflow, prev, pc, oops>>

-----------------------------------------------------------------------------
Hardware == Packet \/ MDrv_TTX_Interrupt \/ Elapse

Thread(t) ==
  \/ TTXInit(t) \/ TTXRelease(t) \/ MHal_TTX_EnableInterrupt(t)
  \/ Reset(t) \/ ResetPrev(t) \/ Mmap(t) \/ Munmap(t) \/ ReadPacket(t)
  \/ WaitPrepare(t) \/ WaitGuard(t) \/ WaitSchedule(t) \/ WaitFinish(t) \/ Signal(t)

Next ==
  /\ oops = "none"
  /\ \/ Hardware \/ MDrv_TTX_BH \/ MDrv_TTX_WQ
     \/ Open \/ Close
     \/ \E t \in Threads : Thread(t)

Spec == Init /\ [][Next]_vars

\* Tasklets and works run; a thread that may run again and again does.  Time
\* passes once the interrupts are stopped.
Fairness ==
  /\ WF_vars(oops = "none" /\ MDrv_TTX_BH)
  /\ SF_vars(oops = "none" /\ MDrv_TTX_WQ)
  /\ WF_vars(oops = "none" /\ stop /\ Elapse)
  /\ \A t \in Threads :
       SF_vars(oops = "none" /\ (ResetPrev(t) \/ WaitGuard(t) \/ WaitSchedule(t) \/ WaitFinish(t)))

FairSpec == Spec /\ Fairness

-----------------------------------------------------------------------------
(* Properties.                                                              *)

\* Every variable keeps its type: the indices and counters of the tasklet and the
\* handler never pass their ring or their group of interrupts.
TypeOK ==
  /\ count \in 0 .. Unit /\ last \in 0 .. Unit /\ prev \in -1 .. MaxCount
  /\ get \in 0 .. Unit - 1 /\ put \in 0 .. MaxCount /\ at \in 0 .. Unit
  /\ vbi \in 0 .. Group - 1 /\ mapped \in 0 .. MaxMaps /\ guard \in 0 .. 1
  /\ due \in -2 .. Unit + 1
  /\ {bOpen, params, ready, stop, overflow, ttx, sched, fresh, work, odd} \subseteq BOOLEAN
  /\ bh \in {"idle", "high", "low"} /\ wq \in {"idle", "prev", "get", "put", "ovf"}
  /\ sleepers \subseteq Threads
  /\ pc \in [Threads -> {"user", "reset", "guard", "schedule", "asleep"}]
  /\ oops \in {"none", "interrupt", "tasklet", "work", "ioctl"}

\* "wait queue only accepts one thread to wait TTX" (mdrv_ttx.c:130), whatever
\* wakeups, signals and preemption do between the steps of MDrv_Wait.
OneSleeper == Cardinality(sleepers) <= 1

\* Unless a burst of more than MaxComing packets reset the indices, no packet is
\* overwritten before the reader took it without _u32Overflow being set (the
\* overflow test of MDrv_TTX_BH): once the tasklet has caught up with the slicer,
\* _u32PutAdr - _u32GetAdr tells what is left to read.  Such a burst (due = Burst)
\* does lose packets in silence, until the reader's next packet starts the account
\* again; so it starts after an init, an ioctl or a work that resets the indices
\* (due = Unset), which drop the unread packets on purpose.
NoSilentLoss ==
  ~odd /\ ~overflow /\ due \notin {Unset, Burst} /\ Quiet /\ wq = "idle" /\ prev = count
    => due = ((put - get) % Unit) + 1

\* Unless the count was torn between its two registers, the reader is given a slot
\* of the ring (MDrv_TTX_BH stores the count it read unchecked).
IndexInRing == ~odd => put < Unit

\* free_irq comes before the buffer goes: the handler never uses a freed one
\* (_MDrv_TTX_IOCTRL_Release, mdrv_ttx.c:195).
HandlerHasBuffer == oops # "interrupt"

\* "if _u32VMASTTX == 0 means this mmap doesn't be referenced by other
\* appilation and we can free it" (mdrv_ttx.c:187): nor do the tasklet and the
\* work, which may be left to run after the release.
FreedUnreferenced == oops \notin {"interrupt", "tasklet", "work"}

\* While interrupts go on to find new packets, and tasklets leave time for threads,
\* a thread asleep in MDrv_Wait returns: each fifth such interrupt wakes it.
WaiterReturns ==
  []<>(vbi = 0) /\ []<>(vbi # 0) /\ []<>Lull
    => \A t \in Threads : pc[t] = "asleep" ~> pc[t] = "user"

\* When the interrupts are stopped for good, MDrv_TTX_WQ ends what the last of them
\* said of the signal: the E_TTX of _u32Status is cleared and stays so.
StatusCleared == <>[](stop /\ params /\ oops = "none") => <>[]~ttx
=============================================================================
