----------------------------- MODULE MSMailboxRx -----------------------------
(***************************************************************************)
(* The AEON-to-host half of the MSMAILBOX driver, on an open device: the   *)
(* FIQ line of the AEON and its handler, the MSMailBoxTasklet bottom half, *)
(* the mail ring shared with user space by mmap, the wait queue behind     *)
(* ioctl_WAIT_SYNCMAIL, and ioctl_ENABLE / ioctl_DISABLE.                  *)
(*                                                                         *)
(* The build is uniprocessor with CONFIG_PREEMPT, and ioctl handlers run   *)
(* under the big kernel lock, so a thread inside an ioctl is interrupted   *)
(* only by the FIQ handler and the tasklet until it sleeps; the tasklet is *)
(* interrupted only by the FIQ handler; the AEON is another processor and  *)
(* steps between any two register accesses of the host.                    *)
(***************************************************************************)
EXTENDS Naturals, Sequences, FiniteSets

CONSTANTS
  Threads,      \* user threads that hold the device open
  WaitThreads,  \* those of them that call IOCTL_MSMAILBOX_WAIT_SYNCMAIL
  MaxMUnit,     \* u32MaxMUnit, the number of slots of the mail ring
  MaxMails,     \* bound: the number of mails the AEON fires
  NoThread      \* nobody holds the big kernel lock

ASSUME RxAssumption ==
  /\ WaitThreads \subseteq Threads
  /\ MaxMUnit \in Nat \ {0}
  /\ MaxMails \in Nat
  /\ NoThread \notin Threads

VARIABLES
  \* the AEON register group and the AEON itself
  fire,         \* CONTROL bit 0: a mail is in the registers
  busy,         \* STATUS1 bit 15
  word,         \* the mail in the registers, 0 for none
  aeon,         \* what the AEON does next: "idle" or "raise" its interrupt
  fired,        \* number of mails fired so far; mail n is the n-th
  \* the FIQ line AEON_TO_MIPS and the driver's handling of it
  status,       \* the latched interrupt
  mask,         \* the line's mask bit
  aFlag,        \* INT_MGR.aFlag[CPUID_AEON]
  isr,          \* next step of the running FIQ handler
  sched,        \* MSMailBoxTasklet is scheduled
  bh,           \* next step of the running tasklet
  ptMail,       \* the slot opMBPutAddr handed to the running tasklet
  \* the ring (msmailbox_info_t and the slots)
  u32PutAdr, u32GetAdr, slot,
  \* the wait queue manager
  aNum,         \* msmailbox_wq_mgr.aNum
  tWQ,          \* the threads whose entry is on msmailbox_wq_mgr.tWQ
  \* the threads
  pc,           \* next step of each thread
  state,        \* "RUNNING" or "INTERRUPTIBLE"
  bkl,          \* the thread that runs with the big kernel lock
  \* history
  received,     \* number of the last mail hal_opReceive took
  lastRead,     \* number of the last mail user space read from the ring
  overrun,      \* u32PutAdr has caught up with u32GetAdr
  swallowed     \* the handler dismissed an interrupt without scheduling

aeonVars == <<fire, busy, word, aeon, fired>>
irqVars  == <<status, mask, aFlag, isr, sched>>
bhVars   == <<bh, ptMail>>
ringVars == <<u32PutAdr, u32GetAdr, slot>>
wqVars   == <<aNum, tWQ>>
thVars   == <<pc, state, bkl>>
histVars == <<received, lastRead, overrun, swallowed>>
vars == <<aeonVars, irqVars, bhVars, ringVars, wqVars, thVars, histVars>>

BhSteps == {"idle", "busyS", "copy", "busyC", "fireC", "wakeup"}
PcSteps == {"user", "prepare", "set", "check", "sched", "asleep", "finish",
            "clr", "enMask", "disMask"}

\* State left by a successful open: registers zeroed, empty ring, AEON
\* interrupt disabled.
Init ==
  /\ fire = FALSE /\ busy = FALSE /\ word = 0 /\ aeon = "idle" /\ fired = 0
  /\ status = FALSE /\ mask = TRUE /\ aFlag = "STOP" /\ isr = "idle"
  /\ sched = FALSE
  /\ bh = "idle" /\ ptMail = 0
  /\ u32PutAdr = 0 /\ u32GetAdr = 0 /\ slot = [i \in 0 .. MaxMUnit - 1 |-> 0]
  /\ aNum = 0 /\ tWQ = {}
  /\ pc = [t \in Threads |-> "user"]
  /\ state = [t \in Threads |-> "RUNNING"]
  /\ bkl = NoThread
  /\ received = 0 /\ lastRead = 0 /\ overrun = FALSE /\ swallowed = FALSE

-----------------------------------------------------------------------------
(* The AEON, as the driver's use of its register group implies.             *)

AeonFire ==
  /\ aeon = "idle" /\ ~fire /\ ~busy /\ fired < MaxMails
  /\ fired' = fired + 1
  /\ word' = fired + 1
  /\ fire' = TRUE
  /\ aeon' = "raise"
  /\ UNCHANGED <<busy, irqVars, bhVars, ringVars, wqVars, thVars, histVars>>

AeonRaise ==
  /\ aeon = "raise"
  /\ status' = TRUE
  /\ aeon' = "idle"
  /\ UNCHANGED <<fire, busy, word, fired, mask, aFlag, isr, sched, bhVars,
                 ringVars, wqVars, thVars, histVars>>

-----------------------------------------------------------------------------
(* The FIQ handler MDrv_MSMailBox_Interrupt, case AEON_TO_MIPS: it tests    *)
(* the flag first and clears the latched interrupt last.                    *)

Flagged == aFlag = "START"

\* (mutants) the handler only clears; the clear is lost when it dismisses.
InterruptTestNoSchedule ==
  /\ isr = "idle" /\ status /\ ~mask
  /\ isr' = "clear"
  /\ UNCHANGED <<aeonVars, status, mask, aFlag, sched, bhVars, ringVars, wqVars,
                 thVars, histVars>>

InterruptTest ==
  /\ isr = "idle" /\ status /\ ~mask
  /\ sched' = (sched \/ Flagged)
  /\ swallowed' = (swallowed \/ ~Flagged)
  /\ isr' = "clear"
  /\ UNCHANGED <<aeonVars, status, mask, aFlag, bhVars, ringVars, wqVars,
                 thVars, received, lastRead, overrun>>

InterruptClearIfFlagged ==
  /\ isr = "clear"
  /\ status' = ~Flagged
  /\ isr' = "idle"
  /\ UNCHANGED <<aeonVars, mask, aFlag, sched, bhVars, ringVars, wqVars,
                 thVars, histVars>>

InterruptClear ==
  /\ isr = "clear"
  /\ status' = FALSE
  /\ isr' = "idle"
  /\ UNCHANGED <<aeonVars, mask, aFlag, sched, bhVars, ringVars, wqVars,
                 thVars, histVars>>

MDrv_MSMailBox_Interrupt == InterruptTest \/ InterruptClear

-----------------------------------------------------------------------------
(* The tasklet: callback_receive_mail_int(CPUID_AEON).                      *)

BhAt(step) == isr = "idle" /\ bh = step

NextAdr(adr) == IF adr + 1 >= MaxMUnit THEN 0 ELSE adr + 1

\* opMBPutAddr: hand out the slot and advance u32PutAdr.
opMBPutAddr ==
  /\ BhAt("idle") /\ sched
  /\ sched' = FALSE
  /\ ptMail' = u32PutAdr
  /\ u32PutAdr' = NextAdr(u32PutAdr)
  /\ overrun' = (overrun \/ NextAdr(u32PutAdr) = u32GetAdr)
  /\ bh' = "busyS"
  /\ UNCHANGED <<aeonVars, status, mask, aFlag, isr, u32GetAdr, slot, wqVars,
                 thVars, received, lastRead, swallowed>>

\* hal_opReceive, register access by register access.
ReceiveBusySet ==
  /\ BhAt("busyS")
  /\ busy' = TRUE
  /\ bh' = "copy"
  /\ UNCHANGED <<fire, word, aeon, fired, irqVars, ptMail, ringVars, wqVars,
                 thVars, histVars>>

\* (mutant) the mail goes to the slot u32PutAdr points at by now.
ReceiveCopyToPut ==
  /\ BhAt("copy")
  /\ slot' = [slot EXCEPT ![u32PutAdr] = word]
  /\ received' = word
  /\ bh' = "busyC"
  /\ UNCHANGED <<aeonVars, irqVars, ptMail, u32PutAdr, u32GetAdr, wqVars,
                 thVars, lastRead, overrun, swallowed>>

ReceiveCopy ==
  /\ BhAt("copy")
  /\ slot' = [slot EXCEPT ![ptMail] = word]
  /\ received' = word
  /\ bh' = "busyC"
  /\ UNCHANGED <<aeonVars, irqVars, ptMail, u32PutAdr, u32GetAdr, wqVars,
                 thVars, lastRead, overrun, swallowed>>

ReceiveBusyClear ==
  /\ BhAt("busyC")
  /\ busy' = FALSE
  /\ bh' = "fireC"
  /\ UNCHANGED <<fire, word, aeon, fired, irqVars, ptMail, ringVars, wqVars,
                 thVars, histVars>>

\* (mutant) FIRE is left set.
ReceiveFireKept ==
  /\ BhAt("fireC")
  /\ bh' = "wakeup"
  /\ UNCHANGED <<aeonVars, irqVars, ptMail, ringVars, wqVars, thVars, histVars>>

ReceiveFireClear ==
  /\ BhAt("fireC")
  /\ fire' = FALSE
  /\ bh' = "wakeup"
  /\ UNCHANGED <<busy, word, aeon, fired, irqVars, ptMail, ringVars, wqVars,
                 thVars, histVars>>

\* wake_up(&tWQ): every sleeper on the queue runs and its entry is removed
\* (DEFINE_WAIT entries use autoremove_wake_function).
Sleepers == {t \in tWQ : state[t] = "INTERRUPTIBLE"}

opWQWakeup ==
  /\ BhAt("wakeup")
  /\ IF aNum = 1
     THEN /\ state' = [t \in Threads |->
                         IF t \in Sleepers THEN "RUNNING" ELSE state[t]]
          /\ tWQ' = tWQ \ Sleepers
          /\ aNum' = 0
     ELSE UNCHANGED <<state, tWQ, aNum>>
  /\ bh' = "idle"
  /\ UNCHANGED <<aeonVars, irqVars, ptMail, ringVars, pc, bkl, histVars>>

Tasklet == \/ opMBPutAddr \/ ReceiveBusySet \/ ReceiveCopy
           \/ ReceiveBusyClear \/ ReceiveFireClear \/ opWQWakeup

-----------------------------------------------------------------------------
(* Threads.  None runs while the handler or tasklet does.                        *)

ThreadsRun == BhAt("idle")

Enter(t, to) ==
  /\ ThreadsRun /\ bkl = NoThread /\ pc[t] = "user"
  /\ pc' = [pc EXCEPT ![t] = to]
  /\ bkl' = t

Step(t, from, to) ==
  /\ ThreadsRun /\ pc[t] = from
  /\ pc' = [pc EXCEPT ![t] = to]
  /\ UNCHANGED bkl

Return(t, from) ==
  /\ ThreadsRun /\ pc[t] = from
  /\ pc' = [pc EXCEPT ![t] = "user"]
  /\ bkl' = NoThread

\* ioctl_WAIT_SYNCMAIL: opWQWait.  With opWQNum() # 0 it returns
\* E_WAITQUEUE_FULL and changes nothing.
WaitEnter(t) ==
  /\ t \in WaitThreads
  /\ aNum = 0
  /\ Enter(t, "prepare")
  /\ UNCHANGED <<aeonVars, irqVars, bhVars, ringVars, wqVars, state, histVars>>

WaitPrepare(t) ==
  /\ Step(t, "prepare", "set")
  /\ tWQ' = tWQ \union {t}
  /\ state' = [state EXCEPT ![t] = "INTERRUPTIBLE"]
  /\ UNCHANGED <<aeonVars, irqVars, bhVars, ringVars, aNum, histVars>>

\* (mutant) aNum is not set before the check.
WaitSetLater(t) ==
  /\ Step(t, "set", "check")
  /\ UNCHANGED <<aeonVars, irqVars, bhVars, ringVars, wqVars, state, histVars>>

WaitSet(t) ==
  /\ Step(t, "set", "check")
  /\ aNum' = 1
  /\ UNCHANGED <<aeonVars, irqVars, bhVars, ringVars, tWQ, state, histVars>>

\* callback_wq: TRUE when the ring looks non-empty.
callback_wq == u32GetAdr # u32PutAdr

WaitCheck(t) ==
  /\ Step(t, "check", IF callback_wq THEN "finish" ELSE "sched")
  /\ UNCHANGED <<aeonVars, irqVars, bhVars, ringVars, wqVars, state, histVars>>

\* schedule_timeout(500): the big kernel lock is dropped over schedule().
WaitSchedule(t) ==
  /\ ThreadsRun /\ pc[t] = "sched"
  /\ pc' = [pc EXCEPT ![t] = "asleep"]
  /\ bkl' = NoThread
  /\ UNCHANGED <<aeonVars, irqVars, bhVars, ringVars, wqVars, state, histVars>>

\* (mutant) schedule(), which the code has commented out.
WaitNoTimeout(t) == FALSE

\* The 500 jiffies are over, or a signal arrived.
WaitTimeout(t) ==
  /\ ThreadsRun /\ pc[t] = "asleep" /\ state[t] = "INTERRUPTIBLE"
  /\ state' = [state EXCEPT ![t] = "RUNNING"]
  /\ UNCHANGED <<aeonVars, irqVars, bhVars, ringVars, wqVars, pc, bkl, histVars>>

WaitResume(t) ==
  /\ ThreadsRun /\ pc[t] = "asleep" /\ state[t] = "RUNNING"
  /\ bkl = NoThread
  /\ bkl' = t
  /\ pc' = [pc EXCEPT ![t] = "finish"]
  /\ UNCHANGED <<aeonVars, irqVars, bhVars, ringVars, wqVars, state, histVars>>

WaitFinish(t) ==
  /\ Step(t, "finish", "clr")
  /\ tWQ' = tWQ \ {t}
  /\ state' = [state EXCEPT ![t] = "RUNNING"]
  /\ UNCHANGED <<aeonVars, irqVars, bhVars, ringVars, aNum, histVars>>

WaitClr(t) ==
  /\ Return(t, "clr")
  /\ aNum' = 0
  /\ UNCHANGED <<aeonVars, irqVars, bhVars, ringVars, tWQ, state, histVars>>

\* (mutant) the mask first.
EnableMaskFirst(t) ==
  /\ Enter(t, "enMask")
  /\ mask' = FALSE
  /\ UNCHANGED <<aeonVars, status, aFlag, isr, sched, bhVars, ringVars, wqVars,
                 state, histVars>>

\* ioctl_ENABLE: opEnable(CPUID_AEON), the flag first, then the mask.
EnableFlag(t) ==
  /\ Enter(t, "enMask")
  /\ aFlag' = "START"
  /\ UNCHANGED <<aeonVars, status, mask, isr, sched, bhVars, ringVars, wqVars,
                 state, histVars>>

EnableMask(t) ==
  /\ Return(t, "enMask")
  /\ mask' = FALSE
  /\ UNCHANGED <<aeonVars, status, aFlag, isr, sched, bhVars, ringVars, wqVars,
                 state, histVars>>

\* ioctl_DISABLE: opDisable(CPUID_AEON), the flag first, then the mask.
DisableFlag(t) ==
  /\ Enter(t, "disMask")
  /\ aFlag' = "STOP"
  /\ UNCHANGED <<aeonVars, status, mask, isr, sched, bhVars, ringVars, wqVars,
                 state, histVars>>

DisableMask(t) ==
  /\ Return(t, "disMask")
  /\ mask' = TRUE
  /\ UNCHANGED <<aeonVars, status, aFlag, isr, sched, bhVars, ringVars, wqVars,
                 state, histVars>>

\* User space takes a mail from the mapped ring and advances u32GetAdr.
ReadMail(t) ==
  /\ ThreadsRun /\ bkl = NoThread /\ pc[t] = "user"
  /\ u32GetAdr # u32PutAdr
  /\ lastRead' = slot[u32GetAdr]
  /\ u32GetAdr' = NextAdr(u32GetAdr)
  /\ UNCHANGED <<aeonVars, irqVars, bhVars, u32PutAdr, slot, wqVars, thVars,
                 received, overrun, swallowed>>

Wait(t) == \/ WaitEnter(t) \/ WaitPrepare(t) \/ WaitSet(t) \/ WaitCheck(t)
           \/ WaitSchedule(t) \/ WaitTimeout(t) \/ WaitResume(t)
           \/ WaitFinish(t) \/ WaitClr(t)

Next ==
  \/ AeonFire \/ AeonRaise \/ MDrv_MSMailBox_Interrupt \/ Tasklet
  \/ \E t \in Threads : \/ Wait(t) \/ EnableFlag(t) \/ EnableMask(t)
                        \/ DisableFlag(t) \/ DisableMask(t) \/ ReadMail(t)

Spec == Init /\ [][Next]_vars

\* Interrupts and softirqs are served, the AEON raises the interrupt of a mail
\* it fired, and the scheduler runs every thread that is inside an ioctl.
Fairness ==
  /\ WF_vars(AeonRaise) /\ WF_vars(MDrv_MSMailBox_Interrupt) /\ WF_vars(Tasklet)
  /\ \A t \in Threads : /\ WF_vars(Wait(t) /\ pc[t] # "user")
                         /\ SF_vars(WaitResume(t))
                         /\ WF_vars(EnableMask(t) \/ DisableMask(t))

FairSpec == Spec /\ Fairness

-----------------------------------------------------------------------------
TypeOK ==
  /\ fire \in BOOLEAN /\ busy \in BOOLEAN
  /\ word \in 0 .. MaxMails /\ fired \in 0 .. MaxMails
  /\ aeon \in {"idle", "raise"}
  /\ status \in BOOLEAN /\ mask \in BOOLEAN /\ sched \in BOOLEAN
  /\ aFlag \in {"START", "STOP"} /\ isr \in {"idle", "clear"}
  /\ bh \in BhSteps /\ ptMail \in 0 .. MaxMUnit - 1
  /\ u32PutAdr \in 0 .. MaxMUnit - 1 /\ u32GetAdr \in 0 .. MaxMUnit - 1
  /\ slot \in [0 .. MaxMUnit - 1 -> 0 .. MaxMails]
  /\ aNum \in {0, 1} /\ tWQ \subseteq Threads
  /\ pc \in [Threads -> PcSteps]
  /\ state \in [Threads -> {"RUNNING", "INTERRUPTIBLE"}]
  /\ bkl \in Threads \union {NoThread}
  /\ received \in 0 .. MaxMails /\ lastRead \in 0 .. MaxMails
  /\ overrun \in BOOLEAN /\ swallowed \in BOOLEAN

Asleep(t) == pc[t] = "asleep" /\ state[t] = "INTERRUPTIBLE"

\* A mail that arrives is announced: whatever the tasklet does between the
\* steps of opWQWait, a thread asleep in schedule_timeout has an empty ring in
\* front of it once the tasklet is done.  (opWQWait registers and sets aNum
\* before it checks the ring.)
NoLostWakeup ==
  bh = "idle" => \A t \in Threads : Asleep(t) => u32GetAdr = u32PutAdr

\* A mail in the AEON registers is on its way to the ring: its interrupt is
\* about to be raised, latched, turned into a scheduled tasklet, or being
\* served -- unless the handler dismissed that interrupt.
MailAccounted ==
  fire => \/ aeon = "raise" \/ status \/ sched \/ swallowed
          \/ bh \in {"busyS", "copy", "busyC", "fireC"}

\* Until the ring overruns, user space finds in it every mail the driver
\* received and it has not read, each once, in the order they were fired,
\* although u32PutAdr moves before the slot is filled.
Unread  == (u32PutAdr + MaxMUnit - u32GetAdr) % MaxMUnit
Filling == IF bh \in {"busyS", "copy"} THEN 1 ELSE 0

RingInOrder ==
  ~overrun =>
    /\ received + Filling = lastRead + Unread
    /\ \A k \in 0 .. MaxMUnit - 1 : k < received - lastRead =>
         slot[(u32GetAdr + k) % MaxMUnit] = lastRead + 1 + k

\* From the AEON to user space the mails are a bounded FIFO, until the ring
\* overruns: AeonFire puts, ReadMail gets, and no step between them loses,
\* repeats or reorders one, nor does an interrupt that is dismissed.
InRing == [k \in 1 .. Unread - Filling |-> slot[(u32GetAdr + k - 1) % MaxMUnit]]
InRegisters == fire /\ bh \notin {"busyC", "fireC"}
Queue == IF InRegisters THEN Append(InRing, word) ELSE InRing

MF == INSTANCE MailFifo WITH
        Mail <- 1 .. MaxMails, NoMail <- 0, Capacity <- MaxMUnit, q <- Queue,
        last <- lastRead
MailsAreFifo ==
  MF!FifoInit /\ [][MF!FifoNext \/ overrun']_<<Queue, lastRead>>

\* The line is open while aFlag says STOP, so that the handler would dismiss an
\* interrupt, only between the two stores of opDisable.
DismissedOnlyInDisable ==
  ~mask /\ ~Flagged => \E t \in Threads : pc[t] = "disMask"

\* An interrupt dismissed there costs more than its mail: nobody receives the
\* mail later, FIRE stays set and the AEON stays silent, whether or not the
\* interrupt is enabled again, until the device is opened again.
DismissalIsFinal == [][swallowed => UNCHANGED <<fire, fired, received>>]_vars

\* With the interrupt left enabled, every mail fired reaches the ring, unless
\* an interrupt was dismissed.
MailDelivered ==
  <>[](~mask) =>
    \A n \in 1 .. MaxMails : (fired >= n) ~> (received >= n \/ swallowed)

\* A thread that sleeps in opWQWait comes back to user space, whether or not a
\* mail or its wakeup arrives: schedule_timeout bounds the sleep.
WaiterReturns == \A t \in WaitThreads : (pc[t] = "asleep") ~> (pc[t] = "user")

\* The comment of opWQWait, "wait queue only accepts one thread to wait MLK
\* Mail" (mdrv_msmailbox_dev.c:236): no two threads are asleep in it.
OneWaiter == Cardinality({t \in Threads : Asleep(t)}) <= 1
=============================================================================
