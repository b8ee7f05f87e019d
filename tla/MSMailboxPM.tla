----------------------------- MODULE MSMailboxPM -----------------------------
(***************************************************************************)
(* The PM-to-host half of the MSMAILBOX driver, on an open device: the FIQ *)
(* line of the PM 8051, the PM2MIPS tasklet, the PM_Mail ring it fills and *)
(* _receive_mail_fromPM, which one kernel thread calls to empty it.        *)
(*                                                                         *)
(* The tasklet interrupts the thread between any two of its memory         *)
(* accesses and runs to its end before the thread goes on; the PM is       *)
(* another processor.                                                      *)
(***************************************************************************)
EXTENDS Naturals, Sequences

CONSTANTS
  RingSize,     \* slots of PM_Mail (20 in the code)
  MaxMails      \* bound: the number of mails the PM fires

ASSUME PMAssumption ==
  /\ RingSize \in Nat \ {0, 1}
  /\ MaxMails \in Nat

VARIABLES
  split,        \* the compiler stores PMIndxG before testing it against 20
  \* the PM register group and the PM itself
  fire, busy, ovf, word, pm, fired,
  \* the FIQ line 8051_TO_MIPS
  status, mask, aFlag,
  isr,          \* next step of the running FIQ handler
  sched,        \* the PM2MIPS tasklet is scheduled
  bh,           \* next step of the running tasklet
  \* the ring
  PM_Mail, PMIndxP, PMIndxG,
  \* the reading thread
  pc,           \* next step of _receive_mail_fromPM
  pMail,        \* the two halves of the caller's copy
  val,          \* STATUS1 as read by _OVERFLOW_C
  \* history
  last,         \* the mail of the last call that returned TRUE
  misjudged,    \* a test for room saw PMIndxG = RingSize in a full ring
  refused       \* a full ring refused a mail

pmVars   == <<fire, busy, ovf, word, pm, fired>>
irqVars  == <<status, mask, aFlag, isr, sched>>
ringVars == <<PM_Mail, PMIndxP, PMIndxG>>
rdVars   == <<pc, pMail, val, last>>
histVars == <<misjudged, refused, split>>
vars == <<pmVars, irqVars, bh, ringVars, rdVars, histVars>>

Slots == 0 .. RingSize - 1

Wrap(i) == IF i = RingSize THEN 0 ELSE i

Init ==
  /\ split \in BOOLEAN
  /\ fire = FALSE /\ busy = FALSE /\ ovf = FALSE /\ word = 0
  /\ pm = "idle" /\ fired = 0
  /\ status = FALSE /\ mask = TRUE /\ aFlag = "STOP" /\ isr = "idle" /\ sched = FALSE
  /\ bh = "idle"
  /\ PM_Mail = [i \in Slots |-> 0] /\ PMIndxP = 0 /\ PMIndxG = 0
  /\ pc = "idle" /\ pMail = <<0, 0>> /\ val = [busy |-> FALSE, ovf |-> FALSE]
  /\ last = 0 /\ misjudged = FALSE /\ refused = FALSE

-----------------------------------------------------------------------------
(* The PM: the protocol of hal_opFireLoopback, which plays its part.        *)

PMFire ==
  /\ pm = "idle" /\ ~fire /\ ~busy /\ ~ovf /\ fired < MaxMails
  /\ fired' = fired + 1
  /\ word' = fired + 1
  /\ fire' = TRUE
  /\ pm' = "raise"
  /\ UNCHANGED <<busy, ovf, irqVars, bh, ringVars, rdVars, histVars>>

PMRaise ==
  /\ pm = "raise"
  /\ status' = TRUE
  /\ pm' = "idle"
  /\ UNCHANGED <<fire, busy, ovf, word, fired, mask, aFlag, isr, sched, bh,
                 ringVars, rdVars, histVars>>

-----------------------------------------------------------------------------
(* The interrupt.  ioctl_ENABLE and ioctl_DISABLE both end in               *)
(* opEnable(CPUID_PM); on an open device nothing disables it.               *)

ThreadRuns == isr = "idle" /\ bh = "idle"

EnableFlag ==
  /\ ThreadRuns /\ aFlag = "STOP"
  /\ aFlag' = "START"
  /\ UNCHANGED <<pmVars, status, mask, isr, sched, bh, ringVars, rdVars, histVars>>

\* (mutant) the mask is opened without the flag.
EnableMaskOnly ==
  /\ ThreadRuns /\ mask
  /\ mask' = FALSE
  /\ UNCHANGED <<pmVars, status, aFlag, isr, sched, bh, ringVars, rdVars, histVars>>

EnableMask ==
  /\ ThreadRuns /\ aFlag = "START" /\ mask
  /\ mask' = FALSE
  /\ UNCHANGED <<pmVars, status, aFlag, isr, sched, bh, ringVars, rdVars, histVars>>

\* (mutant) the flag is never found set.
FlaggedNever == FALSE

Flagged == aFlag = "START"

InterruptTest ==
  /\ isr = "idle" /\ status /\ ~mask
  /\ sched' = (sched \/ Flagged)
  /\ isr' = "clear"
  /\ UNCHANGED <<pmVars, status, mask, aFlag, bh, ringVars, rdVars, histVars>>

InterruptClear ==
  /\ isr = "clear"
  /\ status' = FALSE
  /\ isr' = "idle"
  /\ UNCHANGED <<pmVars, mask, aFlag, sched, bh, ringVars, rdVars, histVars>>

MDrv_MSMailBox_Interrupt == InterruptTest \/ InterruptClear

-----------------------------------------------------------------------------
(* The tasklet: callback_receive_mail_int(CPUID_PM).                        *)

BhAt(step) == isr = "idle" /\ bh = step

\* (mutants) no test for room; the test without the modulus.
FullNever == FALSE
FullNoMod == PMIndxP + 1 = PMIndxG

Full == (PMIndxP + 1) % RingSize = PMIndxG

CallbackStart ==
  /\ BhAt("idle") /\ sched
  /\ sched' = FALSE
  /\ bh' = IF Full THEN "ovfS" ELSE "busyS"
  /\ misjudged' = (misjudged \/ (PMIndxG = RingSize /\ PMIndxP + 1 = RingSize))
  /\ UNCHANGED <<pmVars, status, mask, aFlag, isr, ringVars, rdVars, refused,
                 split>>

\* (mutant) the refused mail is dropped.
CallbackOverflowDrops ==
  /\ BhAt("ovfS")
  /\ ovf' = TRUE
  /\ fire' = FALSE
  /\ refused' = TRUE
  /\ bh' = "idle"
  /\ UNCHANGED <<busy, word, pm, fired, irqVars, ringVars, rdVars, misjudged, split>>

\* Full: set OVERFLOW and return; the mail stays in the registers.
CallbackOverflow ==
  /\ BhAt("ovfS")
  /\ ovf' = TRUE
  /\ refused' = TRUE
  /\ bh' = "idle"
  /\ UNCHANGED <<fire, busy, word, pm, fired, irqVars, ringVars, rdVars,
                 misjudged, split>>

\* hal_opReceive into PM_Mail[PMIndxP], register access by register access.
ReceiveBusySet ==
  /\ BhAt("busyS")
  /\ busy' = TRUE
  /\ bh' = "copy"
  /\ UNCHANGED <<fire, ovf, word, pm, fired, irqVars, ringVars, rdVars, histVars>>

ReceiveCopy ==
  /\ BhAt("copy")
  /\ PM_Mail' = [PM_Mail EXCEPT ![PMIndxP] = word]
  /\ bh' = "busyC"
  /\ UNCHANGED <<pmVars, irqVars, PMIndxP, PMIndxG, rdVars, histVars>>

ReceiveBusyClear ==
  /\ BhAt("busyC")
  /\ busy' = FALSE
  /\ bh' = "fireC"
  /\ UNCHANGED <<fire, ovf, word, pm, fired, irqVars, ringVars, rdVars, histVars>>

ReceiveFireClear ==
  /\ BhAt("fireC")
  /\ fire' = FALSE
  /\ bh' = "advance"
  /\ UNCHANGED <<busy, ovf, word, pm, fired, irqVars, ringVars, rdVars, histVars>>

AdvanceP ==
  /\ BhAt("advance")
  /\ PMIndxP' = Wrap(PMIndxP + 1)
  /\ bh' = "idle"
  /\ UNCHANGED <<pmVars, irqVars, PM_Mail, PMIndxG, rdVars, histVars>>

Tasklet == \/ CallbackStart \/ CallbackOverflow \/ ReceiveBusySet \/ ReceiveCopy
           \/ ReceiveBusyClear \/ ReceiveFireClear \/ AdvanceP

-----------------------------------------------------------------------------
(* _receive_mail_fromPM.                                                    *)

Goto(from, to) == ThreadRuns /\ pc = from /\ pc' = to

\* With PMIndxG = PMIndxP it returns FALSE and changes nothing.
Receive ==
  /\ Goto("idle", "copy1")
  /\ PMIndxG # PMIndxP
  /\ UNCHANGED <<pmVars, irqVars, bh, ringVars, pMail, val, last, histVars>>

\* The memcpy, in two halves.
CopyFirst ==
  /\ Goto("copy1", "copy2")
  /\ pMail' = [pMail EXCEPT ![1] = PM_Mail[PMIndxG]]
  /\ UNCHANGED <<pmVars, irqVars, bh, ringVars, val, last, histVars>>

CopySecond ==
  /\ Goto("copy2", "advance")
  /\ pMail' = [pMail EXCEPT ![2] = PM_Mail[PMIndxG]]
  /\ UNCHANGED <<pmVars, irqVars, bh, ringVars, val, last, histVars>>

\* PMIndxG = PMIndxG + 1, and back to 0 at the end of the ring: one store or,
\* with split, two.
AdvanceG ==
  /\ Goto("advance", IF split THEN "wrap" ELSE "ovfR")
  /\ PMIndxG' = IF split THEN PMIndxG + 1 ELSE Wrap(PMIndxG + 1)
  /\ last' = pMail[1]
  /\ UNCHANGED <<pmVars, irqVars, bh, PM_Mail, PMIndxP, pMail, val, histVars>>

WrapG ==
  /\ Goto("wrap", "ovfR")
  /\ PMIndxG' = Wrap(PMIndxG)
  /\ UNCHANGED <<pmVars, irqVars, bh, PM_Mail, PMIndxP, pMail, val, last, histVars>>

\* hal_opOverflow(CPUID_PM, FALSE): read STATUS1, write it back without BIT13.
OverflowRead ==
  /\ Goto("ovfR", "ovfW")
  /\ val' = [busy |-> busy, ovf |-> ovf]
  /\ UNCHANGED <<pmVars, irqVars, bh, ringVars, pMail, last, histVars>>

OverflowWrite ==
  /\ Goto("ovfW", "idle")
  /\ ovf' = FALSE
  /\ busy' = val.busy
  /\ UNCHANGED <<fire, word, pm, fired, irqVars, bh, ringVars, pMail, val, last,
                 histVars>>

Reader == \/ CopyFirst \/ CopySecond \/ AdvanceG \/ WrapG
          \/ OverflowRead \/ OverflowWrite

Next ==
  \/ PMFire \/ PMRaise \/ EnableFlag \/ EnableMask
  \/ MDrv_MSMailBox_Interrupt \/ Tasklet \/ Receive \/ Reader

Spec == Init /\ [][Next]_vars

\* Interrupts and softirqs are served, the PM raises the interrupt of a mail it
\* fired, and the client keeps calling _receive_mail_fromPM.
Fairness ==
  /\ WF_vars(PMRaise) /\ WF_vars(MDrv_MSMailBox_Interrupt) /\ WF_vars(Tasklet)
  /\ SF_vars(Receive) /\ SF_vars(Reader)

FairSpec == Spec /\ Fairness

-----------------------------------------------------------------------------
BitsOK ==
  /\ fire \in BOOLEAN /\ busy \in BOOLEAN /\ ovf \in BOOLEAN
  /\ status \in BOOLEAN /\ mask \in BOOLEAN /\ sched \in BOOLEAN
  /\ misjudged \in BOOLEAN /\ refused \in BOOLEAN /\ split \in BOOLEAN
StepsOK ==
  /\ pm \in {"idle", "raise"} /\ aFlag \in {"START", "STOP"}
  /\ isr \in {"idle", "clear"}
  /\ bh \in {"idle", "ovfS", "busyS", "copy", "busyC", "fireC", "advance"}
  /\ pc \in {"idle", "copy1", "copy2", "advance", "wrap", "ovfR", "ovfW"}
IndexOK ==
  /\ PMIndxP \in Slots
  /\ PMIndxG \in Slots \/ (PMIndxG = RingSize /\ pc = "wrap")
MailsOK ==
  /\ PM_Mail \in [Slots -> 0 .. MaxMails]
  /\ word \in 0 .. MaxMails /\ fired \in 0 .. MaxMails /\ last \in 0 .. MaxMails
  /\ pMail \in [1 .. 2 -> 0 .. MaxMails]
StatusReadOK == val \in [busy : BOOLEAN, ovf : BOOLEAN]

TypeOK == BitsOK /\ StepsOK /\ IndexOK /\ MailsOK /\ StatusReadOK

\* The mails in the ring: how many, and the slot of the k-th one from the oldest.
Held == LET g == Wrap(PMIndxG) IN
        IF PMIndxP >= g THEN PMIndxP - g ELSE PMIndxP + RingSize - g
SlotOf(k) == LET i == Wrap(PMIndxG) + k IN IF i < RingSize THEN i ELSE i - RingSize

\* The ring loses, repeats and reorders nothing: it holds, from PMIndxG on, the
\* mails that follow the last one returned, and every mail fired is returned,
\* in the ring, in the registers, or copied to the slot that AdvanceP is about to
\* add -- unless the tasklet tested for room
\* between the two stores of PMIndxG and took a full ring for one with room.
Outside == (IF fire THEN 1 ELSE 0) + (IF bh = "advance" THEN 1 ELSE 0)

RingInOrder ==
  ~misjudged =>
    /\ \A k \in Slots : k < Held => PM_Mail[SlotOf(k)] = last + 1 + k
    /\ last + Held + Outside = fired

\* The memcpy of _receive_mail_fromPM takes no lock: still the tasklet never
\* writes the slot under it, and both halves are of the next mail.
CopyIntact ==
  pc = "advance" => pMail[1] = pMail[2] /\ (~misjudged => pMail[1] = last + 1)

\* A mail in the PM registers is on its way into the ring, or was refused.
MailAccounted ==
  fire => \/ pm = "raise" \/ status \/ sched \/ refused
          \/ bh \in {"ovfS", "busyS", "copy", "busyC", "fireC"}

\* One refused mail closes the channel: _receive_mail_fromPM clears OVERFLOW
\* but nobody receives the mail again, FIRE stays set and the PM stays silent,
\* however much room the ring has, until the device is opened again.
RefusalIsFinal == [][refused => UNCHANGED <<fire, fired>>]_vars

\* The ring is a bounded FIFO of RingSize - 1 mails: AdvanceP puts, AdvanceG
\* gets, every other step leaves it alone -- with one store of PMIndxG always,
\* with two until a test for room is misjudged between them.
Queue == [k \in 1 .. Held |-> PM_Mail[SlotOf(k - 1)]]
MF == INSTANCE MailFifo WITH
        Mail <- 1 .. MaxMails, NoMail <- 0, Capacity <- RingSize - 1, q <- Queue
RingIsFifo ==
  MF!FifoInit /\ [][MF!FifoNext \/ misjudged']_<<Queue, last>>

\* With the interrupt enabled for good, every mail fired is returned by some
\* call, unless one was refused or the ring was overwritten by misjudgement.
MailDelivered ==
  <>[](~mask) =>
    \A n \in 1 .. MaxMails : (fired >= n) ~> (last >= n \/ refused \/ misjudged)
=============================================================================
