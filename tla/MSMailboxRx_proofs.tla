-------------------------- MODULE MSMailboxRx_proofs --------------------------
(***************************************************************************)
(* Theorems about MSMailboxRx, for every set of threads, size of the ring  *)
(* and number of mails: a mail in the AEON registers is at one stage of    *)
(* its way, a dismissed interrupt is final, and one waiter at a time never *)
(* sleeps on a mail in the ring.                                           *)
(***************************************************************************)
EXTENDS MSMailboxRx, TLAPS

-----------------------------------------------------------------------------
(* The inductive invariant.                                                 *)

\* A mail in the registers is at one stage, and at one only: fired but not
\* raised, raised, waiting for the tasklet, received by it, or dismissed.  The
\* AEON fires no other before it leaves them.
Receiving == bh \in {"busyS", "copy", "busyC", "fireC"}

OneMail ==
  /\ fire <=> (aeon = "raise" \/ status \/ sched \/ swallowed \/ Receiving)
  /\ aeon = "raise" => ~status /\ ~sched /\ ~swallowed /\ ~Receiving
  /\ status => ~Receiving /\ (isr = "idle" => ~sched /\ ~swallowed)
  /\ isr = "clear" => status /\ (sched \/ swallowed)
  /\ sched => ~swallowed /\ ~Receiving
  /\ swallowed => ~Receiving

\* A thread inside an ioctl holds the big kernel lock unless it sleeps.
Locked(t) ==
  /\ pc[t] \notin {"user", "asleep"} => bkl = t
  /\ pc[t] = "enMask" => Flagged

\* A thread that would sleep is on the wait queue, and from aNum = 1 on the
\* tasklet will wake it; it goes to sleep with an empty ring in front of it.
OneWaits == \A t, u \in WaitThreads : t = u

Waits(t) ==
  pc[t] \in {"prepare", "set", "check", "sched", "asleep", "finish", "clr"}
    => t \in WaitThreads

Registered(t) ==
  state[t] = "INTERRUPTIBLE" =>
    /\ pc[t] \in {"set", "check", "sched", "asleep"} => t \in tWQ
    /\ pc[t] \in {"check", "sched", "asleep"} => aNum = 1
    /\ pc[t] \in {"sched", "asleep"} /\ bh = "idle" => u32GetAdr = u32PutAdr

\* The registers hold the last mail fired, which is received once the tasklet has
\* copied it; until then the slot it has for it is the one before u32PutAdr.
Delivered ==
  /\ word = fired
  /\ received = IF fire /\ bh \notin {"busyC", "fireC"} THEN fired - 1 ELSE fired
  /\ bh \in {"busyS", "copy"} =>
       u32PutAdr = NextAdr(ptMail) /\ (~overrun => u32PutAdr # u32GetAdr)

IInv ==
  /\ TypeOK
  /\ OneMail
  /\ Delivered
  /\ \A t \in Threads : Locked(t) /\ Waits(t)
  /\ DismissedOnlyInDisable
  /\ OneWaits => \A t \in Threads : Registered(t)

-----------------------------------------------------------------------------
(* Lemmas: the initial states.                                              *)

LEMMA InitIInv == ASSUME Init PROVE IInv
<1> USE RxAssumption DEF Init
<1>1. TypeOK
  <2>1. 0 \in 0 .. MaxMUnit - 1 /\ 0 \in 0 .. MaxMails
    OBVIOUS
  <2>2. /\ {fire, busy, status, mask, sched, overrun, swallowed} \subseteq BOOLEAN
        /\ aFlag \in {"START", "STOP"} /\ isr \in {"idle", "clear"}
    BY Zenon
  <2> QED
    BY <2>1, <2>2 DEF TypeOK, BhSteps, PcSteps
<1>2. OneMail /\ DismissedOnlyInDisable /\ Delivered
  BY DEF OneMail, Receiving, DismissedOnlyInDisable, Flagged, Delivered
<1>3. \A t \in Threads : Locked(t) /\ Waits(t) /\ Registered(t)
  BY DEF Locked, Flagged, Waits, Registered
<1> QED
  BY <1>1, <1>2, <1>3 DEF IInv

-----------------------------------------------------------------------------
(* Lemmas: each step keeps the invariant.                                   *)

\* The next slot is a slot.
LEMMA NextAdrType ==
  ASSUME NEW i \in 0 .. MaxMUnit - 1
  PROVE  NextAdr(i) \in 0 .. MaxMUnit - 1
  BY RxAssumption DEF NextAdr

LEMMA AeonFireKeeps ==
  ASSUME IInv, AeonFire
  PROVE  IInv'
<1> USE RxAssumption
    DEF AeonFire,
        aeonVars, irqVars, bhVars, ringVars, wqVars, thVars, histVars
<1>1. TypeOK /\ OneMail /\ Delivered /\ DismissedOnlyInDisable
  BY DEF IInv
<1>2. \A u \in Threads : Locked(u) /\ Waits(u)
  BY DEF IInv
<1>3. OneWaits => \A u \in Threads : Registered(u)
  BY DEF IInv
<1>4. TypeOK'
  <2>1. /\ fire' \in BOOLEAN /\ busy' \in BOOLEAN
        /\ status' \in BOOLEAN /\ mask' \in BOOLEAN /\ sched' \in BOOLEAN
        /\ overrun' \in BOOLEAN /\ swallowed' \in BOOLEAN
    BY <1>1, Zenon DEF TypeOK
  <2>2. /\ word' \in 0 .. MaxMails /\ fired' \in 0 .. MaxMails
        /\ received' \in 0 .. MaxMails /\ lastRead' \in 0 .. MaxMails
    BY <1>1 DEF TypeOK
  <2>3. aeon' \in {"idle", "raise"} /\ isr' \in {"idle", "clear"}
    BY <1>1, Zenon DEF TypeOK
  <2> QED
    BY <1>1, <2>1, <2>2, <2>3, Zenon DEF TypeOK
<1>5. OneMail'
  BY <1>1 DEF TypeOK, OneMail, Receiving, Flagged
<1>6. \A u \in Threads : Locked(u)'
  BY <1>1, <1>2 DEF TypeOK, Locked, Flagged
<1>7. \A u \in Threads : Waits(u)'
  BY <1>1, <1>2 DEF TypeOK, Waits
<1>8. DismissedOnlyInDisable'
  BY <1>1, <1>2 DEF TypeOK, DismissedOnlyInDisable, Locked, Flagged
<1>9. OneWaits => \A u \in Threads : Registered(u)'
  BY <1>1, <1>2, <1>3 DEF TypeOK, Registered, OneWaits, Waits, Locked
<1>10. Delivered'
  BY <1>1 DEF TypeOK, OneMail, Receiving, Delivered, NextAdr
<1> QED
  BY <1>4, <1>5, <1>6, <1>7, <1>8, <1>9, <1>10 DEF IInv, OneWaits

LEMMA AeonRaiseKeeps ==
  ASSUME IInv, AeonRaise
  PROVE  IInv'
<1> USE RxAssumption
    DEF AeonRaise,
        aeonVars, irqVars, bhVars, ringVars, wqVars, thVars, histVars
<1>1. TypeOK /\ OneMail /\ Delivered /\ DismissedOnlyInDisable
  BY DEF IInv
<1>2. \A u \in Threads : Locked(u) /\ Waits(u)
  BY DEF IInv
<1>3. OneWaits => \A u \in Threads : Registered(u)
  BY DEF IInv
<1>4. TypeOK'
  <2>1. /\ fire' \in BOOLEAN /\ busy' \in BOOLEAN
        /\ status' \in BOOLEAN /\ mask' \in BOOLEAN /\ sched' \in BOOLEAN
        /\ overrun' \in BOOLEAN /\ swallowed' \in BOOLEAN
    BY <1>1, Zenon DEF TypeOK
  <2>2. /\ word' \in 0 .. MaxMails /\ fired' \in 0 .. MaxMails
        /\ received' \in 0 .. MaxMails /\ lastRead' \in 0 .. MaxMails
    BY <1>1 DEF TypeOK
  <2>3. aeon' \in {"idle", "raise"} /\ isr' \in {"idle", "clear"}
    BY <1>1, Zenon DEF TypeOK
  <2> QED
    BY <1>1, <2>1, <2>2, <2>3, Zenon DEF TypeOK
<1>5. OneMail'
  BY <1>1 DEF TypeOK, OneMail, Receiving, Flagged
<1>6. \A u \in Threads : Locked(u)'
  BY <1>1, <1>2 DEF TypeOK, Locked, Flagged
<1>7. \A u \in Threads : Waits(u)'
  BY <1>1, <1>2 DEF TypeOK, Waits
<1>8. DismissedOnlyInDisable'
  BY <1>1, <1>2 DEF TypeOK, DismissedOnlyInDisable, Locked, Flagged
<1>9. OneWaits => \A u \in Threads : Registered(u)'
  BY <1>1, <1>2, <1>3 DEF TypeOK, Registered, OneWaits, Waits, Locked
<1>10. Delivered'
  BY <1>1 DEF TypeOK, OneMail, Receiving, Delivered, NextAdr
<1> QED
  BY <1>4, <1>5, <1>6, <1>7, <1>8, <1>9, <1>10 DEF IInv, OneWaits

LEMMA InterruptTestKeeps ==
  ASSUME IInv, InterruptTest
  PROVE  IInv'
<1> USE RxAssumption
    DEF InterruptTest,
        aeonVars, irqVars, bhVars, ringVars, wqVars, thVars, histVars
<1>1. TypeOK /\ OneMail /\ Delivered /\ DismissedOnlyInDisable
  BY DEF IInv
<1>2. \A u \in Threads : Locked(u) /\ Waits(u)
  BY DEF IInv
<1>3. OneWaits => \A u \in Threads : Registered(u)
  BY DEF IInv
<1>4. TypeOK'
  BY <1>1, NextAdrType DEF TypeOK, BhSteps, PcSteps
<1>5. OneMail'
  BY <1>1 DEF TypeOK, OneMail, Receiving, Flagged
<1>6. \A u \in Threads : Locked(u)'
  BY <1>1, <1>2 DEF TypeOK, Locked, Flagged
<1>7. \A u \in Threads : Waits(u)'
  BY <1>1, <1>2 DEF TypeOK, Waits
<1>8. DismissedOnlyInDisable'
  BY <1>1, <1>2 DEF TypeOK, DismissedOnlyInDisable, Locked, Flagged
<1>9. OneWaits => \A u \in Threads : Registered(u)'
  BY <1>1, <1>2, <1>3 DEF TypeOK, Registered, OneWaits, Waits, Locked
<1>10. Delivered'
  BY <1>1 DEF TypeOK, OneMail, Receiving, Delivered, NextAdr
<1> QED
  BY <1>4, <1>5, <1>6, <1>7, <1>8, <1>9, <1>10 DEF IInv, OneWaits

LEMMA InterruptClearKeeps ==
  ASSUME IInv, InterruptClear
  PROVE  IInv'
<1> USE RxAssumption
    DEF InterruptClear,
        aeonVars, irqVars, bhVars, ringVars, wqVars, thVars, histVars
<1>1. TypeOK /\ OneMail /\ Delivered /\ DismissedOnlyInDisable
  BY DEF IInv
<1>2. \A u \in Threads : Locked(u) /\ Waits(u)
  BY DEF IInv
<1>3. OneWaits => \A u \in Threads : Registered(u)
  BY DEF IInv
<1>4. TypeOK'
  <2>1. /\ fire' \in BOOLEAN /\ busy' \in BOOLEAN
        /\ status' \in BOOLEAN /\ mask' \in BOOLEAN /\ sched' \in BOOLEAN
        /\ overrun' \in BOOLEAN /\ swallowed' \in BOOLEAN
    BY <1>1, Zenon DEF TypeOK
  <2>2. /\ word' \in 0 .. MaxMails /\ fired' \in 0 .. MaxMails
        /\ received' \in 0 .. MaxMails /\ lastRead' \in 0 .. MaxMails
    BY <1>1 DEF TypeOK
  <2>3. aeon' \in {"idle", "raise"} /\ isr' \in {"idle", "clear"}
    BY <1>1, Zenon DEF TypeOK
  <2> QED
    BY <1>1, <2>1, <2>2, <2>3, Zenon DEF TypeOK
<1>5. OneMail'
  BY <1>1 DEF TypeOK, OneMail, Receiving, Flagged
<1>6. \A u \in Threads : Locked(u)'
  BY <1>1, <1>2 DEF TypeOK, Locked, Flagged
<1>7. \A u \in Threads : Waits(u)'
  BY <1>1, <1>2 DEF TypeOK, Waits
<1>8. DismissedOnlyInDisable'
  BY <1>1, <1>2 DEF TypeOK, DismissedOnlyInDisable, Locked, Flagged
<1>9. OneWaits => \A u \in Threads : Registered(u)'
  BY <1>1, <1>2, <1>3 DEF TypeOK, Registered, OneWaits, Waits, Locked
<1>10. Delivered'
  BY <1>1 DEF TypeOK, OneMail, Receiving, Delivered, NextAdr
<1> QED
  BY <1>4, <1>5, <1>6, <1>7, <1>8, <1>9, <1>10 DEF IInv, OneWaits

LEMMA opMBPutAddrKeeps ==
  ASSUME IInv, opMBPutAddr
  PROVE  IInv'
<1> USE RxAssumption
    DEF opMBPutAddr, BhAt,
        aeonVars, irqVars, bhVars, ringVars, wqVars, thVars, histVars
<1>1. TypeOK /\ OneMail /\ Delivered /\ DismissedOnlyInDisable
  BY DEF IInv
<1>2. \A u \in Threads : Locked(u) /\ Waits(u)
  BY DEF IInv
<1>3. OneWaits => \A u \in Threads : Registered(u)
  BY DEF IInv
<1>4. TypeOK'
  BY <1>1, NextAdrType DEF TypeOK, BhSteps, PcSteps
<1>5. OneMail'
  BY <1>1 DEF TypeOK, OneMail, Receiving, Flagged
<1>6. \A u \in Threads : Locked(u)'
  BY <1>1, <1>2 DEF TypeOK, Locked, Flagged
<1>7. \A u \in Threads : Waits(u)'
  BY <1>1, <1>2 DEF TypeOK, Waits
<1>8. DismissedOnlyInDisable'
  BY <1>1, <1>2 DEF TypeOK, DismissedOnlyInDisable, Locked, Flagged
<1>9. OneWaits => \A u \in Threads : Registered(u)'
  BY <1>1, <1>2, <1>3 DEF TypeOK, Registered, OneWaits, Waits, Locked
<1>10. Delivered'
  BY <1>1 DEF TypeOK, OneMail, Receiving, Delivered, NextAdr
<1> QED
  BY <1>4, <1>5, <1>6, <1>7, <1>8, <1>9, <1>10 DEF IInv, OneWaits

LEMMA ReceiveBusySetKeeps ==
  ASSUME IInv, ReceiveBusySet
  PROVE  IInv'
<1> USE RxAssumption
    DEF ReceiveBusySet, BhAt,
        aeonVars, irqVars, bhVars, ringVars, wqVars, thVars, histVars
<1>1. TypeOK /\ OneMail /\ Delivered /\ DismissedOnlyInDisable
  BY DEF IInv
<1>2. \A u \in Threads : Locked(u) /\ Waits(u)
  BY DEF IInv
<1>3. OneWaits => \A u \in Threads : Registered(u)
  BY DEF IInv
<1>4. TypeOK'
  <2>1. busy' \in BOOLEAN
    OBVIOUS
  <2>2. bh' \in BhSteps
    BY DEF BhSteps
  <2> QED
    BY <1>1, <2>1, <2>2 DEF TypeOK
<1>5. OneMail'
  BY <1>1 DEF TypeOK, OneMail, Receiving, Flagged
<1>6. \A u \in Threads : Locked(u)'
  BY <1>1, <1>2 DEF TypeOK, Locked, Flagged
<1>7. \A u \in Threads : Waits(u)'
  BY <1>1, <1>2 DEF TypeOK, Waits
<1>8. DismissedOnlyInDisable'
  BY <1>1, <1>2 DEF TypeOK, DismissedOnlyInDisable, Locked, Flagged
<1>9. OneWaits => \A u \in Threads : Registered(u)'
  BY <1>1, <1>2, <1>3 DEF TypeOK, Registered, OneWaits, Waits, Locked
<1>10. Delivered'
  BY <1>1 DEF TypeOK, OneMail, Receiving, Delivered, NextAdr
<1> QED
  BY <1>4, <1>5, <1>6, <1>7, <1>8, <1>9, <1>10 DEF IInv, OneWaits

LEMMA ReceiveCopyKeeps ==
  ASSUME IInv, ReceiveCopy
  PROVE  IInv'
<1> USE RxAssumption
    DEF ReceiveCopy, BhAt,
        aeonVars, irqVars, bhVars, ringVars, wqVars, thVars, histVars
<1>1. TypeOK /\ OneMail /\ Delivered /\ DismissedOnlyInDisable
  BY DEF IInv
<1>2. \A u \in Threads : Locked(u) /\ Waits(u)
  BY DEF IInv
<1>3. OneWaits => \A u \in Threads : Registered(u)
  BY DEF IInv
<1>4. TypeOK'
  <2>1. slot' \in [0 .. MaxMUnit - 1 -> 0 .. MaxMails] /\ received' \in 0 .. MaxMails
    BY <1>1 DEF TypeOK
  <2>2. bh' \in BhSteps
    BY DEF BhSteps
  <2> QED
    BY <1>1, <2>1, <2>2 DEF TypeOK
<1>5. OneMail'
  BY <1>1 DEF TypeOK, OneMail, Receiving, Flagged
<1>6. \A u \in Threads : Locked(u)'
  BY <1>1, <1>2 DEF TypeOK, Locked, Flagged
<1>7. \A u \in Threads : Waits(u)'
  BY <1>1, <1>2 DEF TypeOK, Waits
<1>8. DismissedOnlyInDisable'
  BY <1>1, <1>2 DEF TypeOK, DismissedOnlyInDisable, Locked, Flagged
<1>9. OneWaits => \A u \in Threads : Registered(u)'
  BY <1>1, <1>2, <1>3 DEF TypeOK, Registered, OneWaits, Waits, Locked
<1>10. Delivered'
  BY <1>1 DEF TypeOK, OneMail, Receiving, Delivered, NextAdr
<1> QED
  BY <1>4, <1>5, <1>6, <1>7, <1>8, <1>9, <1>10 DEF IInv, OneWaits

LEMMA ReceiveBusyClearKeeps ==
  ASSUME IInv, ReceiveBusyClear
  PROVE  IInv'
<1> USE RxAssumption
    DEF ReceiveBusyClear, BhAt,
        aeonVars, irqVars, bhVars, ringVars, wqVars, thVars, histVars
<1>1. TypeOK /\ OneMail /\ Delivered /\ DismissedOnlyInDisable
  BY DEF IInv
<1>2. \A u \in Threads : Locked(u) /\ Waits(u)
  BY DEF IInv
<1>3. OneWaits => \A u \in Threads : Registered(u)
  BY DEF IInv
<1>4. TypeOK'
  <2>1. busy' \in BOOLEAN
    OBVIOUS
  <2>2. bh' \in BhSteps
    BY DEF BhSteps
  <2> QED
    BY <1>1, <2>1, <2>2 DEF TypeOK
<1>5. OneMail'
  BY <1>1 DEF TypeOK, OneMail, Receiving, Flagged
<1>6. \A u \in Threads : Locked(u)'
  BY <1>1, <1>2 DEF TypeOK, Locked, Flagged
<1>7. \A u \in Threads : Waits(u)'
  BY <1>1, <1>2 DEF TypeOK, Waits
<1>8. DismissedOnlyInDisable'
  BY <1>1, <1>2 DEF TypeOK, DismissedOnlyInDisable, Locked, Flagged
<1>9. OneWaits => \A u \in Threads : Registered(u)'
  BY <1>1, <1>2, <1>3 DEF TypeOK, Registered, OneWaits, Waits, Locked
<1>10. Delivered'
  BY <1>1 DEF TypeOK, OneMail, Receiving, Delivered, NextAdr
<1> QED
  BY <1>4, <1>5, <1>6, <1>7, <1>8, <1>9, <1>10 DEF IInv, OneWaits

LEMMA ReceiveFireClearKeeps ==
  ASSUME IInv, ReceiveFireClear
  PROVE  IInv'
<1> USE RxAssumption
    DEF ReceiveFireClear, BhAt,
        aeonVars, irqVars, bhVars, ringVars, wqVars, thVars, histVars
<1>1. TypeOK /\ OneMail /\ Delivered /\ DismissedOnlyInDisable
  BY DEF IInv
<1>2. \A u \in Threads : Locked(u) /\ Waits(u)
  BY DEF IInv
<1>3. OneWaits => \A u \in Threads : Registered(u)
  BY DEF IInv
<1>4. TypeOK'
  <2>1. fire' \in BOOLEAN
    OBVIOUS
  <2>2. bh' \in BhSteps
    BY DEF BhSteps
  <2> QED
    BY <1>1, <2>1, <2>2 DEF TypeOK
<1>5. OneMail'
  BY <1>1 DEF TypeOK, OneMail, Receiving, Flagged
<1>6. \A u \in Threads : Locked(u)'
  BY <1>1, <1>2 DEF TypeOK, Locked, Flagged
<1>7. \A u \in Threads : Waits(u)'
  BY <1>1, <1>2 DEF TypeOK, Waits
<1>8. DismissedOnlyInDisable'
  BY <1>1, <1>2 DEF TypeOK, DismissedOnlyInDisable, Locked, Flagged
<1>9. OneWaits => \A u \in Threads : Registered(u)'
  BY <1>1, <1>2, <1>3 DEF TypeOK, Registered, OneWaits, Waits, Locked
<1>10. Delivered'
  BY <1>1 DEF TypeOK, OneMail, Receiving, Delivered, NextAdr
<1> QED
  BY <1>4, <1>5, <1>6, <1>7, <1>8, <1>9, <1>10 DEF IInv, OneWaits

LEMMA opWQWakeupKeeps ==
  ASSUME IInv, opWQWakeup
  PROVE  IInv'
<1> USE RxAssumption
    DEF opWQWakeup, BhAt, Sleepers,
        aeonVars, irqVars, bhVars, ringVars, wqVars, thVars, histVars
<1>1. TypeOK /\ OneMail /\ Delivered /\ DismissedOnlyInDisable
  BY DEF IInv
<1>2. \A u \in Threads : Locked(u) /\ Waits(u)
  BY DEF IInv
<1>3. OneWaits => \A u \in Threads : Registered(u)
  BY DEF IInv
<1>4. TypeOK'
  <2>1. state' \in [Threads -> {"RUNNING", "INTERRUPTIBLE"}]
    BY <1>1 DEF TypeOK
  <2>2. tWQ' \subseteq Threads /\ aNum' \in {0, 1}
    BY <1>1 DEF TypeOK
  <2>3. bh' \in BhSteps
    BY DEF BhSteps
  <2> QED
    BY <1>1, <2>1, <2>2, <2>3 DEF TypeOK
<1>5. OneMail'
  BY <1>1 DEF TypeOK, OneMail, Receiving, Flagged
<1>6. \A u \in Threads : Locked(u)'
  BY <1>1, <1>2 DEF TypeOK, Locked, Flagged
<1>7. \A u \in Threads : Waits(u)'
  BY <1>1, <1>2 DEF TypeOK, Waits
<1>8. DismissedOnlyInDisable'
  BY <1>1, <1>2 DEF TypeOK, DismissedOnlyInDisable, Locked, Flagged
<1>9. OneWaits => \A u \in Threads : Registered(u)'
  BY <1>1, <1>2, <1>3 DEF TypeOK, Registered, OneWaits, Waits, Locked
<1>10. Delivered'
  BY <1>1 DEF TypeOK, OneMail, Receiving, Delivered, NextAdr
<1> QED
  BY <1>4, <1>5, <1>6, <1>7, <1>8, <1>9, <1>10 DEF IInv, OneWaits

LEMMA WaitEnterKeeps ==
  ASSUME IInv, NEW t \in Threads, WaitEnter(t)
  PROVE  IInv'
<1> USE RxAssumption
    DEF WaitEnter, Enter, ThreadsRun, BhAt,
        aeonVars, irqVars, bhVars, ringVars, wqVars, thVars, histVars
<1>1. TypeOK /\ OneMail /\ Delivered /\ DismissedOnlyInDisable
  BY DEF IInv
<1>2. \A u \in Threads : Locked(u) /\ Waits(u)
  BY DEF IInv
<1>3. OneWaits => \A u \in Threads : Registered(u)
  BY DEF IInv
<1>4. TypeOK'
  BY <1>1, NextAdrType DEF TypeOK, BhSteps, PcSteps
<1>5. OneMail'
  BY <1>1 DEF TypeOK, OneMail, Receiving, Flagged
<1>6. \A u \in Threads : Locked(u)'
  BY <1>1, <1>2 DEF TypeOK, Locked, Flagged
<1>7. \A u \in Threads : Waits(u)'
  BY <1>1, <1>2 DEF TypeOK, Waits
<1>8. DismissedOnlyInDisable'
  BY <1>1, <1>2 DEF TypeOK, DismissedOnlyInDisable, Locked, Flagged
<1>9. OneWaits => \A u \in Threads : Registered(u)'
  BY <1>1, <1>2, <1>3 DEF TypeOK, Registered, OneWaits, Waits, Locked
<1>10. Delivered'
  BY <1>1 DEF TypeOK, OneMail, Receiving, Delivered, NextAdr
<1> QED
  BY <1>4, <1>5, <1>6, <1>7, <1>8, <1>9, <1>10 DEF IInv, OneWaits

LEMMA WaitPrepareKeeps ==
  ASSUME IInv, NEW t \in Threads, WaitPrepare(t)
  PROVE  IInv'
<1> USE RxAssumption
    DEF WaitPrepare, Step, ThreadsRun, BhAt,
        aeonVars, irqVars, bhVars, ringVars, wqVars, thVars, histVars
<1>1. TypeOK /\ OneMail /\ Delivered /\ DismissedOnlyInDisable
  BY DEF IInv
<1>2. \A u \in Threads : Locked(u) /\ Waits(u)
  BY DEF IInv
<1>3. OneWaits => \A u \in Threads : Registered(u)
  BY DEF IInv
<1>4. TypeOK'
  <2>1. pc' \in [Threads -> PcSteps]
    BY <1>1 DEF TypeOK, PcSteps
  <2>2. state' \in [Threads -> {"RUNNING", "INTERRUPTIBLE"}]
    BY <1>1 DEF TypeOK
  <2>3. tWQ' \subseteq Threads
    BY <1>1 DEF TypeOK
  <2> QED
    BY <1>1, <2>1, <2>2, <2>3 DEF TypeOK
<1>5. OneMail'
  BY <1>1 DEF TypeOK, OneMail, Receiving, Flagged
<1>6. \A u \in Threads : Locked(u)'
  BY <1>1, <1>2 DEF TypeOK, Locked, Flagged
<1>7. \A u \in Threads : Waits(u)'
  BY <1>1, <1>2 DEF TypeOK, Waits
<1>8. DismissedOnlyInDisable'
  BY <1>1, <1>2 DEF TypeOK, DismissedOnlyInDisable, Locked, Flagged
<1>9. OneWaits => \A u \in Threads : Registered(u)'
  BY <1>1, <1>2, <1>3 DEF TypeOK, Registered, OneWaits, Waits, Locked
<1>10. Delivered'
  BY <1>1 DEF TypeOK, OneMail, Receiving, Delivered, NextAdr
<1> QED
  BY <1>4, <1>5, <1>6, <1>7, <1>8, <1>9, <1>10 DEF IInv, OneWaits

LEMMA WaitSetKeeps ==
  ASSUME IInv, NEW t \in Threads, WaitSet(t)
  PROVE  IInv'
<1> USE RxAssumption
    DEF WaitSet, Step, ThreadsRun, BhAt,
        aeonVars, irqVars, bhVars, ringVars, wqVars, thVars, histVars
<1>1. TypeOK /\ OneMail /\ Delivered /\ DismissedOnlyInDisable
  BY DEF IInv
<1>2. \A u \in Threads : Locked(u) /\ Waits(u)
  BY DEF IInv
<1>3. OneWaits => \A u \in Threads : Registered(u)
  BY DEF IInv
<1>4. TypeOK'
  <2>1. pc' \in [Threads -> PcSteps]
    BY <1>1 DEF TypeOK, PcSteps
  <2>2. aNum' \in {0, 1}
    OBVIOUS
  <2> QED
    BY <1>1, <2>1, <2>2 DEF TypeOK
<1>5. OneMail'
  BY <1>1 DEF TypeOK, OneMail, Receiving, Flagged
<1>6. \A u \in Threads : Locked(u)'
  BY <1>1, <1>2 DEF TypeOK, Locked, Flagged
<1>7. \A u \in Threads : Waits(u)'
  BY <1>1, <1>2 DEF TypeOK, Waits
<1>8. DismissedOnlyInDisable'
  BY <1>1, <1>2 DEF TypeOK, DismissedOnlyInDisable, Locked, Flagged
<1>9. OneWaits => \A u \in Threads : Registered(u)'
  BY <1>1, <1>2, <1>3 DEF TypeOK, Registered, OneWaits, Waits, Locked
<1>10. Delivered'
  BY <1>1 DEF TypeOK, OneMail, Receiving, Delivered, NextAdr
<1> QED
  BY <1>4, <1>5, <1>6, <1>7, <1>8, <1>9, <1>10 DEF IInv, OneWaits

LEMMA WaitCheckKeeps ==
  ASSUME IInv, NEW t \in Threads, WaitCheck(t)
  PROVE  IInv'
<1> USE RxAssumption
    DEF WaitCheck, Step, callback_wq, ThreadsRun, BhAt,
        aeonVars, irqVars, bhVars, ringVars, wqVars, thVars, histVars
<1>1. TypeOK /\ OneMail /\ Delivered /\ DismissedOnlyInDisable
  BY DEF IInv
<1>2. \A u \in Threads : Locked(u) /\ Waits(u)
  BY DEF IInv
<1>3. OneWaits => \A u \in Threads : Registered(u)
  BY DEF IInv
<1>4. TypeOK'
  <2>1. pc' \in [Threads -> PcSteps]
    BY <1>1 DEF TypeOK, PcSteps
  <2> QED
    BY <1>1, <2>1 DEF TypeOK
<1>5. OneMail'
  BY <1>1 DEF TypeOK, OneMail, Receiving, Flagged
<1>6. \A u \in Threads : Locked(u)'
  BY <1>1, <1>2 DEF TypeOK, Locked, Flagged
<1>7. \A u \in Threads : Waits(u)'
  BY <1>1, <1>2 DEF TypeOK, Waits
<1>8. DismissedOnlyInDisable'
  BY <1>1, <1>2 DEF TypeOK, DismissedOnlyInDisable, Locked, Flagged
<1>9. OneWaits => \A u \in Threads : Registered(u)'
  BY <1>1, <1>2, <1>3 DEF TypeOK, Registered, OneWaits, Waits, Locked
<1>10. Delivered'
  BY <1>1 DEF TypeOK, OneMail, Receiving, Delivered, NextAdr
<1> QED
  BY <1>4, <1>5, <1>6, <1>7, <1>8, <1>9, <1>10 DEF IInv, OneWaits

LEMMA WaitScheduleKeeps ==
  ASSUME IInv, NEW t \in Threads, WaitSchedule(t)
  PROVE  IInv'
<1> USE RxAssumption
    DEF WaitSchedule, ThreadsRun, BhAt,
        aeonVars, irqVars, bhVars, ringVars, wqVars, thVars, histVars
<1>1. TypeOK /\ OneMail /\ Delivered /\ DismissedOnlyInDisable
  BY DEF IInv
<1>2. \A u \in Threads : Locked(u) /\ Waits(u)
  BY DEF IInv
<1>3. OneWaits => \A u \in Threads : Registered(u)
  BY DEF IInv
<1>4. TypeOK'
  <2>1. pc' \in [Threads -> PcSteps]
    BY <1>1 DEF TypeOK, PcSteps
  <2>2. bkl' \in Threads \union {NoThread}
    OBVIOUS
  <2> QED
    BY <1>1, <2>1, <2>2 DEF TypeOK
<1>5. OneMail'
  BY <1>1 DEF TypeOK, OneMail, Receiving, Flagged
<1>6. \A u \in Threads : Locked(u)'
  BY <1>1, <1>2 DEF TypeOK, Locked, Flagged
<1>7. \A u \in Threads : Waits(u)'
  BY <1>1, <1>2 DEF TypeOK, Waits
<1>8. DismissedOnlyInDisable'
  BY <1>1, <1>2 DEF TypeOK, DismissedOnlyInDisable, Locked, Flagged
<1>9. OneWaits => \A u \in Threads : Registered(u)'
  BY <1>1, <1>2, <1>3 DEF TypeOK, Registered, OneWaits, Waits, Locked
<1>10. Delivered'
  BY <1>1 DEF TypeOK, OneMail, Receiving, Delivered, NextAdr
<1> QED
  BY <1>4, <1>5, <1>6, <1>7, <1>8, <1>9, <1>10 DEF IInv, OneWaits

LEMMA WaitTimeoutKeeps ==
  ASSUME IInv, NEW t \in Threads, WaitTimeout(t)
  PROVE  IInv'
<1> USE RxAssumption
    DEF WaitTimeout, ThreadsRun, BhAt,
        aeonVars, irqVars, bhVars, ringVars, wqVars, thVars, histVars
<1>1. TypeOK /\ OneMail /\ Delivered /\ DismissedOnlyInDisable
  BY DEF IInv
<1>2. \A u \in Threads : Locked(u) /\ Waits(u)
  BY DEF IInv
<1>3. OneWaits => \A u \in Threads : Registered(u)
  BY DEF IInv
<1>4. TypeOK'
  <2>1. state' \in [Threads -> {"RUNNING", "INTERRUPTIBLE"}]
    BY <1>1 DEF TypeOK
  <2> QED
    BY <1>1, <2>1 DEF TypeOK
<1>5. OneMail'
  BY <1>1 DEF TypeOK, OneMail, Receiving, Flagged
<1>6. \A u \in Threads : Locked(u)'
  BY <1>1, <1>2 DEF TypeOK, Locked, Flagged
<1>7. \A u \in Threads : Waits(u)'
  BY <1>1, <1>2 DEF TypeOK, Waits
<1>8. DismissedOnlyInDisable'
  BY <1>1, <1>2 DEF TypeOK, DismissedOnlyInDisable, Locked, Flagged
<1>9. OneWaits => \A u \in Threads : Registered(u)'
  BY <1>1, <1>2, <1>3 DEF TypeOK, Registered, OneWaits, Waits, Locked
<1>10. Delivered'
  BY <1>1 DEF TypeOK, OneMail, Receiving, Delivered, NextAdr
<1> QED
  BY <1>4, <1>5, <1>6, <1>7, <1>8, <1>9, <1>10 DEF IInv, OneWaits

LEMMA WaitResumeKeeps ==
  ASSUME IInv, NEW t \in Threads, WaitResume(t)
  PROVE  IInv'
<1> USE RxAssumption
    DEF WaitResume, ThreadsRun, BhAt,
        aeonVars, irqVars, bhVars, ringVars, wqVars, thVars, histVars
<1>1. TypeOK /\ OneMail /\ Delivered /\ DismissedOnlyInDisable
  BY DEF IInv
<1>2. \A u \in Threads : Locked(u) /\ Waits(u)
  BY DEF IInv
<1>3. OneWaits => \A u \in Threads : Registered(u)
  BY DEF IInv
<1>4. TypeOK'
  <2>1. pc' \in [Threads -> PcSteps]
    BY <1>1 DEF TypeOK, PcSteps
  <2>2. bkl' \in Threads \union {NoThread}
    OBVIOUS
  <2> QED
    BY <1>1, <2>1, <2>2 DEF TypeOK
<1>5. OneMail'
  BY <1>1 DEF TypeOK, OneMail, Receiving, Flagged
<1>6. \A u \in Threads : Locked(u)'
  BY <1>1, <1>2 DEF TypeOK, Locked, Flagged
<1>7. \A u \in Threads : Waits(u)'
  BY <1>1, <1>2 DEF TypeOK, Waits
<1>8. DismissedOnlyInDisable'
  BY <1>1, <1>2 DEF TypeOK, DismissedOnlyInDisable, Locked, Flagged
<1>9. OneWaits => \A u \in Threads : Registered(u)'
  BY <1>1, <1>2, <1>3 DEF TypeOK, Registered, OneWaits, Waits, Locked
<1>10. Delivered'
  BY <1>1 DEF TypeOK, OneMail, Receiving, Delivered, NextAdr
<1> QED
  BY <1>4, <1>5, <1>6, <1>7, <1>8, <1>9, <1>10 DEF IInv, OneWaits

LEMMA WaitFinishKeeps ==
  ASSUME IInv, NEW t \in Threads, WaitFinish(t)
  PROVE  IInv'
<1> USE RxAssumption
    DEF WaitFinish, Step, ThreadsRun, BhAt,
        aeonVars, irqVars, bhVars, ringVars, wqVars, thVars, histVars
<1>1. TypeOK /\ OneMail /\ Delivered /\ DismissedOnlyInDisable
  BY DEF IInv
<1>2. \A u \in Threads : Locked(u) /\ Waits(u)
  BY DEF IInv
<1>3. OneWaits => \A u \in Threads : Registered(u)
  BY DEF IInv
<1>4. TypeOK'
  <2>1. pc' \in [Threads -> PcSteps]
    BY <1>1 DEF TypeOK, PcSteps
  <2>2. state' \in [Threads -> {"RUNNING", "INTERRUPTIBLE"}]
    BY <1>1 DEF TypeOK
  <2>3. tWQ' \subseteq Threads
    BY <1>1 DEF TypeOK
  <2> QED
    BY <1>1, <2>1, <2>2, <2>3 DEF TypeOK
<1>5. OneMail'
  BY <1>1 DEF TypeOK, OneMail, Receiving, Flagged
<1>6. \A u \in Threads : Locked(u)'
  BY <1>1, <1>2 DEF TypeOK, Locked, Flagged
<1>7. \A u \in Threads : Waits(u)'
  BY <1>1, <1>2 DEF TypeOK, Waits
<1>8. DismissedOnlyInDisable'
  BY <1>1, <1>2 DEF TypeOK, DismissedOnlyInDisable, Locked, Flagged
<1>9. OneWaits => \A u \in Threads : Registered(u)'
  BY <1>1, <1>2, <1>3 DEF TypeOK, Registered, OneWaits, Waits, Locked
<1>10. Delivered'
  BY <1>1 DEF TypeOK, OneMail, Receiving, Delivered, NextAdr
<1> QED
  BY <1>4, <1>5, <1>6, <1>7, <1>8, <1>9, <1>10 DEF IInv, OneWaits

LEMMA WaitClrKeeps ==
  ASSUME IInv, NEW t \in Threads, WaitClr(t)
  PROVE  IInv'
<1> USE RxAssumption
    DEF WaitClr, Return, ThreadsRun, BhAt,
        aeonVars, irqVars, bhVars, ringVars, wqVars, thVars, histVars
<1>1. TypeOK /\ OneMail /\ Delivered /\ DismissedOnlyInDisable
  BY DEF IInv
<1>2. \A u \in Threads : Locked(u) /\ Waits(u)
  BY DEF IInv
<1>3. OneWaits => \A u \in Threads : Registered(u)
  BY DEF IInv
<1>4. TypeOK'
  BY <1>1, NextAdrType DEF TypeOK, BhSteps, PcSteps
<1>5. OneMail'
  BY <1>1 DEF TypeOK, OneMail, Receiving, Flagged
<1>6. \A u \in Threads : Locked(u)'
  BY <1>1, <1>2 DEF TypeOK, Locked, Flagged
<1>7. \A u \in Threads : Waits(u)'
  BY <1>1, <1>2 DEF TypeOK, Waits
<1>8. DismissedOnlyInDisable'
  BY <1>1, <1>2 DEF TypeOK, DismissedOnlyInDisable, Locked, Flagged
<1>9. OneWaits => \A u \in Threads : Registered(u)'
  BY <1>1, <1>2, <1>3 DEF TypeOK, Registered, OneWaits, Waits, Locked
<1>10. Delivered'
  BY <1>1 DEF TypeOK, OneMail, Receiving, Delivered, NextAdr
<1> QED
  BY <1>4, <1>5, <1>6, <1>7, <1>8, <1>9, <1>10 DEF IInv, OneWaits

LEMMA EnableFlagKeeps ==
  ASSUME IInv, NEW t \in Threads, EnableFlag(t)
  PROVE  IInv'
<1> USE RxAssumption
    DEF EnableFlag, Enter, ThreadsRun, BhAt,
        aeonVars, irqVars, bhVars, ringVars, wqVars, thVars, histVars
<1>1. TypeOK /\ OneMail /\ Delivered /\ DismissedOnlyInDisable
  BY DEF IInv
<1>2. \A u \in Threads : Locked(u) /\ Waits(u)
  BY DEF IInv
<1>3. OneWaits => \A u \in Threads : Registered(u)
  BY DEF IInv
<1>4. TypeOK'
  BY <1>1, NextAdrType DEF TypeOK, BhSteps, PcSteps
<1>5. OneMail'
  BY <1>1 DEF TypeOK, OneMail, Receiving, Flagged
<1>6. \A u \in Threads : Locked(u)'
  BY <1>1, <1>2 DEF TypeOK, Locked, Flagged
<1>7. \A u \in Threads : Waits(u)'
  BY <1>1, <1>2 DEF TypeOK, Waits
<1>8. DismissedOnlyInDisable'
  BY <1>1, <1>2 DEF TypeOK, DismissedOnlyInDisable, Locked, Flagged
<1>9. OneWaits => \A u \in Threads : Registered(u)'
  BY <1>1, <1>2, <1>3 DEF TypeOK, Registered, OneWaits, Waits, Locked
<1>10. Delivered'
  BY <1>1 DEF TypeOK, OneMail, Receiving, Delivered, NextAdr
<1> QED
  BY <1>4, <1>5, <1>6, <1>7, <1>8, <1>9, <1>10 DEF IInv, OneWaits

LEMMA EnableMaskKeeps ==
  ASSUME IInv, NEW t \in Threads, EnableMask(t)
  PROVE  IInv'
<1> USE RxAssumption
    DEF EnableMask, Return, ThreadsRun, BhAt,
        aeonVars, irqVars, bhVars, ringVars, wqVars, thVars, histVars
<1>1. TypeOK /\ OneMail /\ Delivered /\ DismissedOnlyInDisable
  BY DEF IInv
<1>2. \A u \in Threads : Locked(u) /\ Waits(u)
  BY DEF IInv
<1>3. OneWaits => \A u \in Threads : Registered(u)
  BY DEF IInv
<1>4. TypeOK'
  BY <1>1, NextAdrType DEF TypeOK, BhSteps, PcSteps
<1>5. OneMail'
  BY <1>1 DEF TypeOK, OneMail, Receiving, Flagged
<1>6. \A u \in Threads : Locked(u)'
  BY <1>1, <1>2 DEF TypeOK, Locked, Flagged
<1>7. \A u \in Threads : Waits(u)'
  BY <1>1, <1>2 DEF TypeOK, Waits
<1>8. DismissedOnlyInDisable'
  BY <1>1, <1>2 DEF TypeOK, DismissedOnlyInDisable, Locked, Flagged
<1>9. OneWaits => \A u \in Threads : Registered(u)'
  BY <1>1, <1>2, <1>3 DEF TypeOK, Registered, OneWaits, Waits, Locked
<1>10. Delivered'
  BY <1>1 DEF TypeOK, OneMail, Receiving, Delivered, NextAdr
<1> QED
  BY <1>4, <1>5, <1>6, <1>7, <1>8, <1>9, <1>10 DEF IInv, OneWaits

LEMMA DisableFlagKeeps ==
  ASSUME IInv, NEW t \in Threads, DisableFlag(t)
  PROVE  IInv'
<1> USE RxAssumption
    DEF DisableFlag, Enter, ThreadsRun, BhAt,
        aeonVars, irqVars, bhVars, ringVars, wqVars, thVars, histVars
<1>1. TypeOK /\ OneMail /\ Delivered /\ DismissedOnlyInDisable
  BY DEF IInv
<1>2. \A u \in Threads : Locked(u) /\ Waits(u)
  BY DEF IInv
<1>3. OneWaits => \A u \in Threads : Registered(u)
  BY DEF IInv
<1>4. TypeOK'
  BY <1>1, NextAdrType DEF TypeOK, BhSteps, PcSteps
<1>5. OneMail'
  BY <1>1 DEF TypeOK, OneMail, Receiving, Flagged
<1>6. \A u \in Threads : Locked(u)'
  BY <1>1, <1>2 DEF TypeOK, Locked, Flagged
<1>7. \A u \in Threads : Waits(u)'
  BY <1>1, <1>2 DEF TypeOK, Waits
<1>8. DismissedOnlyInDisable'
  BY <1>1, <1>2 DEF TypeOK, DismissedOnlyInDisable, Locked, Flagged
<1>9. OneWaits => \A u \in Threads : Registered(u)'
  BY <1>1, <1>2, <1>3 DEF TypeOK, Registered, OneWaits, Waits, Locked
<1>10. Delivered'
  BY <1>1 DEF TypeOK, OneMail, Receiving, Delivered, NextAdr
<1> QED
  BY <1>4, <1>5, <1>6, <1>7, <1>8, <1>9, <1>10 DEF IInv, OneWaits

LEMMA DisableMaskKeeps ==
  ASSUME IInv, NEW t \in Threads, DisableMask(t)
  PROVE  IInv'
<1> USE RxAssumption
    DEF DisableMask, Return, ThreadsRun, BhAt,
        aeonVars, irqVars, bhVars, ringVars, wqVars, thVars, histVars
<1>1. TypeOK /\ OneMail /\ Delivered /\ DismissedOnlyInDisable
  BY DEF IInv
<1>2. \A u \in Threads : Locked(u) /\ Waits(u)
  BY DEF IInv
<1>3. OneWaits => \A u \in Threads : Registered(u)
  BY DEF IInv
<1>4. TypeOK'
  BY <1>1, NextAdrType DEF TypeOK, BhSteps, PcSteps
<1>5. OneMail'
  BY <1>1 DEF TypeOK, OneMail, Receiving, Flagged
<1>6. \A u \in Threads : Locked(u)'
  BY <1>1, <1>2 DEF TypeOK, Locked, Flagged
<1>7. \A u \in Threads : Waits(u)'
  BY <1>1, <1>2 DEF TypeOK, Waits
<1>8. DismissedOnlyInDisable'
  BY <1>1, <1>2 DEF TypeOK, DismissedOnlyInDisable, Locked, Flagged
<1>9. OneWaits => \A u \in Threads : Registered(u)'
  BY <1>1, <1>2, <1>3 DEF TypeOK, Registered, OneWaits, Waits, Locked
<1>10. Delivered'
  BY <1>1 DEF TypeOK, OneMail, Receiving, Delivered, NextAdr
<1> QED
  BY <1>4, <1>5, <1>6, <1>7, <1>8, <1>9, <1>10 DEF IInv, OneWaits

LEMMA ReadMailKeeps ==
  ASSUME IInv, NEW t \in Threads, ReadMail(t)
  PROVE  IInv'
<1> USE RxAssumption
    DEF ReadMail, ThreadsRun, BhAt,
        aeonVars, irqVars, bhVars, ringVars, wqVars, thVars, histVars
<1>1. TypeOK /\ OneMail /\ Delivered /\ DismissedOnlyInDisable
  BY DEF IInv
<1>2. \A u \in Threads : Locked(u) /\ Waits(u)
  BY DEF IInv
<1>3. OneWaits => \A u \in Threads : Registered(u)
  BY DEF IInv
<1>4. TypeOK'
  <2>1. lastRead' \in 0 .. MaxMails
    BY <1>1 DEF TypeOK
  <2>2. u32GetAdr' \in 0 .. MaxMUnit - 1
    BY <1>1, NextAdrType DEF TypeOK
  <2> QED
    BY <1>1, <2>1, <2>2 DEF TypeOK
<1>5. OneMail'
  BY <1>1 DEF TypeOK, OneMail, Receiving, Flagged
<1>6. \A u \in Threads : Locked(u)'
  BY <1>1, <1>2 DEF TypeOK, Locked, Flagged
<1>7. \A u \in Threads : Waits(u)'
  BY <1>1, <1>2 DEF TypeOK, Waits
<1>8. DismissedOnlyInDisable'
  BY <1>1, <1>2 DEF TypeOK, DismissedOnlyInDisable, Locked, Flagged
<1>9. OneWaits => \A u \in Threads : Registered(u)'
  BY <1>1, <1>2, <1>3 DEF TypeOK, Registered, OneWaits, Waits, Locked
<1>10. Delivered'
  BY <1>1 DEF TypeOK, OneMail, Receiving, Delivered, NextAdr
<1> QED
  BY <1>4, <1>5, <1>6, <1>7, <1>8, <1>9, <1>10 DEF IInv, OneWaits

LEMMA UnchangedKeeps ==
  ASSUME IInv, UNCHANGED vars
  PROVE  IInv'
<1> USE DEF vars, aeonVars, irqVars, bhVars, ringVars, wqVars, thVars, histVars
<1>1. TypeOK' /\ OneMail' /\ Delivered' /\ DismissedOnlyInDisable'
  BY DEF IInv, Delivered, TypeOK, OneMail, Receiving, DismissedOnlyInDisable, Flagged
<1>2. \A t \in Threads : Locked(t)' /\ Waits(t)'
  BY DEF IInv, Locked, Flagged, Waits
<1>3. OneWaits => \A t \in Threads : Registered(t)'
  BY DEF IInv, Registered
<1> QED
  BY <1>1, <1>2, <1>3 DEF IInv, OneWaits

LEMMA NextIInv ==
  ASSUME IInv, [Next]_vars
  PROVE  IInv'
<1>1. CASE UNCHANGED vars
  BY <1>1, UnchangedKeeps
<1>2. CASE AeonFire \/ AeonRaise
  BY <1>2, AeonFireKeeps, AeonRaiseKeeps
<1>3. CASE MDrv_MSMailBox_Interrupt
  BY <1>3, InterruptTestKeeps, InterruptClearKeeps DEF MDrv_MSMailBox_Interrupt
<1>4. CASE Tasklet
  BY <1>4, opMBPutAddrKeeps, ReceiveBusySetKeeps, ReceiveCopyKeeps,
     ReceiveBusyClearKeeps, ReceiveFireClearKeeps, opWQWakeupKeeps
  DEF Tasklet
<1>5. ASSUME NEW t \in Threads, Wait(t) PROVE IInv'
  BY <1>5, WaitEnterKeeps, WaitPrepareKeeps, WaitSetKeeps, WaitCheckKeeps,
     WaitScheduleKeeps, WaitTimeoutKeeps, WaitResumeKeeps, WaitFinishKeeps, WaitClrKeeps
  DEF Wait
<1>6. ASSUME NEW t \in Threads,
             \/ EnableFlag(t) \/ EnableMask(t) \/ DisableFlag(t) \/ DisableMask(t)
             \/ ReadMail(t)
      PROVE  IInv'
  BY <1>6, EnableFlagKeeps, EnableMaskKeeps, DisableFlagKeeps, DisableMaskKeeps,
     ReadMailKeeps
<1> QED
  BY <1>1, <1>2, <1>3, <1>4, <1>5, <1>6 DEF Next

-----------------------------------------------------------------------------
(* The ring, as arithmetic on the two indices.                              *)

Slots == 0 .. MaxMUnit - 1

\* The mails between g and p, and the slot k places on from g, without modulo.
Dist(p, g) == IF p >= g THEN p - g ELSE p + MaxMUnit - g
At(g, k) == IF g + k < MaxMUnit THEN g + k ELSE g + k - MaxMUnit

\* The modulo of a sum of two indices takes away one ring at most.
LEMMA ModOnce ==
  ASSUME NEW i \in 0 .. 2 * MaxMUnit - 1
  PROVE  i % MaxMUnit = IF i < MaxMUnit THEN i ELSE i - MaxMUnit
<1>1. CASE i < MaxMUnit
  BY <1>1, RxAssumption
<1>2. CASE i >= MaxMUnit
  BY <1>2, RxAssumption
<1> QED
  BY <1>1, <1>2, RxAssumption

\* How many mails are unread, and where each is.
LEMMA UnreadIsDist ==
  ASSUME u32PutAdr \in Slots, u32GetAdr \in Slots
  PROVE  Unread = Dist(u32PutAdr, u32GetAdr)
<1>1. u32PutAdr + MaxMUnit - u32GetAdr \in 0 .. 2 * MaxMUnit - 1
  BY RxAssumption DEF Slots
<1> QED
  BY <1>1, ModOnce, RxAssumption DEF Slots, Unread, Dist

LEMMA PlaceIsAt ==
  ASSUME NEW g \in Slots, NEW k \in Slots
  PROVE  (g + k) % MaxMUnit = At(g, k)
<1>1. g + k \in 0 .. 2 * MaxMUnit - 1
  BY RxAssumption DEF Slots
<1> QED
  BY <1>1, ModOnce, RxAssumption DEF Slots, At

\* The unread mails are within the ring, each in a slot of its own, and none of
\* them in the one that u32PutAdr names.
LEMMA DistAt ==
  ASSUME NEW p \in Slots, NEW g \in Slots
  PROVE  /\ Dist(p, g) \in Slots
         /\ At(g, Dist(p, g)) = p
         /\ \A k \in Slots : At(g, k) \in Slots
         /\ \A k \in Slots : k < Dist(p, g) => At(g, k) # p
  BY RxAssumption DEF Slots, Dist, At

\* Putting: the distance grows by one unless the write index meets g.
LEMMA DistPut ==
  ASSUME NEW p \in Slots, NEW g \in Slots, NextAdr(p) # g
  PROVE  Dist(NextAdr(p), g) = Dist(p, g) + 1
  BY RxAssumption DEF Slots, Dist, NextAdr

\* Getting: the distance shrinks by one and every mail is one place nearer.
LEMMA DistGet ==
  ASSUME NEW p \in Slots, NEW g \in Slots, p # g
  PROVE  /\ Dist(p, g) = Dist(p, NextAdr(g)) + 1
         /\ At(g, 0) = g
         /\ \A k \in Slots : k < Dist(p, NextAdr(g)) =>
              k + 1 \in Slots /\ At(NextAdr(g), k) = At(g, k + 1)
  BY RxAssumption DEF Slots, Dist, At, NextAdr

\* RingInOrder in these terms.
InOrder ==
  ~overrun =>
    /\ received + Filling = lastRead + Dist(u32PutAdr, u32GetAdr)
    /\ \A k \in Slots : k < received - lastRead =>
         slot[At(u32GetAdr, k)] = lastRead + 1 + k

LEMMA InOrderMeans ==
  ASSUME TypeOK PROVE InOrder <=> RingInOrder
<1>1. u32PutAdr \in Slots /\ u32GetAdr \in Slots
  BY DEF TypeOK, Slots
<1>2. \A k \in Slots : (u32GetAdr + k) % MaxMUnit = At(u32GetAdr, k)
  BY <1>1, PlaceIsAt
<1> QED
  BY <1>1, <1>2, UnreadIsDist DEF InOrder, RingInOrder, Slots

-----------------------------------------------------------------------------
(* Lemmas: each step keeps the ring in order.                               *)

LEMMA PutKeepsOrder ==
  ASSUME IInv, InOrder, opMBPutAddr
  PROVE  InOrder'
<1>1. TypeOK /\ NextAdr(u32PutAdr) \in Slots
  BY NextAdrType DEF IInv, TypeOK, Slots
<1>2. SUFFICES ASSUME ~overrun' PROVE InOrder'
  BY DEF InOrder
<1>3. ~overrun /\ NextAdr(u32PutAdr) # u32GetAdr
  BY <1>2 DEF opMBPutAddr
<1>4. Dist(u32PutAdr', u32GetAdr') = Dist(u32PutAdr, u32GetAdr) + 1
  BY <1>1, <1>3, DistPut DEF opMBPutAddr, TypeOK, Slots
<1>5. Dist(u32PutAdr, u32GetAdr) \in Slots
  BY <1>1, DistAt DEF TypeOK, Slots
<1>6. Filling = 0 /\ Filling' = 1
  BY DEF opMBPutAddr, BhAt, Filling
<1> QED
  BY <1>1, <1>3, <1>4, <1>5, <1>6 DEF opMBPutAddr, InOrder, TypeOK, Slots

LEMMA CopyKeepsOrder ==
  ASSUME IInv, InOrder, ReceiveCopy
  PROVE  InOrder'
<1>1. TypeOK /\ OneMail /\ Delivered
  BY DEF IInv
<1>2. SUFFICES ASSUME ~overrun PROVE InOrder'
  BY DEF InOrder, ReceiveCopy
<1> DEFINE g == u32GetAdr
           d == Dist(ptMail, g)
<1>3. /\ bh = "copy" /\ received = fired - 1 /\ word = fired
      /\ u32PutAdr = NextAdr(ptMail) /\ u32PutAdr # g
  BY <1>1, <1>2 DEF ReceiveCopy, BhAt, OneMail, Receiving, Delivered
<1>4. /\ ptMail \in Slots /\ g \in Slots /\ slot \in [Slots -> 0 .. MaxMails]
      /\ fired \in Nat /\ lastRead \in Nat
  BY <1>1, RxAssumption DEF TypeOK, Slots
<1>5. /\ d \in Slots /\ At(g, d) = ptMail
      /\ \A k \in Slots : k < d => At(g, k) \in Slots /\ At(g, k) # ptMail
  BY <1>4, DistAt
<1>6. Dist(u32PutAdr, g) = d + 1
  BY <1>3, <1>4, DistPut
<1>7. Filling = 1 /\ Filling' = 0
  BY <1>3 DEF ReceiveCopy, Filling
<1>8. received = lastRead + d
  BY <1>2, <1>3, <1>4, <1>5, <1>6, <1>7 DEF InOrder, Slots
<1>9. /\ received' = received + 1 /\ lastRead' = lastRead /\ u32GetAdr' = g
      /\ u32PutAdr' = u32PutAdr /\ slot' = [slot EXCEPT ![ptMail] = received + 1]
  BY <1>3, <1>4 DEF ReceiveCopy
<1>10. \A k \in Slots : k < d => slot'[At(g, k)] = lastRead + 1 + k
  BY <1>2, <1>4, <1>5, <1>8, <1>9 DEF InOrder, Slots
<1>11. slot'[At(g, d)] = lastRead + 1 + d
  BY <1>4, <1>5, <1>8, <1>9 DEF Slots
<1>12. \A k \in Slots : k < received' - lastRead' =>
         slot'[At(u32GetAdr', k)] = lastRead' + 1 + k
  <2>1. \A k \in Slots : k < received' - lastRead' => k < d \/ k = d
    BY <1>4, <1>5, <1>8, <1>9 DEF Slots
  <2> HIDE DEF g, d
  <2> QED
    BY <1>9, <1>10, <1>11, <2>1
<1>13. received' + Filling' = lastRead' + Dist(u32PutAdr', u32GetAdr')
  BY <1>4, <1>5, <1>6, <1>7, <1>8, <1>9 DEF Slots
<1> QED
  BY <1>12, <1>13 DEF InOrder

LEMMA ReadKeepsOrder ==
  ASSUME IInv, InOrder, NEW t \in Threads, ReadMail(t)
  PROVE  InOrder'
<1>1. TypeOK
  BY DEF IInv
<1>2. SUFFICES ASSUME ~overrun PROVE InOrder'
  BY DEF InOrder, ReadMail
<1> DEFINE g == u32GetAdr
           p == u32PutAdr
           d == Dist(p, NextAdr(g))
<1>3. /\ p # g /\ lastRead' = slot[g] /\ u32GetAdr' = NextAdr(g) /\ bh = "idle"
      /\ UNCHANGED <<u32PutAdr, slot, received, overrun, bh>>
  BY DEF ReadMail, ThreadsRun, BhAt, bhVars
<1>4. /\ p \in Slots /\ g \in Slots /\ NextAdr(g) \in Slots
      /\ received \in Nat /\ lastRead \in Nat
  BY <1>1, NextAdrType, RxAssumption DEF TypeOK, Slots
<1>5. /\ Dist(p, g) = d + 1 /\ At(g, 0) = g
      /\ \A k \in Slots : k < d => k + 1 \in Slots /\ At(NextAdr(g), k) = At(g, k + 1)
  BY <1>3, <1>4, DistGet
<1>6. d \in Slots /\ 0 \in Slots
  <2>1. 0 \in Slots
    BY RxAssumption DEF Slots
  <2> QED
    BY <1>4, <2>1, DistAt
<1>7. Filling = 0 /\ Filling' = 0
  BY <1>3 DEF Filling
<1>8. received = lastRead + d + 1
  BY <1>2, <1>4, <1>5, <1>6, <1>7 DEF InOrder, Slots
<1>9. lastRead' = lastRead + 1
  BY <1>2, <1>3, <1>4, <1>5, <1>6, <1>8 DEF InOrder, Slots
<1>10. \A k \in Slots : k < d => slot[At(NextAdr(g), k)] = lastRead + 2 + k
  BY <1>2, <1>4, <1>5, <1>6, <1>8 DEF InOrder, Slots
<1>11. \A k \in Slots : k < received' - lastRead' =>
         slot'[At(u32GetAdr', k)] = lastRead' + 1 + k
  BY <1>3, <1>4, <1>6, <1>8, <1>9, <1>10 DEF Slots
<1>12. received' + Filling' = lastRead' + Dist(u32PutAdr', u32GetAdr')
  BY <1>3, <1>4, <1>6, <1>7, <1>8, <1>9 DEF Slots
<1> QED
  BY <1>11, <1>12 DEF InOrder

LEMMA OrderStep ==
  ASSUME IInv, InOrder, [Next]_vars
  PROVE  InOrder'
<1>1. CASE UNCHANGED <<ringVars, received, lastRead, overrun, Filling>>
  BY <1>1 DEF InOrder, ringVars
<1>2. CASE opMBPutAddr
  BY <1>2, PutKeepsOrder
<1>3. CASE ReceiveCopy
  BY <1>3, CopyKeepsOrder
<1>4. ASSUME NEW t \in Threads, ReadMail(t) PROVE InOrder'
  BY <1>4, ReadKeepsOrder
<1>5. \/ UNCHANGED <<ringVars, received, lastRead, overrun, Filling>>
      \/ opMBPutAddr \/ ReceiveCopy \/ \E t \in Threads : ReadMail(t)
  <2> USE DEF bhVars, ringVars, histVars, Filling
  <2>1. CASE UNCHANGED vars
    BY <2>1 DEF vars
  <2>2. CASE AeonFire \/ AeonRaise \/ MDrv_MSMailBox_Interrupt
    BY <2>2
    DEF AeonFire, AeonRaise, MDrv_MSMailBox_Interrupt, InterruptTest, InterruptClear
  <2>3. CASE Tasklet
    BY <2>3
    DEF Tasklet, BhAt, ReceiveBusySet, ReceiveBusyClear, ReceiveFireClear, opWQWakeup
  <2>4. ASSUME NEW t \in Threads, Wait(t)
        PROVE  UNCHANGED <<ringVars, received, lastRead, overrun, Filling>>
    BY <2>4
    DEF Wait, WaitEnter, WaitPrepare, WaitSet, WaitCheck, WaitSchedule, WaitTimeout,
        WaitResume, WaitFinish, WaitClr
  <2>5. ASSUME NEW t \in Threads,
               EnableFlag(t) \/ EnableMask(t) \/ DisableFlag(t) \/ DisableMask(t)
        PROVE  UNCHANGED <<ringVars, received, lastRead, overrun, Filling>>
    BY <2>5 DEF EnableFlag, EnableMask, DisableFlag, DisableMask
  <2> QED
    BY <2>1, <2>2, <2>3, <2>4, <2>5 DEF Next
<1> QED
  BY <1>1, <1>2, <1>3, <1>4, <1>5

-----------------------------------------------------------------------------
(* From the AEON to user space the driver implements MailFifo.  Short of an *)
(* overrun the mails on their way are the ones after lastRead up to fired,  *)
(* so only AeonFire and ReadMail change the queue.                          *)

\* As sequences: one more mail is an Append, the oldest gone a Tail.
LEMMA RunAppend ==
  ASSUME NEW n \in Nat, NEW l \in Nat
  PROVE  /\ Len([k \in 1 .. n |-> l + k]) = n
         /\ [k \in 1 .. n + 1 |-> l + k] = Append([k \in 1 .. n |-> l + k], l + n + 1)
<1> DEFINE q == [k \in 1 .. n |-> l + k]
<1>1. q \in Seq(Nat) /\ Len(q) = n
  OBVIOUS
<1>2. Append(q, l + n + 1) = [k \in 1 .. n + 1 |-> IF k = n + 1 THEN l + n + 1 ELSE q[k]]
  BY <1>1
<1>3. \A k \in 1 .. n + 1 : l + k = IF k = n + 1 THEN l + n + 1 ELSE q[k]
  OBVIOUS
<1> QED
  BY <1>1, <1>2, <1>3

LEMMA RunTail ==
  ASSUME NEW n \in Nat, NEW l \in Nat
  PROVE  LET q == [k \in 1 .. n + 1 |-> l + k] IN
         /\ q # <<>> /\ Head(q) = l + 1
         /\ Tail(q) = [k \in 1 .. n |-> (l + 1) + k]
<1> DEFINE q == [k \in 1 .. n + 1 |-> l + k]
<1>1. q \in Seq(Nat) /\ Len(q) = n + 1
  OBVIOUS
<1>2. q # <<>> /\ Head(q) = l + 1
  BY <1>1
<1>3. Tail(q) = [k \in 1 .. n |-> q[k + 1]]
  BY <1>1
<1>4. \A k \in 1 .. n : q[k + 1] = (l + 1) + k
  OBVIOUS
<1> QED
  BY <1>2, <1>3, <1>4

\* How many mails are on their way, and that they are in order.
Underway == fired - lastRead

Shape ==
  ~overrun =>
    /\ lastRead \in Nat /\ Underway \in 0 .. MaxMUnit /\ fired = lastRead + Underway
    /\ ~fire => Underway < MaxMUnit
    /\ Queue = [k \in 1 .. Underway |-> lastRead + k]

LEMMA ShapeHolds ==
  ASSUME IInv, InOrder
  PROVE  Shape
<1> DEFINE n == Unread - Filling
<1> SUFFICES ASSUME ~overrun PROVE Shape
  BY DEF Shape
<1>1. /\ u32PutAdr \in Slots /\ u32GetAdr \in Slots /\ ptMail \in Slots
      /\ lastRead \in Nat /\ received \in Nat /\ fired \in Nat /\ MaxMUnit \in Nat \ {0}
  BY RxAssumption DEF IInv, TypeOK, Slots
<1>2. Unread = Dist(u32PutAdr, u32GetAdr) /\ Unread \in Slots
  BY <1>1, UnreadIsDist, DistAt
<1>3. Filling \in {0, 1} /\ (Filling = 1 => Unread # 0)
  <2>1. Filling = 1 => u32PutAdr # u32GetAdr
    BY DEF IInv, Delivered, Filling
  <2>2. u32PutAdr # u32GetAdr => Dist(u32PutAdr, u32GetAdr) # 0
    BY <1>1, RxAssumption DEF Dist, Slots
  <2> QED
    BY <1>2, <2>1, <2>2 DEF Filling
<1>4. n \in Slots
  BY <1>1, <1>2, <1>3 DEF Slots
<1>5. received = lastRead + n
  BY <1>1, <1>2, <1>3 DEF InOrder, Slots
<1>6. ASSUME NEW k \in 1 .. n
      PROVE  slot[(u32GetAdr + k - 1) % MaxMUnit] = lastRead + k
  <2>1. k - 1 \in Slots /\ k - 1 < received - lastRead
    BY <1>1, <1>4, <1>5, <1>6 DEF Slots
  <2>2. u32GetAdr + k - 1 = u32GetAdr + (k - 1)
    BY <1>1, <1>4, <1>6 DEF Slots
  <2>3. (u32GetAdr + k - 1) % MaxMUnit = At(u32GetAdr, k - 1)
    BY <1>1, <2>1, <2>2, PlaceIsAt
  <2>4. slot[At(u32GetAdr, k - 1)] = lastRead + 1 + (k - 1)
    BY <2>1 DEF InOrder
  <2>5. lastRead + 1 + (k - 1) = lastRead + k
    BY <1>1, <1>4, <1>6 DEF Slots
  <2> QED
    BY <2>3, <2>4, <2>5
<1>7. InRing = [k \in 1 .. n |-> lastRead + k]
  BY <1>6 DEF InRing
<1>8. fired = received + (IF InRegisters THEN 1 ELSE 0) /\ word = fired
  BY <1>1 DEF IInv, Delivered, InRegisters
<1> HIDE DEF n
<1>9. CASE InRegisters
  <2>1. Underway = n + 1 /\ fired = lastRead + n + 1
    BY <1>1, <1>4, <1>5, <1>8, <1>9 DEF Slots, Underway
  <2>2. n \in Nat /\ lastRead \in Nat
    BY <1>1, <1>4 DEF Slots
  <2>3. Queue = Append([k \in 1 .. n |-> lastRead + k], lastRead + n + 1)
    BY <1>7, <1>8, <1>9, <2>1 DEF Queue
  <2>4. Queue = [k \in 1 .. n + 1 |-> lastRead + k]
    BY <2>2, <2>3, RunAppend
  <2>5. fire
    BY <1>9 DEF InRegisters
  <2> QED
    BY <1>1, <1>4, <2>1, <2>4, <2>5 DEF Slots, Shape
<1>10. CASE ~InRegisters
  <2>1. Underway = n /\ fired = lastRead + n
    BY <1>1, <1>4, <1>5, <1>8, <1>10 DEF Slots, Underway
  <2> QED
    BY <1>1, <1>4, <1>7, <1>10, <2>1 DEF Slots, Queue, Shape
<1> QED
  BY <1>9, <1>10

\* Who changes the number of the last mail fired and of the last one read.
LEMMA FiredOrRead ==
  ASSUME IInv, [Next]_vars
  PROVE  /\ AeonFire \/ (\E t \in Threads : ReadMail(t)) \/ UNCHANGED <<fired, lastRead>>
         /\ overrun => overrun'
<1> USE DEF aeonVars, histVars
<1>1. CASE UNCHANGED vars
  BY <1>1 DEF vars
<1>2. CASE AeonFire \/ AeonRaise \/ MDrv_MSMailBox_Interrupt
  BY <1>2
  DEF AeonFire, AeonRaise, MDrv_MSMailBox_Interrupt, InterruptTest, InterruptClear
<1>3. CASE opMBPutAddr \/ ReceiveBusySet \/ ReceiveCopy
  <2>1. overrun \in BOOLEAN
    BY DEF IInv, TypeOK
  <2> QED
    BY <1>3, <2>1 DEF opMBPutAddr, ReceiveBusySet, ReceiveCopy
<1>3a. CASE ReceiveBusyClear \/ ReceiveFireClear \/ opWQWakeup
  BY <1>3a DEF ReceiveBusyClear, ReceiveFireClear, opWQWakeup
<1>4. ASSUME NEW t \in Threads, Wait(t)
      PROVE  UNCHANGED <<fired, lastRead, overrun>>
  BY <1>4
  DEF Wait, WaitEnter, WaitPrepare, WaitSet, WaitCheck, WaitSchedule, WaitTimeout,
      WaitResume, WaitFinish, WaitClr
<1>5. ASSUME NEW t \in Threads,
             EnableFlag(t) \/ EnableMask(t) \/ DisableFlag(t) \/ DisableMask(t)
      PROVE  UNCHANGED <<fired, lastRead, overrun>>
  BY <1>5 DEF EnableFlag, EnableMask, DisableFlag, DisableMask
<1>6. ASSUME NEW t \in Threads, ReadMail(t)
      PROVE  UNCHANGED overrun
  BY <1>6 DEF ReadMail
<1> QED
  BY <1>1, <1>2, <1>3, <1>3a, <1>4, <1>5, <1>6 DEF Next, Tasklet

\* The mail that user space reads is the one after the last.
LEMMA ReadIsNext ==
  ASSUME IInv, InOrder, ~overrun, NEW t \in Threads, ReadMail(t)
  PROVE  lastRead' = lastRead + 1
<1>1. /\ u32PutAdr \in Slots /\ u32GetAdr \in Slots /\ u32PutAdr # u32GetAdr
      /\ lastRead \in Nat /\ received \in Nat /\ 0 \in Slots
      /\ bh = "idle" /\ lastRead' = slot[u32GetAdr]
  BY RxAssumption DEF IInv, TypeOK, Slots, ReadMail, ThreadsRun, BhAt
<1>2. Dist(u32PutAdr, u32GetAdr) \in Slots /\ Dist(u32PutAdr, u32GetAdr) # 0
  <2>1. Dist(u32PutAdr, u32GetAdr) # 0
    BY <1>1, RxAssumption DEF Dist, Slots
  <2> QED
    BY <1>1, <2>1, DistAt
<1>3. received = lastRead + Dist(u32PutAdr, u32GetAdr)
  BY <1>1, <1>2 DEF InOrder, Filling, Slots
<1>4. At(u32GetAdr, 0) = u32GetAdr /\ 0 < received - lastRead
  BY <1>1, <1>2, <1>3, RxAssumption DEF At, Slots
<1> QED
  BY <1>1, <1>4 DEF InOrder

\* Every step is one of MailFifo's, or leaves its queue alone.
LEMMA FifoStep ==
  ASSUME IInv, InOrder, Shape, Shape', [Next]_vars, ~overrun'
  PROVE  MF!FifoNext \/ UNCHANGED <<Queue, lastRead>>
<1>0. ~overrun
  BY FiredOrRead DEF IInv, TypeOK
<1>1. /\ lastRead \in Nat /\ Underway \in 0 .. MaxMUnit /\ fired = lastRead + Underway
      /\ ~fire => Underway < MaxMUnit
      /\ Queue = [k \in 1 .. Underway |-> lastRead + k]
  BY <1>0 DEF Shape
<1>2. /\ lastRead' \in Nat /\ Underway' \in 0 .. MaxMUnit
      /\ fired' = lastRead' + Underway'
      /\ Queue' = [k \in 1 .. Underway' |-> lastRead' + k]
  BY DEF Shape
<1>3. Underway \in Nat /\ Underway' \in Nat
  BY <1>1, <1>2, RxAssumption
<1>4. CASE UNCHANGED <<fired, lastRead>>
  BY <1>1, <1>2, <1>4 DEF Underway
<1>5. CASE AeonFire
  <2>1. ~fire /\ fired < MaxMails /\ fired' = fired + 1 /\ lastRead' = lastRead
    BY <1>5 DEF AeonFire, histVars
  <2>2. Underway' = Underway + 1 /\ fired + 1 = lastRead + Underway + 1
    BY <1>1, <1>3, <2>1 DEF Underway
  <2>3. Len(Queue) = Underway /\ Queue' = Append(Queue, lastRead + Underway + 1)
    BY <1>1, <1>2, <1>3, <2>1, <2>2, RunAppend
  <2>4. Len(Queue) < MaxMUnit
    BY <1>1, <2>1, <2>3
  <2>5. fired + 1 \in 1 .. MaxMails
    BY <2>1, RxAssumption DEF IInv, TypeOK
  <2>6. MF!Put(fired + 1)
    BY <2>1, <2>2, <2>3, <2>4 DEF MF!Put
  <2> QED
    BY <2>5, <2>6 DEF MF!FifoNext
<1>6. ASSUME NEW t \in Threads, ReadMail(t) PROVE MF!FifoNext
  <2>1. fired' = fired /\ lastRead' = slot[u32GetAdr] /\ u32GetAdr # u32PutAdr /\ Filling = 0
    BY <1>6 DEF ReadMail, aeonVars, ThreadsRun, BhAt, Filling
  <2>2. lastRead' = lastRead + 1
    BY <1>0, <1>6, ReadIsNext
  <2>3. Underway = Underway' + 1
    BY <1>1, <1>3, <2>1, <2>2 DEF Underway
  <2>4. Queue # <<>> /\ Head(Queue) = lastRead' /\ Tail(Queue) = Queue'
    <3>1. PICK n \in Nat : n = Underway'
      BY <1>3
    <3>2. PICK l \in Nat : l = lastRead
      BY <1>1
    <3>3. /\ Queue = [k \in 1 .. n + 1 |-> l + k]
          /\ Queue' = [k \in 1 .. n |-> (l + 1) + k]
      BY <1>1, <1>2, <2>2, <2>3, <3>1, <3>2
    <3> QED
      BY <2>2, <3>2, <3>3, RunTail
  <2>5. MF!Get
    BY <2>4 DEF MF!Get
  <2> QED
    BY <2>5 DEF MF!FifoNext
<1> QED
  BY <1>4, <1>5, <1>6, FiredOrRead

-----------------------------------------------------------------------------
(* Theorems.                                                                *)

\* The way of one mail from the AEON to the wakeup, whatever the threads do.
THEOREM Inductive == Spec => []IInv
<1>1. Init => IInv
  BY InitIInv
<1>2. IInv /\ [Next]_vars => IInv'
  BY NextIInv
<1> QED
  BY <1>1, <1>2, PTL DEF Spec

\* Every variable keeps its type: opMBPutAddr and the reader stay in the ring.
THEOREM TypeCorrect == Spec => []TypeOK
<1>1. IInv => TypeOK
  BY DEF IInv
<1> QED
  BY <1>1, Inductive, PTL

\* A mail in the AEON registers is on its way to the ring, unless the handler
\* dismissed its interrupt.
THEOREM Accounted == Spec => []MailAccounted
<1>1. IInv => MailAccounted
  BY DEF IInv, OneMail, Receiving, MailAccounted
<1> QED
  BY <1>1, Inductive, PTL

\* The handler can dismiss an interrupt only between the two stores of opDisable.
THEOREM OnlyInDisable == Spec => []DismissedOnlyInDisable
<1>1. IInv => DismissedOnlyInDisable
  BY DEF IInv
<1> QED
  BY <1>1, Inductive, PTL

\* Where one thread at a time calls opWQWait it never sleeps on a mail in the ring.
\* (Two do: the first to return clears aNum for the other.)
THEOREM WakeupKept == Spec => [](OneWaits => NoLostWakeup)
<1>1. IInv => (OneWaits => NoLostWakeup)
  BY DEF IInv, Registered, NoLostWakeup, Asleep
<1> QED
  BY <1>1, Inductive, PTL

\* Until the ring overruns, user space reads every mail received, once and in order.
THEOREM Ordered == Spec => []RingInOrder
<1>1. Init => InOrder
  BY RxAssumption DEF Init, InOrder, Filling, Slots, Dist
<1>2. IInv /\ InOrder /\ [Next]_vars => InOrder'
  BY OrderStep
<1>3. IInv /\ InOrder => RingInOrder
  BY InOrderMeans DEF IInv
<1> QED
  BY <1>1, <1>2, <1>3, Inductive, PTL DEF Spec

\* After a dismissed interrupt FIRE stays set: nothing is fired or received any more.
THEOREM Final == Spec => DismissalIsFinal
<1>1. IInv /\ [Next]_vars => [swallowed => UNCHANGED <<fire, fired, received>>]_vars
  <2> SUFFICES ASSUME IInv, Next, swallowed PROVE UNCHANGED <<fire, fired, received>>
    OBVIOUS
  <2>1. fire /\ bh \notin {"busyS", "copy", "busyC", "fireC"}
    BY DEF IInv, OneMail, Receiving
  <2> USE DEF aeonVars, irqVars, bhVars, ringVars, wqVars, thVars, histVars
  <2>2. CASE AeonFire \/ AeonRaise
    BY <2>1, <2>2 DEF AeonFire, AeonRaise
  <2>3. CASE MDrv_MSMailBox_Interrupt
    <3>1. InterruptTest => UNCHANGED <<fire, fired, received>>
      BY DEF InterruptTest
    <3>2. InterruptClear => UNCHANGED <<fire, fired, received>>
      BY DEF InterruptClear
    <3> QED
      BY <2>3, <3>1, <3>2 DEF MDrv_MSMailBox_Interrupt
  <2>4. CASE Tasklet
    BY <2>1, <2>4
    DEF Tasklet, BhAt, opMBPutAddr, ReceiveBusySet, ReceiveCopy, ReceiveBusyClear,
        ReceiveFireClear, opWQWakeup
  <2>5. ASSUME NEW t \in Threads, Wait(t) PROVE UNCHANGED <<fire, fired, received>>
    BY <2>5
    DEF Wait, WaitEnter, WaitPrepare, WaitSet, WaitCheck, WaitSchedule, WaitTimeout,
        WaitResume, WaitFinish, WaitClr
  <2>6. ASSUME NEW t \in Threads,
               \/ EnableFlag(t) \/ EnableMask(t) \/ DisableFlag(t) \/ DisableMask(t)
               \/ ReadMail(t)
        PROVE  UNCHANGED <<fire, fired, received>>
    BY <2>6 DEF EnableFlag, EnableMask, DisableFlag, DisableMask, ReadMail
  <2> QED
    BY <2>2, <2>3, <2>4, <2>5, <2>6 DEF Next
<1> QED
  BY <1>1, Inductive, PTL DEF Spec, DismissalIsFinal
\* From the AEON's fire to the read of user space the driver implements the
\* bounded FIFO of MailFifo, for every size of the ring, until the ring overruns.
THEOREM RefinesFifo == Spec => MailsAreFifo
<1>1. Init => MF!FifoInit
  <2> SUFFICES ASSUME Init PROVE MF!FifoInit
    OBVIOUS
  <2>1. ~fire /\ Unread - Filling = 0 /\ lastRead = 0
    <3>1. MaxMUnit % MaxMUnit = 0
      BY RxAssumption, ModOnce
    <3> QED
      BY <3>1, RxAssumption DEF Init, Unread, Filling
  <2>2. InRing = [k \in 1 .. 0 |-> slot[(u32GetAdr + k - 1) % MaxMUnit]]
    BY <2>1 DEF InRing
  <2>3. Queue = <<>>
    BY <2>1, <2>2 DEF Queue, InRegisters
  <2> QED
    BY <2>1, <2>3 DEF MF!FifoInit
<1>2. Init => InOrder
  BY RxAssumption DEF Init, InOrder, Filling, Slots, Dist
<1>3. IInv /\ InOrder /\ [Next]_vars => InOrder'
  BY OrderStep
<1>4. IInv /\ InOrder => Shape
  BY ShapeHolds
<1>5. IInv /\ InOrder /\ Shape /\ Shape' /\ [Next]_vars =>
        [MF!FifoNext \/ overrun']_<<Queue, lastRead>>
  BY FifoStep
<1> QED
  BY <1>1, <1>2, <1>3, <1>4, <1>5, Inductive, PTL DEF Spec, MailsAreFifo
=============================================================================
