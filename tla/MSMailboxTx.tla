----------------------------- MODULE MSMailboxTx -----------------------------
(***************************************************************************)
(* The sending half of the MSMAILBOX driver: hal_opFire and                *)
(* hal_opFireLoopback as their three callers use them, with the interrupt  *)
(* pulse that follows, and the receiver of each register group.            *)
(*                                                                         *)
(* The mail words and the CONTROL/STATUS1 bits share registers: word 1 is  *)
(* the register of FIRE, READBACK and INSTANT (u8Ctrl), the last word the  *)
(* one of BUSY and OVERFLOW (u8S1).  An ioctl writes the words of its      *)
(* caller as they are, so a mail carries its own value of these bits: Raw. *)
(* The last word holds the status bytes only, and no code reads u8S0: the  *)
(* mail proper is in the words before it.                                  *)
(***************************************************************************)
EXTENDS Naturals, FiniteSets

CONSTANTS
  IoctlThreads, \* threads in ioctl_FIREMAIL or ioctl_FIREMAIL_LOOPBACK
  PMClients,    \* kernel threads that call _send_mail_toPM
  NWords,       \* words of a group (8 in the code), the last one status
  MaxFires,     \* bound: the number of calls; call n carries mail n
  Raw,          \* the control and status bits the words of each mail carry
  NoThread

Threads == IoctlThreads \union PMClients

ASSUME TxAssumption ==
  /\ IoctlThreads \intersect PMClients = {}
  /\ NoThread \notin Threads
  /\ NWords \in Nat \ {0, 1}
  /\ MaxFires \in Nat
  /\ Raw \in [1 .. MaxFires -> SUBSET {"FIRE", "INSTANT", "BUSY", "OVERFLOW"}]

VARIABLES
  fire, busy, ovf, \* the control and status bits of each group
  words,           \* the mail words of each group; 0 is no mail
  lock,            \* the holder of _RIU_LOCK (spin_lock_bh)
  bkl,             \* the thread that runs with the big kernel lock
  pc, call, mail,  \* each thread: next step, entry point, the mail it sends
  idx,             \* each thread: the next word to fill
  val,             \* each thread: word read by _FIRE_S
  cpuInt,          \* REG_CPU_INT[src << 1]: the destinations raised
  ival,            \* each thread: value read from REG_CPU_INT
  irq,             \* interrupts <<src, dst>> latched at their destination
  rx,              \* the receiver of each group: next step of hal_opReceive
  drain,           \* _receive_mail_fromPM: STATUS1 as read by _OVERFLOW_C, or none
  unmasked,        \* the host's interrupt line of the PM was enabled
  \* history
  fires,           \* calls made
  accepted,        \* mails whose call returned E_OK
  taken,           \* how often a receiver took each mail
  torn,            \* a receiver took words of two mails
  refused          \* the PM callback refused a mail

regVars  == <<fire, busy, ovf, words>>
thVars   == <<lock, bkl, pc, call, mail, idx, val, ival>>
intVars  == <<cpuInt, irq>>
histVars == <<fires, accepted, taken, torn, refused>>
rxVars == <<rx, drain, unmasked>>
vars == <<regVars, thVars, intVars, rxVars, histVars>>

Groups == {"H3", "PM"}
Calls  == {"FIREMAIL", "LOOPBACK", "TOPM"}
Mails  == 1 .. MaxFires
Payload == 1 .. NWords - 1
NoDrain == [busy |-> FALSE, last |-> MaxFires + 1]

\* What each entry point passes to Fire/FireLoopback and to IAEON/IPROC.
Group(c) == IF c = "LOOPBACK" THEN "PM" ELSE "H3"
Dst(c)   == CASE c = "FIREMAIL" -> "AEON" [] c = "LOOPBACK" -> "H3"
              [] c = "TOPM" -> "PM"
CPUs == {"PM", "AEON", "H3"}

\* Who may make which call.
CallsOf(t) == IF t \in PMClients THEN {"TOPM"} ELSE {"FIREMAIL", "LOOPBACK"}

Grp(t) == Group(call[t])
PcSteps == {"user", "lock", "chkFire", "chkBusy", "chkOvf", "s1c", "fill",
            "unlock", "fireR", "fireW", "setR", "setW", "clrR", "clrW"}

Init ==
  /\ fire = [g \in Groups |-> FALSE]
  /\ busy = [g \in Groups |-> FALSE]
  /\ ovf  = [g \in Groups |-> FALSE]
  /\ words = [g \in Groups |-> [i \in 1 .. NWords |-> 0]]
  /\ lock = NoThread /\ bkl = NoThread
  /\ pc = [t \in Threads |-> "user"]
  /\ call = [t \in Threads |-> IF t \in PMClients THEN "TOPM" ELSE "FIREMAIL"]
  /\ mail = [t \in Threads |-> 0]
  /\ idx = [t \in Threads |-> 1]
  /\ val = [t \in Threads |-> 0]
  /\ ival = [t \in Threads |-> {}]
  /\ cpuInt = [g \in Groups |-> {}]
  /\ irq = {}
  /\ rx = [g \in Groups |-> "idle"] /\ drain = NoDrain /\ unmasked = FALSE
  /\ fires = 0 /\ accepted = {} /\ torn = FALSE /\ refused = FALSE
  /\ taken = [m \in Mails |-> 0]

-----------------------------------------------------------------------------
\* Uniprocessor scheduling: a thread under the big kernel lock or a spinlock
\* is not preempted, and no thread runs beside the host's own tasklet.
Runs(t) ==
  /\ bkl \in {NoThread, t}
  /\ lock \in {NoThread, t}
  /\ rx["PM"] = "idle"

Goto(t, from, to) == Runs(t) /\ pc[t] = from /\ pc' = [pc EXCEPT ![t] = to]

\* (mutant) an unlocked ioctl.
TakeNoBkl(t) == bkl

TakeBkl(t) == IF t \in IoctlThreads THEN t ELSE bkl
DropBkl(t) == IF bkl = t THEN NoThread ELSE bkl

\* Enter the driver; an ioctl holds the big kernel lock until it returns.
Enter(t) ==
  /\ Goto(t, "user", "lock")
  /\ fires < MaxFires
  /\ fires' = fires + 1
  /\ mail' = [mail EXCEPT ![t] = fires + 1]
  /\ \E c \in CallsOf(t) : call' = [call EXCEPT ![t] = c]
  /\ bkl' = TakeBkl(t)
  /\ UNCHANGED <<regVars, lock, idx, val, ival, intVars, rxVars, accepted, taken, torn,
                 refused>>

SpinLock(t) ==
  /\ Goto(t, "lock", "chkFire")
  /\ lock = NoThread
  /\ lock' = t
  /\ UNCHANGED <<regVars, bkl, call, mail, idx, val, ival, intVars, rxVars, histVars>>

\* A bit that is set ends the call with an error: unlock and return.
Check(t, from, set, to) ==
  /\ Goto(t, from, IF set THEN "user" ELSE to)
  /\ lock' = IF set THEN NoThread ELSE lock
  /\ bkl' = IF set THEN DropBkl(t) ELSE bkl
  /\ UNCHANGED <<regVars, call, mail, idx, val, ival, intVars, rxVars, histVars>>

\* (mutant) the FIRE test dropped.
CheckNoFire(t) == Check(t, "chkFire", FALSE, "chkBusy")

CheckFire(t) == Check(t, "chkFire", fire[Grp(t)], "chkBusy")
CheckBusy(t) == Check(t, "chkBusy", busy[Grp(t)],
                      IF call[t] = "LOOPBACK" THEN "chkOvf" ELSE "s1c")
CheckOverflow(t) == Check(t, "chkOvf", ovf[Grp(t)], "s1c")

\* (mutant) the fill loop will start at the second word.
ClearStatusSkips(t) ==
  /\ Goto(t, "s1c", "fill")
  /\ busy' = [busy EXCEPT ![Grp(t)] = FALSE]
  /\ ovf'  = [ovf EXCEPT ![Grp(t)] = FALSE]
  /\ idx'  = [idx EXCEPT ![t] = 2]
  /\ UNCHANGED <<fire, words, lock, bkl, call, mail, val, ival, intVars, rxVars, histVars>>

\* _S1_C, and the fill loop starts at the first word.
ClearStatus(t) ==
  /\ Goto(t, "s1c", "fill")
  /\ busy' = [busy EXCEPT ![Grp(t)] = FALSE]
  /\ ovf'  = [ovf EXCEPT ![Grp(t)] = FALSE]
  /\ idx'  = [idx EXCEPT ![t] = 1]
  /\ UNCHANGED <<fire, words, lock, bkl, call, mail, val, ival, intVars, rxVars, histVars>>

\* The bit of a register after a sender wrote its word i there, bit being in the
\* register of word b: the bit of the sender's word.
Written(set, t, bit, i, b) ==
  [set EXCEPT ![Grp(t)] = IF i = b THEN bit \in Raw[mail[t]] ELSE @]

\* One iteration of the fill loop; the words that hold bits write them too.
FillWord(t) ==
  /\ Goto(t, "fill", IF idx[t] = NWords THEN "unlock" ELSE "fill")
  /\ words' = [words EXCEPT ![Grp(t)][idx[t]] = mail[t]]
  /\ idx' = [idx EXCEPT ![t] = IF @ = NWords THEN 1 ELSE @ + 1]
  /\ fire' = Written(fire, t, "FIRE", idx[t], 1)
  /\ busy' = Written(busy, t, "BUSY", idx[t], NWords)
  /\ ovf'  = Written(ovf, t, "OVERFLOW", idx[t], NWords)
  /\ UNCHANGED <<lock, bkl, call, mail, val, ival, intVars, rxVars, histVars>>

\* spin_unlock_bh: the lock is gone before the mail is fired.
SpinUnlock(t) ==
  /\ Goto(t, "unlock", "fireR")
  /\ lock' = NoThread
  /\ UNCHANGED <<regVars, bkl, call, mail, idx, val, ival, intVars, rxVars, histVars>>

\* _FIRE_S: read the register of word 1, write it back with BIT0.
FireRead(t) ==
  /\ Goto(t, "fireR", "fireW")
  /\ val' = [val EXCEPT ![t] = words[Grp(t)][1]]
  /\ UNCHANGED <<regVars, lock, bkl, call, mail, idx, ival, intVars, rxVars, histVars>>

FireWrite(t) ==
  /\ Goto(t, "fireW", "setR")
  /\ words' = [words EXCEPT ![Grp(t)][1] = val[t]]
  /\ fire' = [fire EXCEPT ![Grp(t)] = TRUE]
  /\ UNCHANGED <<busy, ovf, lock, bkl, call, mail, idx, val, ival, intVars, rxVars, histVars>>

\* IAEON and IPROC pulse a bit of REG_CPU_INT with two read-modify-writes.
IntRead(t) ==
  /\ \/ Goto(t, "setR", "setW") \/ Goto(t, "clrR", "clrW")
  /\ ival' = [ival EXCEPT ![t] = cpuInt[Grp(t)]]
  /\ UNCHANGED <<regVars, lock, bkl, call, mail, idx, val, intVars, rxVars, histVars>>

\* A destination latches the rising edge of its bit.
WriteInt(src, bits) ==
  /\ cpuInt' = [cpuInt EXCEPT ![src] = bits]
  /\ irq' = irq \union {<<src, d>> : d \in bits \ cpuInt[src]}

IntSet(t) ==
  /\ Goto(t, "setW", "clrR")
  /\ WriteInt(Grp(t), ival[t] \union {Dst(call[t])})
  /\ UNCHANGED <<regVars, lock, bkl, call, mail, idx, val, ival, rxVars, histVars>>

\* (mutant) both writes of the pulse set the bit.
IntSetTwice(t) ==
  /\ Goto(t, "clrW", "user")
  /\ WriteInt(Grp(t), ival[t] \union {Dst(call[t])})
  /\ accepted' = accepted \union {mail[t]}
  /\ bkl' = DropBkl(t)
  /\ UNCHANGED <<regVars, lock, call, mail, idx, val, ival, rxVars, fires, taken, torn, refused>>

\* The bit is low again and the call returns E_OK.
IntClear(t) ==
  /\ Goto(t, "clrW", "user")
  /\ WriteInt(Grp(t), ival[t] \ {Dst(call[t])})
  /\ accepted' = accepted \union {mail[t]}
  /\ bkl' = DropBkl(t)
  /\ UNCHANGED <<regVars, lock, call, mail, idx, val, ival, rxVars, fires, taken, torn, refused>>

Sender(t) ==
  \/ SpinLock(t) \/ CheckFire(t) \/ CheckBusy(t) \/ CheckOverflow(t)
  \/ ClearStatus(t) \/ FillWord(t) \/ SpinUnlock(t) \/ FireRead(t)
  \/ FireWrite(t) \/ IntRead(t) \/ IntSet(t) \/ IntClear(t)

-----------------------------------------------------------------------------
(* The receiver of a group, as hal_opReceive receives.  The PM group is     *)
(* received by the host's own tasklet, which spin_lock_bh keeps out and     *)
(* which does not run before the host's line of the PM was unmasked; the    *)
(* H3 group by the AEON or the PM, on the interrupt each gets.              *)

RxMay(g) == g = "PM" => lock = NoThread /\ unmasked

RxStart(g) ==
  /\ rx[g] = "idle" /\ RxMay(g)
  /\ \E d \in CPUs : <<g, d>> \in irq /\ irq' = irq \ {<<g, d>>}
  /\ busy' = [busy EXCEPT ![g] = TRUE]
  /\ rx' = [rx EXCEPT ![g] = "copy"]
  /\ UNCHANGED <<fire, ovf, words, thVars, cpuInt, drain, unmasked, histVars>>

\* (mutant) the refused mail is dropped.
RxRefuseDrops ==
  /\ rx["PM"] = "idle" /\ RxMay("PM")
  /\ <<"PM", "H3">> \in irq /\ irq' = irq \ {<<"PM", "H3">>}
  /\ ovf' = [ovf EXCEPT !["PM"] = TRUE]
  /\ fire' = [fire EXCEPT !["PM"] = FALSE]
  /\ refused' = TRUE
  /\ UNCHANGED <<busy, words, thVars, cpuInt, rxVars, fires, accepted, taken,
                 torn>>

\* The PM callback with a full PM_Mail ring: OVERFLOW is set, the mail and
\* its FIRE bit are left in the registers.
RxRefuse ==
  /\ rx["PM"] = "idle" /\ RxMay("PM")
  /\ <<"PM", "H3">> \in irq /\ irq' = irq \ {<<"PM", "H3">>}
  /\ ovf' = [ovf EXCEPT !["PM"] = TRUE]
  /\ refused' = TRUE
  /\ UNCHANGED <<fire, busy, words, thVars, cpuInt, rxVars, fires, accepted, taken,
                 torn>>

\* _receive_mail_fromPM took a mail from the ring, which may hold some at any
\* time: _OVERFLOW_C reads the status register and writes it back without
\* OVERFLOW, in a thread with no lock.  A refused mail is not looked at again.
ThreadFree == rx["PM"] = "idle" /\ lock = NoThread /\ bkl = NoThread

DrainRead ==
  /\ ThreadFree /\ drain = NoDrain
  /\ drain' = [busy |-> busy["PM"], last |-> words["PM"][NWords]]
  /\ UNCHANGED <<regVars, thVars, intVars, rx, unmasked, histVars>>

DrainWrite ==
  /\ ThreadFree /\ drain # NoDrain
  /\ busy' = [busy EXCEPT !["PM"] = drain.busy]
  /\ ovf' = [ovf EXCEPT !["PM"] = FALSE]
  /\ words' = [words EXCEPT !["PM"][NWords] = drain.last]
  /\ drain' = NoDrain
  /\ UNCHANGED <<fire, thVars, intVars, rx, unmasked, histVars>>

\* The line is masked when the device is opened.  ioctl_ENABLE, ioctl_DISABLE and
\* ioctl_INTERRUPT unmask it, and nothing masks it again before the release.
EnablePM ==
  /\ ThreadFree
  /\ unmasked' = TRUE
  /\ UNCHANGED <<regVars, thVars, intVars, rx, drain, histVars>>

\* INSTANT, which stands for READBACK too, as the control byte of a mail holds it.
Instant(g) == "INSTANT" \in Raw[words[g][1]]

\* hal_opReceive on the host does not go on at such a mail: BUG(), in the tasklet.
RxBug ==
  /\ rx["PM"] = "copy" /\ words["PM"][1] \in Mails /\ Instant("PM")
  /\ rx' = [rx EXCEPT !["PM"] = "bug"]
  /\ UNCHANGED <<regVars, thVars, intVars, drain, unmasked, histVars>>

RxCopy(g) ==
  /\ rx[g] = "copy"
  /\ g = "PM" /\ words[g][1] \in Mails => ~Instant(g)
  /\ rx' = [rx EXCEPT ![g] = "busyC"]
  /\ LET m == words[g][1] IN
       IF m \in Mails /\ \A i \in Payload : words[g][i] = m
       THEN taken' = [taken EXCEPT ![m] = @ + 1] /\ torn' = torn
       ELSE torn' = TRUE /\ taken' = taken
  /\ UNCHANGED <<regVars, thVars, intVars, drain, unmasked, fires, accepted, refused>>

RxBusyClear(g) ==
  /\ rx[g] = "busyC"
  /\ rx' = [rx EXCEPT ![g] = "fireC"]
  /\ busy' = [busy EXCEPT ![g] = FALSE]
  /\ UNCHANGED <<fire, ovf, words, thVars, intVars, drain, unmasked, histVars>>

RxFireClear(g) ==
  /\ rx[g] = "fireC"
  /\ rx' = [rx EXCEPT ![g] = "idle"]
  /\ fire' = [fire EXCEPT ![g] = FALSE]
  /\ UNCHANGED <<busy, ovf, words, thVars, intVars, drain, unmasked, histVars>>

Receiver(g) ==
  \/ RxStart(g) \/ RxCopy(g) \/ RxBusyClear(g) \/ RxFireClear(g)
  \/ g = "PM" /\ RxBug

Next ==
  \/ \E t \in Threads : Enter(t) \/ Sender(t)
  \/ \E g \in Groups : Receiver(g)
  \/ RxRefuse \/ DrainRead \/ DrainWrite \/ EnablePM

Spec == Init /\ [][Next]_vars

\* Threads inside a call are scheduled and receivers serve their interrupts, the
\* host's tasklet once its line is unmasked; nobody need ever call for that.
Fairness ==
  /\ \A t \in Threads : SF_vars(Sender(t))
  /\ \A g \in Groups : WF_vars(Receiver(g))

FairSpec == Spec /\ Fairness

-----------------------------------------------------------------------------
TypeOK ==
  /\ fire \in [Groups -> BOOLEAN] /\ busy \in [Groups -> BOOLEAN]
  /\ ovf \in [Groups -> BOOLEAN]
  /\ words \in [Groups -> [1 .. NWords -> 0 .. MaxFires]]
  /\ lock \in Threads \union {NoThread} /\ bkl \in Threads \union {NoThread}
  /\ pc \in [Threads -> PcSteps]
  /\ call \in [Threads -> Calls]
  /\ mail \in [Threads -> 0 .. MaxFires]
  /\ idx \in [Threads -> 1 .. NWords]
  /\ val \in [Threads -> 0 .. MaxFires]
  /\ ival \in [Threads -> SUBSET CPUs]
  /\ cpuInt \in [Groups -> SUBSET CPUs]
  /\ irq \subseteq Groups \X CPUs
  /\ rx \in [Groups -> {"idle", "copy", "bug", "busyC", "fireC"}]
  /\ drain \in [busy : BOOLEAN, last : 0 .. MaxFires] \union {NoDrain}
  /\ unmasked \in BOOLEAN
  /\ fires \in 0 .. MaxFires /\ accepted \subseteq Mails
  /\ taken \in [Mails -> Nat] /\ torn \in BOOLEAN
  /\ refused \in BOOLEAN

\* Between filling its mail and the end of _FIRE_S a call's words stay its own,
\* although _RIU_LOCK is dropped in between.  (The big kernel lock of the ioctl
\* is what keeps the next FIREMAIL out; _send_mail_toPM does not take it.)
Filled(t) == pc[t] \in {"unlock", "fireR", "fireW"}

NoClobber ==
  \A t \in Threads : Filled(t) =>
    \A i \in 1 .. NWords : words[Grp(t)][i] = mail[t]

\* No receiver takes a mixture of two mails, or a mail twice.
TakenIntact == ~torn /\ \A m \in Mails : taken[m] <= 1

\* A mail whose call returned E_OK was taken, or sits in its registers with
\* FIRE set and an interrupt latched or being served, or was refused for a full
\* PM ring, or stopped the receiver with its INSTANT bit, and sits there with FIRE
\* still set.
InRegisters(m, g) ==
  /\ fire[g] /\ \A i \in Payload : words[g][i] = m
  /\ \/ rx[g] \in {"copy", "bug"} \/ \E d \in CPUs : <<g, d>> \in irq
     \/ g = "PM" /\ refused

AcceptedAccounted ==
  \A m \in accepted : taken[m] = 1 \/ \E g \in Groups : InRegisters(m, g)

\* A mail refused by a full ring keeps FIRE set, and the FIRE check answers first.
\* So E_HAL_COPROCESSOR_OVERFLOW never tells a sender of a full ring: where OVERFLOW
\* is seen without FIRE it is an earlier caller's own u8S1 that hal_opReceive left.
OverflowBehindFire ==
  \A g \in Groups : ovf[g] =>
    \/ fire[g]
    \/ words[g][NWords] \in Mails /\ "OVERFLOW" \in Raw[words[g][NWords]]

\* The registers as a place for one mail each: a mail is there from _FIRE_S, which
\* makes it visible, until its receiver has copied it.  A FIRE bit that came with
\* the words of a call still at work fires nothing.
FillSteps == {"fill", "unlock", "fireR", "fireW"}
Filling(g) == \E t \in Threads : pc[t] \in FillSteps /\ Grp(t) = g

Fired(g) == fire[g] /\ ~Filling(g)

Holding ==
  [g \in Groups |->
     IF Fired(g) /\ rx[g] \notin {"busyC", "fireC"} THEN words[g][1] ELSE 0]

MS == INSTANCE MailSlot WITH
        Place <- Groups, Mail <- Mails, Empty <- 0, slot <- Holding,
        delivered <- {m \in Mails : taken[m] > 0}

\* hal_opFire and hal_opFireLoopback with their receivers implement MailSlot: the
\* bits FIRE and BUSY, tested and set in separate steps, let a mail appear only
\* where none is, and it leaves its registers whole and in no other way than by
\* being received.
GroupsAreSlots == MS!SlotSpec

\* Every mail accepted is taken by its receiver, one to the host once its line of
\* the PM is unmasked; unless a full PM ring refused one, after which the PM group
\* is not received again, or a mail with INSTANT stopped the host.
Masked(m) == ~unmasked /\ words["PM"][1] = m

AcceptedTaken ==
  \A m \in Mails :
    (m \in accepted /\ ~Masked(m)) ~> (taken[m] = 1 \/ refused \/ rx["PM"] = "bug")
=============================================================================
