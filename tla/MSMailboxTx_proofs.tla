-------------------------- MODULE MSMailboxTx_proofs --------------------------
(***************************************************************************)
(* Theorems about MSMailboxTx, for every set of threads in the ioctls, any *)
(* number of words and calls: no sender touches another's words, the       *)
(* receivers take whole mails once, and an accepted mail is taken or still *)
(* in its registers.  They hold while nobody calls _send_mail_toPM, which  *)
(* has no caller in the tree: the big kernel lock of the ioctls is what    *)
(* the argument rests on.                                                  *)
(***************************************************************************)
EXTENDS MSMailboxTx, TLAPS

\* No kernel thread sends beside the ioctls.
IoctlsOnly == PMClients = {}

-----------------------------------------------------------------------------
(* The inductive invariant.                                                 *)

\* Who is in a call holds the big kernel lock, so one thread at most is; and
\* _RIU_LOCK from the tests to the last word.
LockedSteps == {"chkFire", "chkBusy", "chkOvf", "s1c", "fill", "unlock"}

Held(t) ==
  /\ pc[t] # "user" <=> bkl = t
  /\ pc[t] \in LockedSteps <=> lock = t

\* It sends its own mail, by one of the ioctls.
Sends(t) ==
  /\ call[t] \in {"FIREMAIL", "LOOPBACK"}
  /\ pc[t] # "user" => mail[t] \in 1 .. fires

\* Each group has one destination.
Dest == [g \in Groups |-> IF g = "PM" THEN "H3" ELSE "AEON"]

Latched(g) == <<g, Dest[g]>> \in irq

\* The words a sender has filled are its own, and so is the one _FIRE_S read.
Fills(t) ==
  /\ pc[t] = "fill" =>
       \A i \in 1 .. NWords : i < idx[t] => words[Grp(t)][i] = mail[t]
  /\ Filled(t) => \A i \in 1 .. NWords : words[Grp(t)][i] = mail[t]
  /\ pc[t] = "fireW" => val[t] = mail[t]

\* Past the test of FIRE its group holds no mail, whatever FIRE bit its own words
\* bring along, and after _FIRE_S its own.
Prepares(t) == pc[t] \in {"chkBusy", "chkOvf", "s1c"} => ~fire[Grp(t)]

Raises(t) ==
  pc[t] \in {"setR", "setW"} => Fired(Grp(t)) /\ words[Grp(t)][1] = mail[t]

\* The bit of the pulse is high between its two writes only.
Pulses(t) ==
  /\ pc[t] = "setW" => ival[t] = {}
  /\ pc[t] = "clrW" => ival[t] \subseteq {Dst(call[t])}

LineLow(g) ==
  cpuInt[g] # {} =>
    \E t \in Threads :
      pc[t] \in {"clrR", "clrW"} /\ Grp(t) = g /\ cpuInt[g] = {Dst(call[t])}

\* Before _FIRE_S a mail is in no receiver's hands, before E_OK not accepted.
Fresh(t) ==
  /\ pc[t] # "user" => mail[t] \notin accepted
  /\ pc[t] \in LockedSteps \union {"lock", "fireR", "fireW"} =>
       /\ taken[mail[t]] = 0
       /\ \A g \in Groups : Fired(g) => words[g][1] # mail[t]

Later == \A m \in Mails : m > fires => taken[m] = 0 /\ m \notin accepted

\* A fired mail is whole; it was taken once its receiver has copied it.
Whole(g) ==
  Fired(g) =>
    /\ words[g][1] \in 1 .. fires
    /\ \A i \in Payload : words[g][i] = words[g][1]
    /\ taken[words[g][1]] = IF rx[g] \in {"busyC", "fireC"} THEN 1 ELSE 0

TwoMails == Fired("H3") /\ Fired("PM") => words["H3"][1] # words["PM"][1]

\* A fired mail is at one stage: to be raised, latched, received or refused.
Raising(g) == \E t \in Threads : pc[t] \in {"setR", "setW"} /\ Grp(t) = g

Stuck(g) == g = "PM" /\ refused

Stage(g) ==
  /\ Fired(g) <=> Raising(g) \/ Latched(g) \/ rx[g] # "idle" \/ Stuck(g)
  /\ Raising(g) => ~Latched(g) /\ rx[g] = "idle" /\ ~Stuck(g)
  /\ Latched(g) => rx[g] = "idle" /\ ~Stuck(g)
  /\ rx[g] # "idle" => ~Stuck(g)

\* OVERFLOW tells of a refused mail, on the PM's group, or came with a mail's words.
Echo(g) == words[g][NWords] \in Mails /\ "OVERFLOW" \in Raw[words[g][NWords]]

Overflows == \A g \in Groups : ovf[g] => Stuck(g) \/ Echo(g)

\* A mail whose interrupt was raised is taken or still there.
Kept ==
  \A m \in Mails :
    m \in accepted \/ (\E t \in Threads : pc[t] \in {"clrR", "clrW"} /\ mail[t] = m)
      => taken[m] = 1 \/ \E g \in Groups : Fired(g) /\ words[g][1] = m

IInv ==
  /\ TypeOK
  /\ irq \subseteq {<<g, Dest[g]>> : g \in Groups}
  /\ \A t \in Threads :
       /\ Held(t) /\ Sends(t) /\ Fills(t) /\ Prepares(t) /\ Raises(t)
       /\ Pulses(t) /\ Fresh(t)
  /\ \A g \in Groups : LineLow(g) /\ Whole(g) /\ Stage(g)
  /\ Later /\ TwoMails /\ Overflows /\ Kept
  /\ TakenIntact

-----------------------------------------------------------------------------
(* Lemmas: the initial states, and one for each action.                     *)

LEMMA Ioctls ==
  ASSUME IoctlsOnly
  PROVE  Threads = IoctlThreads /\ \A t \in Threads : CallsOf(t) = {"FIREMAIL", "LOOPBACK"}
  BY DEF IoctlsOnly, Threads, CallsOf

LEMMA DestIs == Dest["H3"] = "AEON" /\ Dest["PM"] = "H3"
  BY DEF Dest, Groups

\* The interrupt that a call raises is the one of its group.
LEMMA DstIs ==
  ASSUME NEW t \in Threads, Sends(t)
  PROVE  Grp(t) \in Groups /\ Dst(call[t]) = Dest[Grp(t)]
  BY DestIs DEF Sends, Grp, Group, Dst, Groups

LEMMA InitIInv ==
  ASSUME IoctlsOnly, Init
  PROVE  IInv
<1>0. call = [t \in Threads |-> "FIREMAIL"]
  BY DEF Init, IoctlsOnly
<1>1. TypeOK
  <2>1. 1 \in 1 .. NWords /\ 0 \in 0 .. MaxFires
    BY TxAssumption
  <2>2. /\ fire \in [Groups -> BOOLEAN] /\ busy \in [Groups -> BOOLEAN]
        /\ ovf \in [Groups -> BOOLEAN]
        /\ words \in [Groups -> [1 .. NWords -> 0 .. MaxFires]]
        /\ cpuInt \in [Groups -> SUBSET CPUs] /\ irq \subseteq Groups \X CPUs
    BY <2>1 DEF Init
  <2>3. /\ lock \in Threads \union {NoThread} /\ bkl \in Threads \union {NoThread}
        /\ pc \in [Threads -> PcSteps] /\ call \in [Threads -> Calls]
        /\ mail \in [Threads -> 0 .. MaxFires] /\ idx \in [Threads -> 1 .. NWords]
        /\ val \in [Threads -> 0 .. MaxFires] /\ ival \in [Threads -> SUBSET CPUs]
    BY <1>0, <2>1 DEF Init, PcSteps, Calls
  <2>4. rx \in [Groups -> {"idle", "copy", "bug", "busyC", "fireC"}] /\ drain = NoDrain
        /\ unmasked = FALSE
    BY DEF Init
  <2>5. /\ fires \in 0 .. MaxFires /\ accepted \subseteq Mails
        /\ taken \in [Mails -> Nat] /\ torn \in BOOLEAN /\ refused \in BOOLEAN
    BY <2>1 DEF Init
  <2> QED
    BY <2>2, <2>3, <2>4, <2>5 DEF TypeOK
<1>2. \A t \in Threads : call[t] = "FIREMAIL"
  BY <1>0
<1>3. ASSUME NEW t \in Threads
      PROVE  /\ Held(t) /\ Sends(t) /\ Fills(t) /\ Prepares(t) /\ Raises(t)
             /\ Pulses(t) /\ Fresh(t)
  BY <1>2, TxAssumption
  DEF Init, Held, Sends, Fills, Filled, Prepares, Raises, Pulses, Fresh, Fired, LockedSteps
<1>4. ASSUME NEW g \in Groups PROVE LineLow(g) /\ Whole(g) /\ Stage(g)
  BY DEF Init, LineLow, Whole, Stage, Raising, Latched, Stuck, Fired
<1>5. Later /\ TwoMails /\ Overflows /\ Kept /\ TakenIntact
  BY DEF Init, Later, TwoMails, Overflows, Kept, TakenIntact, Groups, Fired
<1> QED
  BY <1>1, <1>3, <1>4, <1>5 DEF IInv, Init

LEMMA MadeIsMail ==
  ASSUME TypeOK
  PROVE  \A m \in 1 .. fires : m \in Mails
<1>1. fires \in 0 .. MaxFires
  BY DEF TypeOK
<1> QED
  BY <1>1, TxAssumption DEF Mails

\* While a thread runs no other is in a call.
LEMMA Alone ==
  ASSUME IInv, NEW t \in Threads, Runs(t)
  PROVE  /\ \A u \in Threads : u # t => pc[u] = "user" /\ bkl # u /\ lock # u
         /\ \A g \in Groups : Raising(g) <=> pc[t] \in {"setR", "setW"} /\ Grp(t) = g
         /\ \A g \in Groups : Filling(g) <=> pc[t] \in FillSteps /\ Grp(t) = g
<1>1. \A u \in Threads : u # t => pc[u] = "user" /\ bkl # u /\ lock # u
  BY TxAssumption DEF IInv, Held, Runs, LockedSteps
<1> QED
  BY <1>1 DEF Raising, Filling, FillSteps

\* Of the threads only the one in a call can be raising an interrupt.
LEMMA RaisingAfter ==
  ASSUME NEW t \in Threads, NEW g \in Groups,
         \A u \in Threads : u # t => pc'[u] = "user"
  PROVE  Raising(g)' <=> pc'[t] \in {"setR", "setW"} /\ Grp(t)' = g
  BY DEF Raising

\* Nor can another be filling a group: so what a step does to the fired mails is
\* what it does to FIRE and to the step of that one thread.
LEMMA FiredAfter ==
  ASSUME NEW t \in Threads, NEW g \in Groups,
         \A u \in Threads : u # t => pc'[u] = "user"
  PROVE  Fired(g)' <=> fire'[g] /\ ~(pc'[t] \in FillSteps /\ Grp(t)' = g)
  BY DEF Fired, Filling, FillSteps

\* The group of a sender between the test of FIRE and _FIRE_S holds no fired mail.
LEMMA NotFired ==
  ASSUME IInv, NEW t \in Threads,
         pc[t] \in {"chkBusy", "chkOvf", "s1c"} \union FillSteps
  PROVE  ~Fired(Grp(t))
  BY DEF IInv, Prepares, Fired, Filling

\* The stage of a mail depends on five things only.
LEMMA SameStage ==
  ASSUME NEW g \in Groups, Stage(g), Fired(g)' <=> Fired(g), Raising(g)' <=> Raising(g),
         Latched(g)' <=> Latched(g), rx'[g] = rx[g], refused' = refused
  PROVE  Stage(g)'
  BY DEF Stage, Stuck

\* So the line of an interrupt is high only under that thread's own pulse.
LEMMA LineIs ==
  ASSUME IInv, NEW t \in Threads, Runs(t), NEW g \in Groups, cpuInt[g] # {}
  PROVE  pc[t] \in {"clrR", "clrW"} /\ Grp(t) = g /\ cpuInt[g] = {Dst(call[t])}
<1>1. PICK u \in Threads :
        pc[u] \in {"clrR", "clrW"} /\ Grp(u) = g /\ cpuInt[g] = {Dst(call[u])}
  BY DEF IInv, LineLow
<1>2. u = t
  BY <1>1, Alone
<1> QED
  BY <1>1, <1>2

\* What a word of a mail makes of a bit.
LEMMA WrittenBit ==
  ASSUME NEW set \in [Groups -> BOOLEAN], NEW t \in Threads, Grp(t) \in Groups,
         NEW bit, NEW i, NEW b
  PROVE  /\ Written(set, t, bit, i, b) \in [Groups -> BOOLEAN]
         /\ \A g \in Groups : g # Grp(t) => Written(set, t, bit, i, b)[g] = set[g]
         /\ i = b => (Written(set, t, bit, i, b)[Grp(t)] <=> bit \in Raw[mail[t]])
         /\ i # b => Written(set, t, bit, i, b) = set
<1> DEFINE new == IF i = b THEN bit \in Raw[mail[t]] ELSE set[Grp(t)]
<1>1. new \in BOOLEAN
  <2>1. set[Grp(t)] \in BOOLEAN /\ (bit \in Raw[mail[t]]) \in BOOLEAN
    OBVIOUS
  <2> QED
    BY <2>1
<1>2. Written(set, t, bit, i, b) = [set EXCEPT ![Grp(t)] = new]
  BY DEF Written
<1>3. CASE i = b
  <2>1. new <=> bit \in Raw[mail[t]]
    BY <1>3
  <2> HIDE DEF new
  <2> QED
    BY <1>1, <1>2, <1>3, <2>1
<1>4. CASE i # b
  <2>1. new = set[Grp(t)]
    BY <1>4
  <2> HIDE DEF new
  <2> QED
    BY <1>1, <1>2, <1>4, <2>1
<1> QED
  BY <1>3, <1>4

\* Of a sender's steps only the write of _FIRE_S makes a fired mail, and none unmakes
\* one: a FIRE bit that the fill loop writes or clears is not one of a fired mail.
LEMMA FiredKept ==
  ASSUME IInv, NEW t \in Threads,
         \/ Enter(t) \/ SpinLock(t) \/ CheckFire(t) \/ CheckBusy(t) \/ CheckOverflow(t)
         \/ ClearStatus(t) \/ FillWord(t) \/ SpinUnlock(t) \/ FireRead(t)
         \/ IntRead(t) \/ IntSet(t) \/ IntClear(t)
  PROVE  \A g \in Groups : Fired(g)' <=> Fired(g)
<1> USE DEF FillSteps
<1>1. Runs(t) /\ \A u \in Threads : u # t => pc'[u] = pc[u]
  BY DEF IInv, TypeOK, Enter, SpinLock, CheckFire, CheckBusy, CheckOverflow, Check,
         ClearStatus, FillWord, SpinUnlock, FireRead, IntRead, IntSet, IntClear, Goto
<1>2. /\ \A u \in Threads : u # t => pc[u] = "user"
      /\ \A g \in Groups : Filling(g) <=> pc[t] \in FillSteps /\ Grp(t) = g
  BY <1>1, Alone
<1>3. \A g \in Groups : Fired(g)' <=> fire'[g] /\ ~(pc'[t] \in FillSteps /\ Grp(t)' = g)
  BY <1>1, <1>2, FiredAfter
<1>4. \A g \in Groups : Fired(g) <=> fire[g] /\ ~(pc[t] \in FillSteps /\ Grp(t) = g)
  BY <1>2 DEF Fired
<1>5. CASE FillWord(t)
  <2>1. /\ pc[t] \in FillSteps /\ pc'[t] \in FillSteps /\ Grp(t)' = Grp(t)
        /\ fire' = Written(fire, t, "FIRE", idx[t], 1)
    BY <1>5 DEF IInv, TypeOK, FillWord, Goto, Grp
  <2>2. fire \in [Groups -> BOOLEAN] /\ Grp(t) \in Groups
    BY DstIs DEF IInv, TypeOK
  <2>3. \A g \in Groups : g # Grp(t) => fire'[g] = fire[g]
    BY <2>1, <2>2, WrittenBit
  <2> QED
    BY <1>3, <1>4, <2>1, <2>3
<1>6. CASE ClearStatus(t)
  <2>1. /\ pc[t] = "s1c" /\ ~fire[Grp(t)] /\ fire' = fire /\ Grp(t)' = Grp(t)
    BY <1>6 DEF IInv, TypeOK, ClearStatus, Goto, Grp, Prepares
  <2> QED
    BY <1>3, <1>4, <2>1
<1>7. CASE Enter(t) \/ SpinLock(t) \/ IntRead(t) \/ IntSet(t) \/ IntClear(t)
  <2>1. fire' = fire /\ pc[t] \notin FillSteps /\ pc'[t] \notin FillSteps
    BY <1>7 DEF IInv, TypeOK, Enter, SpinLock, IntRead, IntSet, IntClear, Goto, regVars
  <2> QED
    BY <1>3, <1>4, <2>1
<1>8. CASE CheckFire(t) \/ CheckBusy(t) \/ CheckOverflow(t)
  <2>1. fire' = fire /\ pc[t] \notin FillSteps /\ pc'[t] \notin FillSteps
    BY <1>8 DEF IInv, TypeOK, CheckFire, CheckBusy, CheckOverflow, Check, Goto, regVars
  <2> QED
    BY <1>3, <1>4, <2>1
<1>9. CASE SpinUnlock(t) \/ FireRead(t)
  <2>1. fire' = fire /\ pc[t] \in FillSteps /\ pc'[t] \in FillSteps /\ Grp(t)' = Grp(t)
    BY <1>9 DEF IInv, TypeOK, SpinUnlock, FireRead, Goto, Grp, regVars
  <2> QED
    BY <1>3, <1>4, <2>1
<1> QED
  BY <1>5, <1>6, <1>7, <1>8, <1>9

\* The write of _FIRE_S makes the mail of its call, and no other, a fired one.
LEMMA FireFires ==
  ASSUME IInv, NEW t \in Threads, FireWrite(t)
  PROVE  \A g \in Groups : Fired(g)' <=> g = Grp(t) \/ Fired(g)
<1>1. Runs(t)
  BY DEF FireWrite, Goto
<1>2. /\ \A u \in Threads : u # t => pc[u] = "user"
      /\ \A g \in Groups : Filling(g) <=> pc[t] \in FillSteps /\ Grp(t) = g
  BY <1>1, Alone
<1>3. \A g \in Groups : Fired(g)' <=> fire'[g] /\ ~(pc'[t] \in FillSteps /\ Grp(t)' = g)
  BY <1>2, FiredAfter DEF IInv, TypeOK, FireWrite, Goto
<1> QED
  BY <1>2, <1>3 DEF IInv, TypeOK, FireWrite, Goto, Grp, Fired, FillSteps

LEMMA EnterStep ==
  ASSUME IoctlsOnly, IInv, NEW t \in Threads, Enter(t)
  PROVE  IInv'
<1>1. Runs(t)
  BY DEF Enter, Goto
<1>2. /\ \A u \in Threads : u # t => pc[u] = "user" /\ bkl # u /\ lock # u
      /\ \A g \in Groups : Raising(g) <=> pc[t] \in {"setR", "setW"} /\ Grp(t) = g
  BY <1>1, Alone
<1>fired. \A g \in Groups : Fired(g)' <=> Fired(g)
  BY FiredKept
<1>3. t \in IoctlThreads /\ \E c \in {"FIREMAIL", "LOOPBACK"} : call' = [call EXCEPT ![t] = c]
  BY Ioctls DEF Enter
<1>4. TypeOK'
  <2>1. /\ fires + 1 \in 0 .. MaxFires /\ "lock" \in PcSteps
        /\ TakeBkl(t) \in Threads \union {NoThread}
    BY TxAssumption DEF IInv, TypeOK, Enter, PcSteps, TakeBkl
  <2>2. /\ pc' \in [Threads -> PcSteps] /\ mail' \in [Threads -> 0 .. MaxFires]
        /\ fires' \in 0 .. MaxFires /\ bkl' \in Threads \union {NoThread}
    BY <2>1 DEF IInv, TypeOK, Enter, Goto
  <2>3. call' \in [Threads -> Calls]
    BY <1>3 DEF IInv, TypeOK, Calls
  <2> QED
    BY <2>2, <2>3 DEF IInv, TypeOK, Enter, regVars, intVars, rxVars
<1>5. irq' \subseteq {<<g, Dest[g]>> : g \in Groups}
  BY <1>2, TxAssumption, <1>3
  DEF IInv, Enter, Goto, Grp, Group, regVars, intVars, rxVars, TakeBkl
<1>6. ASSUME NEW u \in Threads PROVE Held(u)'
  BY <1>2, TxAssumption, <1>3
  DEF IInv, TypeOK, Held, LockedSteps, Enter, Goto, Grp, Group, regVars, intVars, rxVars,
      TakeBkl
<1>7. ASSUME NEW u \in Threads PROVE Sends(u)'
  BY <1>2, TxAssumption, <1>3
  DEF IInv, TypeOK, Sends, Enter, Goto, Grp, Group, regVars, intVars, rxVars, TakeBkl
<1>8. ASSUME NEW u \in Threads PROVE Fills(u)'
  BY <1>2, TxAssumption, <1>3
  DEF IInv, TypeOK, Fills, Filled, Enter, Goto, Grp, Group, regVars, intVars, rxVars,
      TakeBkl
<1>9. ASSUME NEW u \in Threads PROVE Prepares(u)'
  BY <1>fired, <1>2, TxAssumption, <1>3
  DEF IInv, TypeOK, Prepares, Enter, Goto, Grp, Group, regVars, intVars, rxVars, TakeBkl
<1>10. ASSUME NEW u \in Threads PROVE Raises(u)'
  BY <1>fired, <1>2, TxAssumption, <1>3
  DEF IInv, TypeOK, Raises, Enter, Goto, Grp, Group, regVars, intVars, rxVars, TakeBkl
<1>11. ASSUME NEW u \in Threads PROVE Pulses(u)'
  BY <1>2, TxAssumption, <1>3
  DEF IInv, TypeOK, Pulses, Enter, Goto, Grp, Group, regVars, intVars, rxVars, TakeBkl
<1>12. ASSUME NEW u \in Threads PROVE Fresh(u)'
  BY <1>fired, <1>2, TxAssumption, <1>3
  DEF IInv, TypeOK, Fresh, LockedSteps, Enter, Goto, Grp, Group, regVars, intVars,
      rxVars, TakeBkl, Later, Whole, Mails
<1>13. ASSUME NEW g \in Groups PROVE LineLow(g)'
  BY <1>2, TxAssumption, <1>3
  DEF IInv, TypeOK, LineLow, Enter, Goto, Grp, Group, regVars, intVars, rxVars, TakeBkl
<1>14. ASSUME NEW g \in Groups PROVE Whole(g)'
  BY <1>fired, <1>2, TxAssumption, <1>3
  DEF IInv, TypeOK, Whole, Enter, Goto, Grp, Group, regVars, intVars, rxVars, TakeBkl
<1>15. ASSUME NEW g \in Groups PROVE Stage(g)'
  <2>1. Raising(g)' <=> Raising(g)
    <3>1. /\ \A u \in Threads : u # t => pc'[u] = "user"
          /\ pc[t] \notin {"setR", "setW"} /\ pc'[t] \notin {"setR", "setW"}
      BY <1>2 DEF IInv, TypeOK, Enter, Goto
    <3> QED
      BY <3>1, <1>2, RaisingAfter
  <2>2. rx' = rx /\ irq' = irq /\ refused' = refused
    BY DEF Enter, rxVars, intVars
  <2> QED
    BY <1>fired, <2>1, <2>2, SameStage DEF IInv, Latched
<1>16. Later'
  <2>1. /\ fires \in Nat /\ fires' = fires + 1 /\ taken' = taken /\ accepted' = accepted
    BY TxAssumption DEF IInv, TypeOK, Enter
  <2> QED
    BY <2>1 DEF IInv, Later, Mails
<1>17. TwoMails'
  BY <1>fired, <1>2, TxAssumption, <1>3
  DEF IInv, TypeOK, TwoMails, Groups, Enter, Goto, Grp, Group, regVars, intVars, rxVars,
      TakeBkl
<1>18. Overflows'
  BY <1>2, TxAssumption, <1>3
  DEF IInv, TypeOK, Overflows, Stuck, Echo, Enter, Goto, Grp, Group, regVars, intVars, rxVars,
      TakeBkl
<1>19. Kept'
  BY <1>fired, <1>2, TxAssumption, <1>3
  DEF IInv, TypeOK, Kept, Enter, Goto, Grp, Group, regVars, intVars, rxVars, TakeBkl
<1>20. TakenIntact'
  BY <1>2, TxAssumption, <1>3
  DEF IInv, TypeOK, TakenIntact, Enter, Goto, Grp, Group, regVars, intVars, rxVars,
      TakeBkl
<1> QED
  BY <1>4, <1>5, <1>6, <1>7, <1>8, <1>9, <1>10, <1>11, <1>12, <1>13, <1>14, <1>15,
      <1>16, <1>17, <1>18, <1>19, <1>20
  DEF IInv

LEMMA SpinLockStep ==
  ASSUME IoctlsOnly, IInv, NEW t \in Threads, SpinLock(t)
  PROVE  IInv'
<1>1. Runs(t)
  BY DEF SpinLock, Goto
<1>2. /\ \A u \in Threads : u # t => pc[u] = "user" /\ bkl # u /\ lock # u
      /\ \A g \in Groups : Raising(g) <=> pc[t] \in {"setR", "setW"} /\ Grp(t) = g
  BY <1>1, Alone
<1>fired. \A g \in Groups : Fired(g)' <=> Fired(g)
  BY FiredKept
<1>3. TypeOK'
  BY <1>2, TxAssumption
  DEF IInv, TypeOK, PcSteps, Calls, CPUs, Mails, SpinLock, Goto, Grp, Group, regVars,
      intVars, rxVars, histVars
<1>4. irq' \subseteq {<<g, Dest[g]>> : g \in Groups}
  BY <1>2, TxAssumption
  DEF IInv, SpinLock, Goto, Grp, Group, regVars, intVars, rxVars, histVars
<1>5. ASSUME NEW u \in Threads PROVE Held(u)'
  BY <1>2, TxAssumption
  DEF IInv, TypeOK, Held, LockedSteps, SpinLock, Goto, Grp, Group, regVars, intVars,
      rxVars, histVars
<1>6. ASSUME NEW u \in Threads PROVE Sends(u)'
  BY <1>2, TxAssumption
  DEF IInv, TypeOK, Sends, SpinLock, Goto, Grp, Group, regVars, intVars, rxVars,
      histVars
<1>7. ASSUME NEW u \in Threads PROVE Fills(u)'
  BY <1>2, TxAssumption
  DEF IInv, TypeOK, Fills, Filled, SpinLock, Goto, Grp, Group, regVars, intVars, rxVars,
      histVars
<1>8. ASSUME NEW u \in Threads PROVE Prepares(u)'
  BY <1>fired, <1>2, TxAssumption
  DEF IInv, TypeOK, Prepares, SpinLock, Goto, Grp, Group, regVars, intVars, rxVars,
      histVars
<1>9. ASSUME NEW u \in Threads PROVE Raises(u)'
  BY <1>fired, <1>2, TxAssumption
  DEF IInv, TypeOK, Raises, SpinLock, Goto, Grp, Group, regVars, intVars, rxVars,
      histVars
<1>10. ASSUME NEW u \in Threads PROVE Pulses(u)'
  BY <1>2, TxAssumption
  DEF IInv, TypeOK, Pulses, SpinLock, Goto, Grp, Group, regVars, intVars, rxVars,
      histVars
<1>11. ASSUME NEW u \in Threads PROVE Fresh(u)'
  BY <1>fired, <1>2, TxAssumption
  DEF IInv, TypeOK, Fresh, LockedSteps, SpinLock, Goto, Grp, Group, regVars, intVars,
      rxVars, histVars
<1>12. ASSUME NEW g \in Groups PROVE LineLow(g)'
  BY <1>2, TxAssumption
  DEF IInv, TypeOK, LineLow, SpinLock, Goto, Grp, Group, regVars, intVars, rxVars,
      histVars
<1>13. ASSUME NEW g \in Groups PROVE Whole(g)'
  BY <1>fired, <1>2, TxAssumption
  DEF IInv, TypeOK, Whole, SpinLock, Goto, Grp, Group, regVars, intVars, rxVars,
      histVars
<1>14. ASSUME NEW g \in Groups PROVE Stage(g)'
  BY <1>fired, <1>2, TxAssumption
  DEF IInv, TypeOK, Stage, Latched, Stuck, SpinLock, Goto, Grp, Group, regVars, intVars,
      rxVars, histVars, Raising
<1>15. Later'
  BY <1>2, TxAssumption
  DEF IInv, TypeOK, Later, SpinLock, Goto, Grp, Group, regVars, intVars, rxVars,
      histVars
<1>16. TwoMails'
  BY <1>fired, <1>2, TxAssumption
  DEF IInv, TypeOK, TwoMails, Groups, SpinLock, Goto, Grp, Group, regVars, intVars,
      rxVars, histVars
<1>17. Overflows'
  BY <1>2, TxAssumption
  DEF IInv, TypeOK, Overflows, Stuck, Echo, SpinLock, Goto, Grp, Group, regVars, intVars, rxVars,
      histVars
<1>18. Kept'
  BY <1>fired, <1>2, TxAssumption
  DEF IInv, TypeOK, Kept, SpinLock, Goto, Grp, Group, regVars, intVars, rxVars, histVars
<1>19. TakenIntact'
  BY <1>2, TxAssumption
  DEF IInv, TypeOK, TakenIntact, SpinLock, Goto, Grp, Group, regVars, intVars, rxVars,
      histVars
<1> QED
  BY <1>3, <1>4, <1>5, <1>6, <1>7, <1>8, <1>9, <1>10, <1>11, <1>12, <1>13, <1>14,
      <1>15, <1>16, <1>17, <1>18, <1>19
  DEF IInv

LEMMA CheckFireStep ==
  ASSUME IoctlsOnly, IInv, NEW t \in Threads, CheckFire(t)
  PROVE  IInv'
<1>1. Runs(t)
  BY DEF CheckFire, Check, Goto
<1>2. /\ \A u \in Threads : u # t => pc[u] = "user" /\ bkl # u /\ lock # u
      /\ \A g \in Groups : Raising(g) <=> pc[t] \in {"setR", "setW"} /\ Grp(t) = g
  BY <1>1, Alone
<1>fired. \A g \in Groups : Fired(g)' <=> Fired(g)
  BY FiredKept
<1>3. TypeOK'
  BY <1>2, TxAssumption
  DEF IInv, TypeOK, PcSteps, Calls, CPUs, Mails, CheckFire, Goto, Grp, Group, regVars,
      intVars, rxVars, histVars, Check, DropBkl
<1>4. irq' \subseteq {<<g, Dest[g]>> : g \in Groups}
  BY <1>2, TxAssumption
  DEF IInv, CheckFire, Goto, Grp, Group, regVars, intVars, rxVars, histVars, Check,
      DropBkl
<1>5. ASSUME NEW u \in Threads PROVE Held(u)'
  BY <1>2, TxAssumption
  DEF IInv, TypeOK, Held, LockedSteps, CheckFire, Goto, Grp, Group, regVars, intVars,
      rxVars, histVars, Check, DropBkl
<1>6. ASSUME NEW u \in Threads PROVE Sends(u)'
  BY <1>2, TxAssumption
  DEF IInv, TypeOK, Sends, CheckFire, Goto, Grp, Group, regVars, intVars, rxVars,
      histVars, Check, DropBkl
<1>7. ASSUME NEW u \in Threads PROVE Fills(u)'
  BY <1>2, TxAssumption
  DEF IInv, TypeOK, Fills, Filled, CheckFire, Goto, Grp, Group, regVars, intVars, rxVars,
      histVars, Check, DropBkl
<1>8. ASSUME NEW u \in Threads PROVE Prepares(u)'
  BY <1>fired, <1>2, TxAssumption
  DEF IInv, TypeOK, Prepares, CheckFire, Goto, Grp, Group, regVars, intVars, rxVars,
      histVars, Check, DropBkl
<1>9. ASSUME NEW u \in Threads PROVE Raises(u)'
  BY <1>fired, <1>2, TxAssumption
  DEF IInv, TypeOK, Raises, CheckFire, Goto, Grp, Group, regVars, intVars, rxVars,
      histVars, Check, DropBkl
<1>10. ASSUME NEW u \in Threads PROVE Pulses(u)'
  BY <1>2, TxAssumption
  DEF IInv, TypeOK, Pulses, CheckFire, Goto, Grp, Group, regVars, intVars, rxVars,
      histVars, Check, DropBkl
<1>11. ASSUME NEW u \in Threads PROVE Fresh(u)'
  BY <1>fired, <1>2, TxAssumption
  DEF IInv, TypeOK, Fresh, LockedSteps, CheckFire, Goto, Grp, Group, regVars, intVars,
      rxVars, histVars, Check, DropBkl
<1>12. ASSUME NEW g \in Groups PROVE LineLow(g)'
  BY <1>2, TxAssumption
  DEF IInv, TypeOK, LineLow, CheckFire, Goto, Grp, Group, regVars, intVars, rxVars,
      histVars, Check, DropBkl
<1>13. ASSUME NEW g \in Groups PROVE Whole(g)'
  BY <1>fired, <1>2, TxAssumption
  DEF IInv, TypeOK, Whole, CheckFire, Goto, Grp, Group, regVars, intVars, rxVars,
      histVars, Check, DropBkl
<1>14. ASSUME NEW g \in Groups PROVE Stage(g)'
  BY <1>fired, <1>2, TxAssumption
  DEF IInv, TypeOK, Stage, Latched, Stuck, CheckFire, Goto, Grp, Group, regVars, intVars,
      rxVars, histVars, Check, DropBkl, Raising
<1>15. Later'
  BY <1>2, TxAssumption
  DEF IInv, TypeOK, Later, CheckFire, Goto, Grp, Group, regVars, intVars, rxVars,
      histVars, Check, DropBkl
<1>16. TwoMails'
  BY <1>fired, <1>2, TxAssumption
  DEF IInv, TypeOK, TwoMails, Groups, CheckFire, Goto, Grp, Group, regVars, intVars,
      rxVars, histVars, Check, DropBkl
<1>17. Overflows'
  BY <1>2, TxAssumption
  DEF IInv, TypeOK, Overflows, Stuck, Echo, CheckFire, Goto, Grp, Group, regVars, intVars, rxVars,
      histVars, Check, DropBkl
<1>18. Kept'
  BY <1>fired, <1>2, TxAssumption
  DEF IInv, TypeOK, Kept, CheckFire, Goto, Grp, Group, regVars, intVars, rxVars,
      histVars, Check, DropBkl
<1>19. TakenIntact'
  BY <1>2, TxAssumption
  DEF IInv, TypeOK, TakenIntact, CheckFire, Goto, Grp, Group, regVars, intVars, rxVars,
      histVars, Check, DropBkl
<1> QED
  BY <1>3, <1>4, <1>5, <1>6, <1>7, <1>8, <1>9, <1>10, <1>11, <1>12, <1>13, <1>14,
      <1>15, <1>16, <1>17, <1>18, <1>19
  DEF IInv

LEMMA CheckBusyStep ==
  ASSUME IoctlsOnly, IInv, NEW t \in Threads, CheckBusy(t)
  PROVE  IInv'
<1>1. Runs(t)
  BY DEF CheckBusy, Check, Goto
<1>2. /\ \A u \in Threads : u # t => pc[u] = "user" /\ bkl # u /\ lock # u
      /\ \A g \in Groups : Raising(g) <=> pc[t] \in {"setR", "setW"} /\ Grp(t) = g
  BY <1>1, Alone
<1>fired. \A g \in Groups : Fired(g)' <=> Fired(g)
  BY FiredKept
<1>3. TypeOK'
  BY <1>2, TxAssumption
  DEF IInv, TypeOK, PcSteps, Calls, CPUs, Mails, CheckBusy, Goto, Grp, Group, regVars,
      intVars, rxVars, histVars, Check, DropBkl
<1>4. irq' \subseteq {<<g, Dest[g]>> : g \in Groups}
  BY <1>2, TxAssumption
  DEF IInv, CheckBusy, Goto, Grp, Group, regVars, intVars, rxVars, histVars, Check,
      DropBkl
<1>5. ASSUME NEW u \in Threads PROVE Held(u)'
  BY <1>2, TxAssumption
  DEF IInv, TypeOK, Held, LockedSteps, CheckBusy, Goto, Grp, Group, regVars, intVars,
      rxVars, histVars, Check, DropBkl
<1>6. ASSUME NEW u \in Threads PROVE Sends(u)'
  BY <1>2, TxAssumption
  DEF IInv, TypeOK, Sends, CheckBusy, Goto, Grp, Group, regVars, intVars, rxVars,
      histVars, Check, DropBkl
<1>7. ASSUME NEW u \in Threads PROVE Fills(u)'
  BY <1>2, TxAssumption
  DEF IInv, TypeOK, Fills, Filled, CheckBusy, Goto, Grp, Group, regVars, intVars, rxVars,
      histVars, Check, DropBkl
<1>8. ASSUME NEW u \in Threads PROVE Prepares(u)'
  BY <1>fired, <1>2, TxAssumption
  DEF IInv, TypeOK, Prepares, CheckBusy, Goto, Grp, Group, regVars, intVars, rxVars,
      histVars, Check, DropBkl
<1>9. ASSUME NEW u \in Threads PROVE Raises(u)'
  BY <1>fired, <1>2, TxAssumption
  DEF IInv, TypeOK, Raises, CheckBusy, Goto, Grp, Group, regVars, intVars, rxVars,
      histVars, Check, DropBkl
<1>10. ASSUME NEW u \in Threads PROVE Pulses(u)'
  BY <1>2, TxAssumption
  DEF IInv, TypeOK, Pulses, CheckBusy, Goto, Grp, Group, regVars, intVars, rxVars,
      histVars, Check, DropBkl
<1>11. ASSUME NEW u \in Threads PROVE Fresh(u)'
  BY <1>fired, <1>2, TxAssumption
  DEF IInv, TypeOK, Fresh, LockedSteps, CheckBusy, Goto, Grp, Group, regVars, intVars,
      rxVars, histVars, Check, DropBkl
<1>12. ASSUME NEW g \in Groups PROVE LineLow(g)'
  BY <1>2, TxAssumption
  DEF IInv, TypeOK, LineLow, CheckBusy, Goto, Grp, Group, regVars, intVars, rxVars,
      histVars, Check, DropBkl
<1>13. ASSUME NEW g \in Groups PROVE Whole(g)'
  BY <1>fired, <1>2, TxAssumption
  DEF IInv, TypeOK, Whole, CheckBusy, Goto, Grp, Group, regVars, intVars, rxVars,
      histVars, Check, DropBkl
<1>14. ASSUME NEW g \in Groups PROVE Stage(g)'
  BY <1>fired, <1>2, TxAssumption
  DEF IInv, TypeOK, Stage, Latched, Stuck, CheckBusy, Goto, Grp, Group, regVars, intVars,
      rxVars, histVars, Check, DropBkl, Raising
<1>15. Later'
  BY <1>2, TxAssumption
  DEF IInv, TypeOK, Later, CheckBusy, Goto, Grp, Group, regVars, intVars, rxVars,
      histVars, Check, DropBkl
<1>16. TwoMails'
  BY <1>fired, <1>2, TxAssumption
  DEF IInv, TypeOK, TwoMails, Groups, CheckBusy, Goto, Grp, Group, regVars, intVars,
      rxVars, histVars, Check, DropBkl
<1>17. Overflows'
  BY <1>2, TxAssumption
  DEF IInv, TypeOK, Overflows, Stuck, Echo, CheckBusy, Goto, Grp, Group, regVars, intVars, rxVars,
      histVars, Check, DropBkl
<1>18. Kept'
  BY <1>fired, <1>2, TxAssumption
  DEF IInv, TypeOK, Kept, CheckBusy, Goto, Grp, Group, regVars, intVars, rxVars,
      histVars, Check, DropBkl
<1>19. TakenIntact'
  BY <1>2, TxAssumption
  DEF IInv, TypeOK, TakenIntact, CheckBusy, Goto, Grp, Group, regVars, intVars, rxVars,
      histVars, Check, DropBkl
<1> QED
  BY <1>3, <1>4, <1>5, <1>6, <1>7, <1>8, <1>9, <1>10, <1>11, <1>12, <1>13, <1>14,
      <1>15, <1>16, <1>17, <1>18, <1>19
  DEF IInv

LEMMA CheckOverflowStep ==
  ASSUME IoctlsOnly, IInv, NEW t \in Threads, CheckOverflow(t)
  PROVE  IInv'
<1>1. Runs(t)
  BY DEF CheckOverflow, Check, Goto
<1>2. /\ \A u \in Threads : u # t => pc[u] = "user" /\ bkl # u /\ lock # u
      /\ \A g \in Groups : Raising(g) <=> pc[t] \in {"setR", "setW"} /\ Grp(t) = g
  BY <1>1, Alone
<1>fired. \A g \in Groups : Fired(g)' <=> Fired(g)
  BY FiredKept
<1>3. TypeOK'
  BY <1>2, TxAssumption
  DEF IInv, TypeOK, PcSteps, Calls, CPUs, Mails, CheckOverflow, Goto, Grp, Group,
      regVars, intVars, rxVars, histVars, Check, DropBkl
<1>4. irq' \subseteq {<<g, Dest[g]>> : g \in Groups}
  BY <1>2, TxAssumption
  DEF IInv, CheckOverflow, Goto, Grp, Group, regVars, intVars, rxVars, histVars, Check,
      DropBkl
<1>5. ASSUME NEW u \in Threads PROVE Held(u)'
  BY <1>2, TxAssumption
  DEF IInv, TypeOK, Held, LockedSteps, CheckOverflow, Goto, Grp, Group, regVars, intVars,
      rxVars, histVars, Check, DropBkl
<1>6. ASSUME NEW u \in Threads PROVE Sends(u)'
  BY <1>2, TxAssumption
  DEF IInv, TypeOK, Sends, CheckOverflow, Goto, Grp, Group, regVars, intVars, rxVars,
      histVars, Check, DropBkl
<1>7. ASSUME NEW u \in Threads PROVE Fills(u)'
  BY <1>2, TxAssumption
  DEF IInv, TypeOK, Fills, Filled, CheckOverflow, Goto, Grp, Group, regVars, intVars,
      rxVars, histVars, Check, DropBkl
<1>8. ASSUME NEW u \in Threads PROVE Prepares(u)'
  BY <1>fired, <1>2, TxAssumption
  DEF IInv, TypeOK, Prepares, CheckOverflow, Goto, Grp, Group, regVars, intVars, rxVars,
      histVars, Check, DropBkl
<1>9. ASSUME NEW u \in Threads PROVE Raises(u)'
  BY <1>fired, <1>2, TxAssumption
  DEF IInv, TypeOK, Raises, CheckOverflow, Goto, Grp, Group, regVars, intVars, rxVars,
      histVars, Check, DropBkl
<1>10. ASSUME NEW u \in Threads PROVE Pulses(u)'
  BY <1>2, TxAssumption
  DEF IInv, TypeOK, Pulses, CheckOverflow, Goto, Grp, Group, regVars, intVars, rxVars,
      histVars, Check, DropBkl
<1>11. ASSUME NEW u \in Threads PROVE Fresh(u)'
  BY <1>fired, <1>2, TxAssumption
  DEF IInv, TypeOK, Fresh, LockedSteps, CheckOverflow, Goto, Grp, Group, regVars,
      intVars, rxVars, histVars, Check, DropBkl
<1>12. ASSUME NEW g \in Groups PROVE LineLow(g)'
  BY <1>2, TxAssumption
  DEF IInv, TypeOK, LineLow, CheckOverflow, Goto, Grp, Group, regVars, intVars, rxVars,
      histVars, Check, DropBkl
<1>13. ASSUME NEW g \in Groups PROVE Whole(g)'
  BY <1>fired, <1>2, TxAssumption
  DEF IInv, TypeOK, Whole, CheckOverflow, Goto, Grp, Group, regVars, intVars, rxVars,
      histVars, Check, DropBkl
<1>14. ASSUME NEW g \in Groups PROVE Stage(g)'
  BY <1>fired, <1>2, TxAssumption
  DEF IInv, TypeOK, Stage, Latched, Stuck, CheckOverflow, Goto, Grp, Group, regVars,
      intVars, rxVars, histVars, Check, DropBkl, Raising
<1>15. Later'
  BY <1>2, TxAssumption
  DEF IInv, TypeOK, Later, CheckOverflow, Goto, Grp, Group, regVars, intVars, rxVars,
      histVars, Check, DropBkl
<1>16. TwoMails'
  BY <1>fired, <1>2, TxAssumption
  DEF IInv, TypeOK, TwoMails, Groups, CheckOverflow, Goto, Grp, Group, regVars, intVars,
      rxVars, histVars, Check, DropBkl
<1>17. Overflows'
  BY <1>2, TxAssumption
  DEF IInv, TypeOK, Overflows, Stuck, Echo, CheckOverflow, Goto, Grp, Group, regVars, intVars, rxVars,
      histVars, Check, DropBkl
<1>18. Kept'
  BY <1>fired, <1>2, TxAssumption
  DEF IInv, TypeOK, Kept, CheckOverflow, Goto, Grp, Group, regVars, intVars, rxVars,
      histVars, Check, DropBkl
<1>19. TakenIntact'
  BY <1>2, TxAssumption
  DEF IInv, TypeOK, TakenIntact, CheckOverflow, Goto, Grp, Group, regVars, intVars,
      rxVars, histVars, Check, DropBkl
<1> QED
  BY <1>3, <1>4, <1>5, <1>6, <1>7, <1>8, <1>9, <1>10, <1>11, <1>12, <1>13, <1>14,
      <1>15, <1>16, <1>17, <1>18, <1>19
  DEF IInv

LEMMA ClearStatusStep ==
  ASSUME IoctlsOnly, IInv, NEW t \in Threads, ClearStatus(t)
  PROVE  IInv'
<1>1. Runs(t)
  BY DEF ClearStatus, Goto
<1>2. /\ \A u \in Threads : u # t => pc[u] = "user" /\ bkl # u /\ lock # u
      /\ \A g \in Groups : Raising(g) <=> pc[t] \in {"setR", "setW"} /\ Grp(t) = g
  BY <1>1, Alone
<1>fired. \A g \in Groups : Fired(g)' <=> Fired(g)
  BY FiredKept
<1>3. TypeOK'
  <2>1. 1 \in 1 .. NWords
    BY TxAssumption
  <2>2. /\ busy' \in [Groups -> BOOLEAN] /\ ovf' \in [Groups -> BOOLEAN]
        /\ idx' \in [Threads -> 1 .. NWords] /\ pc' \in [Threads -> PcSteps]
    BY <2>1 DEF IInv, TypeOK, ClearStatus, Goto, PcSteps
  <2> QED
    BY <2>2 DEF IInv, TypeOK, ClearStatus, intVars, rxVars, histVars
<1>4. irq' \subseteq {<<g, Dest[g]>> : g \in Groups}
  BY <1>2, TxAssumption
  DEF IInv, ClearStatus, Goto, Grp, Group, intVars, rxVars, histVars
<1>5. ASSUME NEW u \in Threads PROVE Held(u)'
  BY <1>2, TxAssumption
  DEF IInv, TypeOK, Held, LockedSteps, ClearStatus, Goto, Grp, Group, intVars, rxVars,
      histVars
<1>6. ASSUME NEW u \in Threads PROVE Sends(u)'
  BY <1>2, TxAssumption
  DEF IInv, TypeOK, Sends, ClearStatus, Goto, Grp, Group, intVars, rxVars, histVars
<1>7. ASSUME NEW u \in Threads PROVE Fills(u)'
  BY <1>2, TxAssumption
  DEF IInv, TypeOK, Fills, Filled, ClearStatus, Goto, Grp, Group, intVars, rxVars,
      histVars
<1>8. ASSUME NEW u \in Threads PROVE Prepares(u)'
  BY <1>fired, <1>2, TxAssumption
  DEF IInv, TypeOK, Prepares, ClearStatus, Goto, Grp, Group, intVars, rxVars, histVars
<1>9. ASSUME NEW u \in Threads PROVE Raises(u)'
  BY <1>fired, <1>2, TxAssumption
  DEF IInv, TypeOK, Raises, ClearStatus, Goto, Grp, Group, intVars, rxVars, histVars
<1>10. ASSUME NEW u \in Threads PROVE Pulses(u)'
  BY <1>2, TxAssumption
  DEF IInv, TypeOK, Pulses, ClearStatus, Goto, Grp, Group, intVars, rxVars, histVars
<1>11. ASSUME NEW u \in Threads PROVE Fresh(u)'
  BY <1>fired, <1>2, TxAssumption
  DEF IInv, TypeOK, Fresh, LockedSteps, ClearStatus, Goto, Grp, Group, intVars, rxVars,
      histVars
<1>12. ASSUME NEW g \in Groups PROVE LineLow(g)'
  BY <1>2, TxAssumption
  DEF IInv, TypeOK, LineLow, ClearStatus, Goto, Grp, Group, intVars, rxVars, histVars
<1>13. ASSUME NEW g \in Groups PROVE Whole(g)'
  BY <1>fired, <1>2, TxAssumption
  DEF IInv, TypeOK, Whole, ClearStatus, Goto, Grp, Group, intVars, rxVars, histVars
<1>14. ASSUME NEW g \in Groups PROVE Stage(g)'
  BY <1>fired, <1>2, TxAssumption
  DEF IInv, TypeOK, Stage, Latched, Stuck, ClearStatus, Goto, Grp, Group, intVars,
      rxVars, histVars, Raising
<1>15. Later'
  BY <1>2, TxAssumption
  DEF IInv, TypeOK, Later, ClearStatus, Goto, Grp, Group, intVars, rxVars, histVars
<1>16. TwoMails'
  BY <1>fired, <1>2, TxAssumption
  DEF IInv, TypeOK, TwoMails, Groups, ClearStatus, Goto, Grp, Group, intVars, rxVars,
      histVars
<1>17. Overflows'
  BY <1>2, TxAssumption
  DEF IInv, TypeOK, Overflows, Stuck, Echo, ClearStatus, Goto, Grp, Group, intVars, rxVars, histVars
<1>18. Kept'
  BY <1>fired, <1>2, TxAssumption
  DEF IInv, TypeOK, Kept, ClearStatus, Goto, Grp, Group, intVars, rxVars, histVars
<1>19. TakenIntact'
  BY <1>2, TxAssumption
  DEF IInv, TypeOK, TakenIntact, ClearStatus, Goto, Grp, Group, intVars, rxVars,
      histVars
<1> QED
  BY <1>3, <1>4, <1>5, <1>6, <1>7, <1>8, <1>9, <1>10, <1>11, <1>12, <1>13, <1>14,
      <1>15, <1>16, <1>17, <1>18, <1>19
  DEF IInv

LEMMA FillWordStep ==
  ASSUME IoctlsOnly, IInv, NEW t \in Threads, FillWord(t)
  PROVE  IInv'
<1>1. Runs(t)
  BY DEF FillWord, Goto
<1>2. /\ \A u \in Threads : u # t => pc[u] = "user" /\ bkl # u /\ lock # u
      /\ \A g \in Groups : Raising(g) <=> pc[t] \in {"setR", "setW"} /\ Grp(t) = g
  BY <1>1, Alone
<1>3. /\ pc[t] = "fill" /\ ~Fired(Grp(t)) /\ Grp(t) \in Groups /\ mail[t] \in 1 .. fires
      /\ idx[t] \in 1 .. NWords /\ fires \in 0 .. MaxFires
  <2>1. pc[t] = "fill"
    BY DEF FillWord, Goto
  <2> QED
    BY <2>1, DstIs, NotFired DEF IInv, TypeOK, Sends, FillSteps
<1>4. /\ fire' \in [Groups -> BOOLEAN] /\ busy' \in [Groups -> BOOLEAN]
      /\ ovf' \in [Groups -> BOOLEAN]
      /\ \A g \in Groups : g # Grp(t) => fire'[g] = fire[g] /\ ovf'[g] = ovf[g]
      /\ idx[t] = NWords => (ovf'[Grp(t)] <=> "OVERFLOW" \in Raw[mail[t]])
      /\ idx[t] # NWords => ovf' = ovf
  <2>1. fire \in [Groups -> BOOLEAN] /\ busy \in [Groups -> BOOLEAN] /\ ovf \in [Groups -> BOOLEAN]
    BY DEF IInv, TypeOK
  <2>2. /\ fire' = Written(fire, t, "FIRE", idx[t], 1)
        /\ busy' = Written(busy, t, "BUSY", idx[t], NWords)
        /\ ovf'  = Written(ovf, t, "OVERFLOW", idx[t], NWords)
    BY DEF FillWord
  <2> QED
    BY <1>3, <2>1, <2>2, WrittenBit
<1>fired. \A g \in Groups : Fired(g)' <=> Fired(g)
  BY FiredKept
<1>5. /\ words' \in [Groups -> [1 .. NWords -> 0 .. MaxFires]]
      /\ \A g \in Groups : g # Grp(t) => words'[g] = words[g]
      /\ \A i \in 1 .. NWords :
           words'[Grp(t)][i] = IF i = idx[t] THEN mail[t] ELSE words[Grp(t)][i]
  BY <1>3, TxAssumption DEF IInv, TypeOK, FillWord
<1>6. \A g \in Groups : Fired(g) => words'[g] = words[g]
  BY <1>3, <1>5
<1>7. TypeOK'
  <2>2. idx' \in [Threads -> 1 .. NWords]
    <3>1. (IF idx[t] = NWords THEN 1 ELSE idx[t] + 1) \in 1 .. NWords
      BY <1>3, TxAssumption
    <3> QED
      BY <3>1 DEF IInv, TypeOK, FillWord
  <2>3. pc' \in [Threads -> PcSteps]
    BY DEF IInv, TypeOK, FillWord, Goto, PcSteps
  <2> QED
    BY <1>4, <1>5, <2>2, <2>3
    DEF IInv, TypeOK, FillWord, intVars, rxVars, histVars
<1>8. irq' \subseteq {<<g, Dest[g]>> : g \in Groups}
  BY <1>2, TxAssumption, <1>3, <1>4, <1>5, <1>6
  DEF IInv, FillWord, Goto, Grp, Group, intVars, rxVars, histVars
<1>9. ASSUME NEW u \in Threads PROVE Held(u)'
  BY <1>2, TxAssumption, <1>3, <1>4, <1>5, <1>6
  DEF IInv, TypeOK, Held, LockedSteps, FillWord, Goto, Grp, Group, intVars, rxVars,
      histVars
<1>10. ASSUME NEW u \in Threads PROVE Sends(u)'
  BY <1>2, TxAssumption, <1>3, <1>4, <1>5, <1>6
  DEF IInv, TypeOK, Sends, FillWord, Goto, Grp, Group, intVars, rxVars, histVars
<1>11. ASSUME NEW u \in Threads PROVE Fills(u)'
  <2>1. CASE u # t
    BY <2>1, <1>2 DEF IInv, TypeOK, FillWord, Goto, Fills, Filled
  <2>2. CASE u = t
    <3>1. /\ mail' = mail /\ Grp(t)' = Grp(t)
          /\ idx'[t] = IF idx[t] = NWords THEN 1 ELSE idx[t] + 1
          /\ pc'[t] = IF idx[t] = NWords THEN "unlock" ELSE "fill"
      BY DEF IInv, TypeOK, FillWord, Goto, Grp
    <3>2. \A i \in 1 .. NWords : i <= idx[t] => words'[Grp(t)][i] = mail[t]
      <4>1. \A i \in 1 .. NWords : i < idx[t] => words[Grp(t)][i] = mail[t]
        BY <1>3 DEF IInv, Fills
      <4>2. \A i \in 1 .. NWords : i <= idx[t] => i < idx[t] \/ i = idx[t]
        BY <1>3, TxAssumption
      <4> QED
        BY <1>5, <4>1, <4>2
    <3>3. CASE idx[t] = NWords
      BY <2>2, <3>1, <3>2, <3>3 DEF Fills, Filled
    <3>4. CASE idx[t] # NWords
      BY <2>2, <3>1, <3>2, <3>4, <1>3 DEF Fills, Filled
    <3> QED
      BY <3>3, <3>4
  <2> QED
    BY <2>1, <2>2
<1>12. ASSUME NEW u \in Threads PROVE Prepares(u)'
  BY <1>fired, <1>2, TxAssumption, <1>3, <1>4, <1>5, <1>6
  DEF IInv, TypeOK, Prepares, FillWord, Goto, Grp, Group, intVars, rxVars, histVars
<1>13. ASSUME NEW u \in Threads PROVE Raises(u)'
  BY <1>fired, <1>2, TxAssumption, <1>3, <1>4, <1>5, <1>6
  DEF IInv, TypeOK, Raises, FillWord, Goto, Grp, Group, intVars, rxVars, histVars
<1>14. ASSUME NEW u \in Threads PROVE Pulses(u)'
  BY <1>2, TxAssumption, <1>3, <1>4, <1>5, <1>6
  DEF IInv, TypeOK, Pulses, FillWord, Goto, Grp, Group, intVars, rxVars, histVars
<1>15. ASSUME NEW u \in Threads PROVE Fresh(u)'
  BY <1>fired, <1>2, TxAssumption, <1>3, <1>4, <1>5, <1>6
  DEF IInv, TypeOK, Fresh, LockedSteps, FillWord, Goto, Grp, Group, intVars, rxVars,
      histVars
<1>16. ASSUME NEW g \in Groups PROVE LineLow(g)'
  BY <1>2, TxAssumption, <1>3, <1>4, <1>5, <1>6
  DEF IInv, TypeOK, LineLow, FillWord, Goto, Grp, Group, intVars, rxVars, histVars
<1>17. ASSUME NEW g \in Groups PROVE Whole(g)'
  BY <1>fired, <1>2, TxAssumption, <1>3, <1>4, <1>5, <1>6
  DEF IInv, TypeOK, Whole, FillWord, Goto, Grp, Group, intVars, rxVars, histVars
<1>18. ASSUME NEW g \in Groups PROVE Stage(g)'
  <2>1. Raising(g)' <=> Raising(g)
    <3>1. /\ \A u \in Threads : u # t => pc'[u] = "user"
          /\ pc[t] \notin {"setR", "setW"} /\ pc'[t] \notin {"setR", "setW"}
      BY <1>2 DEF IInv, TypeOK, FillWord, Goto
    <3> QED
      BY <3>1, <1>2, RaisingAfter
  <2>2. rx' = rx /\ irq' = irq /\ refused' = refused
    BY DEF FillWord, intVars, rxVars, histVars
  <2> QED
    BY <1>fired, <2>1, <2>2, SameStage DEF IInv, Latched
<1>19. Later'
  BY <1>2, TxAssumption, <1>3, <1>4, <1>5, <1>6
  DEF IInv, TypeOK, Later, FillWord, Goto, Grp, Group, intVars, rxVars, histVars
<1>20. TwoMails'
  BY <1>fired, <1>2, TxAssumption, <1>3, <1>4, <1>5, <1>6
  DEF IInv, TypeOK, TwoMails, Groups, FillWord, Goto, Grp, Group, intVars, rxVars,
      histVars
<1>21. Overflows'
  <2> SUFFICES ASSUME NEW g \in Groups, ovf'[g], ~Stuck(g)'
               PROVE  Echo(g)'
    BY DEF Overflows
  <2>1. (ovf[g] => Echo(g)) /\ NWords \in 1 .. NWords
    BY TxAssumption DEF IInv, Overflows, Stuck, Echo, Stuck, FillWord, histVars
  <2>2. CASE g # Grp(t)
    BY <1>4, <1>5, <2>1, <2>2 DEF Echo
  <2>3. CASE g = Grp(t) /\ idx[t] # NWords
    <3>1. ovf'[g] = ovf[g] /\ words'[g][NWords] = words[g][NWords]
      BY <1>3, <1>4, <1>5, <2>1, <2>3
    <3> QED
      BY <2>1, <3>1 DEF Echo
  <2>4. CASE g = Grp(t) /\ idx[t] = NWords
    <3>1. "OVERFLOW" \in Raw[mail[t]] /\ words'[g][NWords] = mail[t]
      BY <1>3, <1>4, <1>5, <2>1, <2>4
    <3> QED
      BY <1>3, <3>1, MadeIsMail DEF IInv, Echo
  <2> QED
    BY <2>2, <2>3, <2>4
<1>22. Kept'
  BY <1>fired, <1>2, TxAssumption, <1>3, <1>4, <1>5, <1>6
  DEF IInv, TypeOK, Kept, FillWord, Goto, Grp, Group, intVars, rxVars, histVars
<1>23. TakenIntact'
  BY <1>2, TxAssumption, <1>3, <1>4, <1>5, <1>6
  DEF IInv, TypeOK, TakenIntact, FillWord, Goto, Grp, Group, intVars, rxVars, histVars
<1> QED
  BY <1>7, <1>8, <1>9, <1>10, <1>11, <1>12, <1>13, <1>14, <1>15, <1>16, <1>17, <1>18,
      <1>19, <1>20, <1>21, <1>22, <1>23
  DEF IInv

LEMMA SpinUnlockStep ==
  ASSUME IoctlsOnly, IInv, NEW t \in Threads, SpinUnlock(t)
  PROVE  IInv'
<1>1. Runs(t)
  BY DEF SpinUnlock, Goto
<1>2. /\ \A u \in Threads : u # t => pc[u] = "user" /\ bkl # u /\ lock # u
      /\ \A g \in Groups : Raising(g) <=> pc[t] \in {"setR", "setW"} /\ Grp(t) = g
  BY <1>1, Alone
<1>fired. \A g \in Groups : Fired(g)' <=> Fired(g)
  BY FiredKept
<1>3. TypeOK'
  BY <1>2, TxAssumption
  DEF IInv, TypeOK, PcSteps, Calls, CPUs, Mails, SpinUnlock, Goto, Grp, Group, regVars,
      intVars, rxVars, histVars
<1>4. irq' \subseteq {<<g, Dest[g]>> : g \in Groups}
  BY <1>2, TxAssumption
  DEF IInv, SpinUnlock, Goto, Grp, Group, regVars, intVars, rxVars, histVars
<1>5. ASSUME NEW u \in Threads PROVE Held(u)'
  BY <1>2, TxAssumption
  DEF IInv, TypeOK, Held, LockedSteps, SpinUnlock, Goto, Grp, Group, regVars, intVars,
      rxVars, histVars
<1>6. ASSUME NEW u \in Threads PROVE Sends(u)'
  BY <1>2, TxAssumption
  DEF IInv, TypeOK, Sends, SpinUnlock, Goto, Grp, Group, regVars, intVars, rxVars,
      histVars
<1>7. ASSUME NEW u \in Threads PROVE Fills(u)'
  BY <1>2, TxAssumption
  DEF IInv, TypeOK, Fills, Filled, SpinUnlock, Goto, Grp, Group, regVars, intVars,
      rxVars, histVars
<1>8. ASSUME NEW u \in Threads PROVE Prepares(u)'
  BY <1>fired, <1>2, TxAssumption
  DEF IInv, TypeOK, Prepares, SpinUnlock, Goto, Grp, Group, regVars, intVars, rxVars,
      histVars
<1>9. ASSUME NEW u \in Threads PROVE Raises(u)'
  BY <1>fired, <1>2, TxAssumption
  DEF IInv, TypeOK, Raises, SpinUnlock, Goto, Grp, Group, regVars, intVars, rxVars,
      histVars
<1>10. ASSUME NEW u \in Threads PROVE Pulses(u)'
  BY <1>2, TxAssumption
  DEF IInv, TypeOK, Pulses, SpinUnlock, Goto, Grp, Group, regVars, intVars, rxVars,
      histVars
<1>11. ASSUME NEW u \in Threads PROVE Fresh(u)'
  BY <1>fired, <1>2, TxAssumption
  DEF IInv, TypeOK, Fresh, LockedSteps, SpinUnlock, Goto, Grp, Group, regVars, intVars,
      rxVars, histVars
<1>12. ASSUME NEW g \in Groups PROVE LineLow(g)'
  BY <1>2, TxAssumption
  DEF IInv, TypeOK, LineLow, SpinUnlock, Goto, Grp, Group, regVars, intVars, rxVars,
      histVars
<1>13. ASSUME NEW g \in Groups PROVE Whole(g)'
  BY <1>fired, <1>2, TxAssumption
  DEF IInv, TypeOK, Whole, SpinUnlock, Goto, Grp, Group, regVars, intVars, rxVars,
      histVars
<1>14. ASSUME NEW g \in Groups PROVE Stage(g)'
  BY <1>fired, <1>2, TxAssumption
  DEF IInv, TypeOK, Stage, Latched, Stuck, SpinUnlock, Goto, Grp, Group, regVars,
      intVars, rxVars, histVars, Raising
<1>15. Later'
  BY <1>2, TxAssumption
  DEF IInv, TypeOK, Later, SpinUnlock, Goto, Grp, Group, regVars, intVars, rxVars,
      histVars
<1>16. TwoMails'
  BY <1>fired, <1>2, TxAssumption
  DEF IInv, TypeOK, TwoMails, Groups, SpinUnlock, Goto, Grp, Group, regVars, intVars,
      rxVars, histVars
<1>17. Overflows'
  BY <1>2, TxAssumption
  DEF IInv, TypeOK, Overflows, Stuck, Echo, SpinUnlock, Goto, Grp, Group, regVars, intVars, rxVars,
      histVars
<1>18. Kept'
  BY <1>fired, <1>2, TxAssumption
  DEF IInv, TypeOK, Kept, SpinUnlock, Goto, Grp, Group, regVars, intVars, rxVars,
      histVars
<1>19. TakenIntact'
  BY <1>2, TxAssumption
  DEF IInv, TypeOK, TakenIntact, SpinUnlock, Goto, Grp, Group, regVars, intVars, rxVars,
      histVars
<1> QED
  BY <1>3, <1>4, <1>5, <1>6, <1>7, <1>8, <1>9, <1>10, <1>11, <1>12, <1>13, <1>14,
      <1>15, <1>16, <1>17, <1>18, <1>19
  DEF IInv

LEMMA FireReadStep ==
  ASSUME IoctlsOnly, IInv, NEW t \in Threads, FireRead(t)
  PROVE  IInv'
<1>1. Runs(t)
  BY DEF FireRead, Goto
<1>2. /\ \A u \in Threads : u # t => pc[u] = "user" /\ bkl # u /\ lock # u
      /\ \A g \in Groups : Raising(g) <=> pc[t] \in {"setR", "setW"} /\ Grp(t) = g
  BY <1>1, Alone
<1>fired. \A g \in Groups : Fired(g)' <=> Fired(g)
  BY FiredKept
<1>3. TypeOK'
  <2>1. words[Grp(t)][1] \in 0 .. MaxFires
    <3>1. Grp(t) \in Groups /\ 1 \in 1 .. NWords
      BY TxAssumption, DstIs DEF IInv
    <3>2. words \in [Groups -> [1 .. NWords -> 0 .. MaxFires]]
      BY DEF IInv, TypeOK
    <3> QED
      BY <3>1, <3>2
  <2>2. val' \in [Threads -> 0 .. MaxFires]
    BY <2>1 DEF IInv, TypeOK, FireRead
  <2>3. pc' \in [Threads -> PcSteps]
    BY DEF IInv, TypeOK, FireRead, Goto, PcSteps
  <2> QED
    BY <2>2, <2>3 DEF IInv, TypeOK, FireRead, regVars, intVars, rxVars, histVars
<1>4. irq' \subseteq {<<g, Dest[g]>> : g \in Groups}
  BY <1>2, TxAssumption
  DEF IInv, FireRead, Goto, Grp, Group, regVars, intVars, rxVars, histVars
<1>5. ASSUME NEW u \in Threads PROVE Held(u)'
  BY <1>2, TxAssumption
  DEF IInv, TypeOK, Held, LockedSteps, FireRead, Goto, Grp, Group, regVars, intVars,
      rxVars, histVars
<1>6. ASSUME NEW u \in Threads PROVE Sends(u)'
  BY <1>2, TxAssumption
  DEF IInv, TypeOK, Sends, FireRead, Goto, Grp, Group, regVars, intVars, rxVars,
      histVars
<1>7. ASSUME NEW u \in Threads PROVE Fills(u)'
  BY <1>2, TxAssumption
  DEF IInv, TypeOK, Fills, Filled, FireRead, Goto, Grp, Group, regVars, intVars, rxVars,
      histVars
<1>8. ASSUME NEW u \in Threads PROVE Prepares(u)'
  BY <1>fired, <1>2, TxAssumption
  DEF IInv, TypeOK, Prepares, FireRead, Goto, Grp, Group, regVars, intVars, rxVars,
      histVars
<1>9. ASSUME NEW u \in Threads PROVE Raises(u)'
  BY <1>fired, <1>2, TxAssumption
  DEF IInv, TypeOK, Raises, FireRead, Goto, Grp, Group, regVars, intVars, rxVars,
      histVars
<1>10. ASSUME NEW u \in Threads PROVE Pulses(u)'
  BY <1>2, TxAssumption
  DEF IInv, TypeOK, Pulses, FireRead, Goto, Grp, Group, regVars, intVars, rxVars,
      histVars
<1>11. ASSUME NEW u \in Threads PROVE Fresh(u)'
  BY <1>fired, <1>2, TxAssumption
  DEF IInv, TypeOK, Fresh, LockedSteps, FireRead, Goto, Grp, Group, regVars, intVars,
      rxVars, histVars
<1>12. ASSUME NEW g \in Groups PROVE LineLow(g)'
  BY <1>2, TxAssumption
  DEF IInv, TypeOK, LineLow, FireRead, Goto, Grp, Group, regVars, intVars, rxVars,
      histVars
<1>13. ASSUME NEW g \in Groups PROVE Whole(g)'
  BY <1>fired, <1>2, TxAssumption
  DEF IInv, TypeOK, Whole, FireRead, Goto, Grp, Group, regVars, intVars, rxVars,
      histVars
<1>14. ASSUME NEW g \in Groups PROVE Stage(g)'
  BY <1>fired, <1>2, TxAssumption
  DEF IInv, TypeOK, Stage, Latched, Stuck, FireRead, Goto, Grp, Group, regVars, intVars,
      rxVars, histVars, Raising
<1>15. Later'
  BY <1>2, TxAssumption
  DEF IInv, TypeOK, Later, FireRead, Goto, Grp, Group, regVars, intVars, rxVars,
      histVars
<1>16. TwoMails'
  BY <1>fired, <1>2, TxAssumption
  DEF IInv, TypeOK, TwoMails, Groups, FireRead, Goto, Grp, Group, regVars, intVars,
      rxVars, histVars
<1>17. Overflows'
  BY <1>2, TxAssumption
  DEF IInv, TypeOK, Overflows, Stuck, Echo, FireRead, Goto, Grp, Group, regVars, intVars, rxVars,
      histVars
<1>18. Kept'
  BY <1>fired, <1>2, TxAssumption
  DEF IInv, TypeOK, Kept, FireRead, Goto, Grp, Group, regVars, intVars, rxVars, histVars
<1>19. TakenIntact'
  BY <1>2, TxAssumption
  DEF IInv, TypeOK, TakenIntact, FireRead, Goto, Grp, Group, regVars, intVars, rxVars,
      histVars
<1> QED
  BY <1>3, <1>4, <1>5, <1>6, <1>7, <1>8, <1>9, <1>10, <1>11, <1>12, <1>13, <1>14,
      <1>15, <1>16, <1>17, <1>18, <1>19
  DEF IInv

LEMMA FireWriteStep ==
  ASSUME IoctlsOnly, IInv, NEW t \in Threads, FireWrite(t)
  PROVE  IInv'
<1>1. Runs(t)
  BY DEF FireWrite, Goto
<1>2. /\ \A u \in Threads : u # t => pc[u] = "user" /\ bkl # u /\ lock # u
      /\ \A g \in Groups : Raising(g) <=> pc[t] \in {"setR", "setW"} /\ Grp(t) = g
  BY <1>1, Alone
<1>fired. \A g \in Groups : Fired(g)' <=> g = Grp(t) \/ Fired(g)
  BY FireFires
<1>3. /\ pc[t] = "fireW" /\ ~Fired(Grp(t)) /\ Grp(t) \in Groups /\ mail[t] \in 1 .. fires
      /\ 1 \in 1 .. NWords /\ \A i \in Payload : i \in 1 .. NWords
  <2>1. 1 \in 1 .. NWords /\ \A i \in Payload : i \in 1 .. NWords
    BY TxAssumption DEF Payload
  <2>2. pc[t] = "fireW"
    BY DEF FireWrite, Goto
  <2> QED
    BY <2>1, <2>2, DstIs, NotFired DEF IInv, Sends, FillSteps
<1>4. \A i \in 1 .. NWords : words[Grp(t)][i] = mail[t]
  BY <1>3 DEF IInv, Fills, Filled
<1>5. words' = words
  BY <1>3, <1>4 DEF IInv, TypeOK, FireWrite, Fills
<1>6. \A g \in Groups : fire'[g] = IF g = Grp(t) THEN TRUE ELSE fire[g]
  BY <1>3 DEF IInv, TypeOK, FireWrite
<1>7. taken[mail[t]] = 0 /\ \A g \in Groups : Fired(g) => words[g][1] # mail[t]
  BY <1>3 DEF IInv, Fresh
<1>8. rx[Grp(t)] = "idle"
  BY <1>3 DEF IInv, Stage
<1>9. TypeOK'
  <2>1. fire' \in [Groups -> BOOLEAN] /\ pc' \in [Threads -> PcSteps]
    BY DEF IInv, TypeOK, FireWrite, Goto, PcSteps
  <2> QED
    BY <1>5, <2>1 DEF IInv, TypeOK, FireWrite, intVars, rxVars, histVars
<1>10. irq' \subseteq {<<g, Dest[g]>> : g \in Groups}
  BY <1>2, TxAssumption, <1>3, <1>4, <1>5, <1>6, <1>7, <1>8
  DEF IInv, FireWrite, Goto, Grp, Group, intVars, rxVars, histVars
<1>11. ASSUME NEW u \in Threads PROVE Held(u)'
  BY <1>2, TxAssumption, <1>3, <1>4, <1>5, <1>6, <1>7, <1>8
  DEF IInv, TypeOK, Held, LockedSteps, FireWrite, Goto, Grp, Group, intVars, rxVars,
      histVars
<1>12. ASSUME NEW u \in Threads PROVE Sends(u)'
  BY <1>2, TxAssumption, <1>3, <1>4, <1>5, <1>6, <1>7, <1>8
  DEF IInv, TypeOK, Sends, FireWrite, Goto, Grp, Group, intVars, rxVars, histVars
<1>13. ASSUME NEW u \in Threads PROVE Fills(u)'
  BY <1>2, TxAssumption, <1>3, <1>4, <1>5, <1>6, <1>7, <1>8
  DEF IInv, TypeOK, Fills, Filled, FireWrite, Goto, Grp, Group, intVars, rxVars,
      histVars
<1>14. ASSUME NEW u \in Threads PROVE Prepares(u)'
  BY <1>fired, <1>2, TxAssumption, <1>3, <1>4, <1>5, <1>6, <1>7, <1>8
  DEF IInv, TypeOK, Prepares, FireWrite, Goto, Grp, Group, intVars, rxVars, histVars
<1>15. ASSUME NEW u \in Threads PROVE Raises(u)'
  BY <1>fired, <1>2, TxAssumption, <1>3, <1>4, <1>5, <1>6, <1>7, <1>8
  DEF IInv, TypeOK, Raises, FireWrite, Goto, Grp, Group, intVars, rxVars, histVars
<1>16. ASSUME NEW u \in Threads PROVE Pulses(u)'
  BY <1>2, TxAssumption, <1>3, <1>4, <1>5, <1>6, <1>7, <1>8
  DEF IInv, TypeOK, Pulses, FireWrite, Goto, Grp, Group, intVars, rxVars, histVars
<1>17. ASSUME NEW u \in Threads PROVE Fresh(u)'
  <2>1. pc'[u] # "user" => u = t /\ pc'[u] = "setR"
    BY <1>2 DEF IInv, TypeOK, FireWrite, Goto
  <2>2. mail' = mail /\ accepted' = accepted /\ (u = t => mail[u] \notin accepted)
    BY <1>3 DEF IInv, Fresh, FireWrite, histVars
  <2> QED
    BY <2>1, <2>2 DEF Fresh, LockedSteps
<1>18. ASSUME NEW g \in Groups PROVE LineLow(g)'
  BY <1>2, TxAssumption, <1>3, <1>4, <1>5, <1>6, <1>7, <1>8
  DEF IInv, TypeOK, LineLow, FireWrite, Goto, Grp, Group, intVars, rxVars, histVars
<1>19. ASSUME NEW g \in Groups PROVE Whole(g)'
  BY <1>fired, <1>2, TxAssumption, <1>3, <1>4, <1>5, <1>6, <1>7, <1>8
  DEF IInv, TypeOK, Whole, FireWrite, Goto, Grp, Group, intVars, rxVars, histVars
<1>20. ASSUME NEW g \in Groups PROVE Stage(g)'
  <2>1. Raising(g)' <=> Grp(t) = g
    <3>1. /\ \A u \in Threads : u # t => pc'[u] = "user"
          /\ pc'[t] = "setR" /\ Grp(t)' = Grp(t)
      BY <1>2 DEF IInv, TypeOK, FireWrite, Goto, Grp
    <3> QED
      BY <3>1, RaisingAfter
  <2>2. /\ rx' = rx /\ irq' = irq /\ refused' = refused /\ ~Raising(g)
    BY <1>2, <1>3 DEF FireWrite, intVars, rxVars, histVars
  <2>3. Stage(g)
    BY DEF IInv
  <2>4. CASE g = Grp(t)
    BY <1>3, <1>fired, <2>1, <2>2, <2>3, <2>4 DEF Stage, Latched, Stuck
  <2>5. CASE g # Grp(t)
    BY <1>fired, <2>1, <2>2, <2>3, <2>5, SameStage DEF Latched
  <2> QED
    BY <2>4, <2>5
<1>21. Later'
  BY <1>2, TxAssumption, <1>3, <1>4, <1>5, <1>6, <1>7, <1>8
  DEF IInv, TypeOK, Later, FireWrite, Goto, Grp, Group, intVars, rxVars, histVars
<1>22. TwoMails'
  BY <1>fired, <1>2, TxAssumption, <1>3, <1>4, <1>5, <1>6, <1>7, <1>8
  DEF IInv, TypeOK, TwoMails, Groups, FireWrite, Goto, Grp, Group, intVars, rxVars,
      histVars
<1>23. Overflows'
  BY <1>2, TxAssumption, <1>3, <1>4, <1>5, <1>6, <1>7, <1>8
  DEF IInv, TypeOK, Overflows, Stuck, Echo, FireWrite, Goto, Grp, Group, intVars, rxVars, histVars
<1>24. Kept'
  BY <1>fired, <1>2, TxAssumption, <1>3, <1>4, <1>5, <1>6, <1>7, <1>8
  DEF IInv, TypeOK, Kept, FireWrite, Goto, Grp, Group, intVars, rxVars, histVars
<1>25. TakenIntact'
  BY <1>2, TxAssumption, <1>3, <1>4, <1>5, <1>6, <1>7, <1>8
  DEF IInv, TypeOK, TakenIntact, FireWrite, Goto, Grp, Group, intVars, rxVars, histVars
<1> QED
  BY <1>9, <1>10, <1>11, <1>12, <1>13, <1>14, <1>15, <1>16, <1>17, <1>18, <1>19, <1>20,
      <1>21, <1>22, <1>23, <1>24, <1>25
  DEF IInv

LEMMA IntReadStep ==
  ASSUME IoctlsOnly, IInv, NEW t \in Threads, IntRead(t)
  PROVE  IInv'
<1>1. Runs(t)
  BY DEF IntRead, Goto
<1>2. /\ \A u \in Threads : u # t => pc[u] = "user" /\ bkl # u /\ lock # u
      /\ \A g \in Groups : Raising(g) <=> pc[t] \in {"setR", "setW"} /\ Grp(t) = g
  BY <1>1, Alone
<1>fired. \A g \in Groups : Fired(g)' <=> Fired(g)
  BY FiredKept
<1>3. /\ Grp(t) \in Groups /\ Dst(call[t]) = Dest[Grp(t)] /\ Dst(call[t]) \in CPUs
  BY DstIs DEF IInv, Dst, Sends, CPUs
<1>4. \A g \in Groups : cpuInt[g] # {} =>
        pc[t] \in {"clrR", "clrW"} /\ Grp(t) = g /\ cpuInt[g] = {Dst(call[t])}
  BY <1>1, LineIs
<1>5. \/ pc[t] = "setR" /\ pc' = [pc EXCEPT ![t] = "setW"]
      \/ pc[t] = "clrR" /\ pc' = [pc EXCEPT ![t] = "clrW"]
  BY DEF IntRead, Goto
<1>6. /\ \A g \in Groups : Raising(g)' = Raising(g)
      /\ call' = call /\ cpuInt' = cpuInt /\ Grp(t)' = Grp(t) /\ pc'[t] \in {"setW", "clrW"}
      /\ pc'[t] = "clrW" <=> pc[t] = "clrR"
  BY <1>2, <1>5 DEF IInv, TypeOK, IntRead, Raising, Grp, intVars
<1>7. TypeOK'
  <2>1. ival' \in [Threads -> SUBSET CPUs] /\ pc' \in [Threads -> PcSteps]
    BY <1>3 DEF IInv, TypeOK, IntRead, Goto, PcSteps
  <2> QED
    BY <2>1 DEF IInv, TypeOK, IntRead, regVars, intVars, rxVars, histVars
<1>8. irq' \subseteq {<<g, Dest[g]>> : g \in Groups}
  BY <1>2, TxAssumption, <1>3, <1>4, <1>5, <1>6
  DEF IInv, IntRead, Goto, Grp, Group, regVars, intVars, rxVars, histVars
<1>9. ASSUME NEW u \in Threads PROVE Held(u)'
  BY <1>2, TxAssumption, <1>3, <1>4, <1>5, <1>6
  DEF IInv, TypeOK, Held, LockedSteps, IntRead, Goto, Grp, Group, regVars, intVars,
      rxVars, histVars
<1>10. ASSUME NEW u \in Threads PROVE Sends(u)'
  BY <1>2, TxAssumption, <1>3, <1>4, <1>5, <1>6
  DEF IInv, TypeOK, Sends, IntRead, Goto, Grp, Group, regVars, intVars, rxVars, histVars
<1>11. ASSUME NEW u \in Threads PROVE Fills(u)'
  BY <1>2, TxAssumption, <1>3, <1>4, <1>5, <1>6
  DEF IInv, TypeOK, Fills, Filled, IntRead, Goto, Grp, Group, regVars, intVars, rxVars,
      histVars
<1>12. ASSUME NEW u \in Threads PROVE Prepares(u)'
  BY <1>fired, <1>2, TxAssumption, <1>3, <1>4, <1>5, <1>6
  DEF IInv, TypeOK, Prepares, IntRead, Goto, Grp, Group, regVars, intVars, rxVars,
      histVars
<1>13. ASSUME NEW u \in Threads PROVE Raises(u)'
  BY <1>fired, <1>2, TxAssumption, <1>3, <1>4, <1>5, <1>6
  DEF IInv, TypeOK, Raises, IntRead, Goto, Grp, Group, regVars, intVars, rxVars,
      histVars
<1>14. ASSUME NEW u \in Threads PROVE Pulses(u)'
  <2>1. CASE u # t
    BY <2>1, <1>2, <1>6 DEF IInv, TypeOK, Pulses, IntRead, Goto
  <2>2. CASE u = t
    <3>1. ival'[t] = cpuInt[Grp(t)]
      BY DEF IInv, TypeOK, IntRead
    <3>2. pc'[t] = "setW" => cpuInt[Grp(t)] = {}
      BY <1>3, <1>4, <1>5, <1>6
    <3>3. cpuInt[Grp(t)] \subseteq {Dst(call[t])}
      BY <1>3, <1>4
    <3> QED
      BY <2>2, <3>1, <3>2, <3>3, <1>6 DEF Pulses
  <2> QED
    BY <2>1, <2>2
<1>15. ASSUME NEW u \in Threads PROVE Fresh(u)'
  BY <1>fired, <1>2, TxAssumption, <1>3, <1>4, <1>5, <1>6
  DEF IInv, TypeOK, Fresh, LockedSteps, IntRead, Goto, Grp, Group, regVars, intVars,
      rxVars, histVars
<1>16. ASSUME NEW g \in Groups PROVE LineLow(g)'
  <2>1. SUFFICES ASSUME cpuInt'[g] # {}
                 PROVE  pc'[t] = "clrW" /\ Grp(t)' = g /\ cpuInt'[g] = {Dst(call'[t])}
    BY DEF LineLow
  <2>2. pc[t] \in {"clrR", "clrW"} /\ Grp(t) = g /\ cpuInt[g] = {Dst(call[t])}
    BY <1>4, <1>6, <2>1
  <2> QED
    BY <2>2, <1>5, <1>6
<1>17. ASSUME NEW g \in Groups PROVE Whole(g)'
  BY <1>fired, <1>2, TxAssumption, <1>3, <1>4, <1>5, <1>6
  DEF IInv, TypeOK, Whole, IntRead, Goto, Grp, Group, regVars, intVars, rxVars, histVars
<1>18. ASSUME NEW g \in Groups PROVE Stage(g)'
  BY <1>fired, <1>6 DEF IInv, IntRead, regVars, rxVars, histVars, intVars, Stage, Latched, Stuck
<1>19. Later'
  BY <1>2, TxAssumption, <1>3, <1>4, <1>5, <1>6
  DEF IInv, TypeOK, Later, IntRead, Goto, Grp, Group, regVars, intVars, rxVars, histVars
<1>20. TwoMails'
  BY <1>fired, <1>2, TxAssumption, <1>3, <1>4, <1>5, <1>6
  DEF IInv, TypeOK, TwoMails, Groups, IntRead, Goto, Grp, Group, regVars, intVars,
      rxVars, histVars
<1>21. Overflows'
  BY <1>2, TxAssumption, <1>3, <1>4, <1>5, <1>6
  DEF IInv, TypeOK, Overflows, Stuck, Echo, IntRead, Goto, Grp, Group, regVars, intVars, rxVars,
      histVars
<1>22. Kept'
  BY <1>fired, <1>2, TxAssumption, <1>3, <1>4, <1>5, <1>6
  DEF IInv, TypeOK, Kept, IntRead, Goto, Grp, Group, regVars, intVars, rxVars, histVars
<1>23. TakenIntact'
  BY <1>2, TxAssumption, <1>3, <1>4, <1>5, <1>6
  DEF IInv, TypeOK, TakenIntact, IntRead, Goto, Grp, Group, regVars, intVars, rxVars,
      histVars
<1> QED
  BY <1>7, <1>8, <1>9, <1>10, <1>11, <1>12, <1>13, <1>14, <1>15, <1>16, <1>17, <1>18,
      <1>19, <1>20, <1>21, <1>22, <1>23
  DEF IInv

LEMMA IntSetStep ==
  ASSUME IoctlsOnly, IInv, NEW t \in Threads, IntSet(t)
  PROVE  IInv'
<1>1. Runs(t)
  BY DEF IntSet, Goto
<1>2. /\ \A u \in Threads : u # t => pc[u] = "user" /\ bkl # u /\ lock # u
      /\ \A g \in Groups : Raising(g) <=> pc[t] \in {"setR", "setW"} /\ Grp(t) = g
  BY <1>1, Alone
<1>fired. \A g \in Groups : Fired(g)' <=> Fired(g)
  BY FiredKept
<1>3. /\ Grp(t) \in Groups /\ Dst(call[t]) = Dest[Grp(t)] /\ Dst(call[t]) \in CPUs
  BY DstIs DEF IInv, Dst, Sends, CPUs
<1>4. \A g \in Groups : cpuInt[g] # {} =>
        pc[t] \in {"clrR", "clrW"} /\ Grp(t) = g /\ cpuInt[g] = {Dst(call[t])}
  BY <1>1, LineIs
<1>5. pc[t] = "setW" /\ ival[t] = {} /\ \A g \in Groups : cpuInt[g] = {}
  BY <1>4 DEF IInv, Pulses, IntSet, Goto
<1>6. /\ cpuInt' = [cpuInt EXCEPT ![Grp(t)] = {Dst(call[t])}]
      /\ irq' = irq \union {<<Grp(t), Dest[Grp(t)]>>}
  BY <1>3, <1>5 DEF IntSet, WriteInt
<1>7. /\ Fired(Grp(t)) /\ words[Grp(t)][1] = mail[t] /\ Raising(Grp(t))
      /\ \A g \in Groups : g # Grp(t) => ~Raising(g)
  BY <1>2, <1>5 DEF IInv, Raises, Raising
<1>8. \A g \in Groups : ~Raising(g)'
  BY <1>2, <1>5 DEF IInv, TypeOK, IntSet, Goto, Raising
<1>9. \A g \in Groups : Latched(g)' <=> Latched(g) \/ g = Grp(t)
  BY <1>3, <1>6 DEF Latched
<1>10. TypeOK'
  <2>1. /\ cpuInt' \in [Groups -> SUBSET CPUs] /\ irq' \subseteq Groups \X CPUs
        /\ pc' \in [Threads -> PcSteps]
    BY <1>3, <1>6 DEF IInv, TypeOK, IntSet, Goto, PcSteps
  <2> QED
    BY <2>1 DEF IInv, TypeOK, IntSet, regVars, rxVars, histVars
<1>11. irq' \subseteq {<<g, Dest[g]>> : g \in Groups}
  BY <1>2, TxAssumption, <1>3, <1>5, <1>6, <1>7, <1>8, <1>9
  DEF IInv, IntSet, Goto, Grp, Group, regVars, rxVars, histVars
<1>12. ASSUME NEW u \in Threads PROVE Held(u)'
  BY <1>2, TxAssumption, <1>3, <1>5, <1>6, <1>7, <1>8, <1>9
  DEF IInv, TypeOK, Held, LockedSteps, IntSet, Goto, Grp, Group, regVars, rxVars,
      histVars
<1>13. ASSUME NEW u \in Threads PROVE Sends(u)'
  BY <1>2, TxAssumption, <1>3, <1>5, <1>6, <1>7, <1>8, <1>9
  DEF IInv, TypeOK, Sends, IntSet, Goto, Grp, Group, regVars, rxVars, histVars
<1>14. ASSUME NEW u \in Threads PROVE Fills(u)'
  BY <1>2, TxAssumption, <1>3, <1>5, <1>6, <1>7, <1>8, <1>9
  DEF IInv, TypeOK, Fills, Filled, IntSet, Goto, Grp, Group, regVars, rxVars, histVars
<1>15. ASSUME NEW u \in Threads PROVE Prepares(u)'
  BY <1>fired, <1>2, TxAssumption, <1>3, <1>5, <1>6, <1>7, <1>8, <1>9
  DEF IInv, TypeOK, Prepares, IntSet, Goto, Grp, Group, regVars, rxVars, histVars
<1>16. ASSUME NEW u \in Threads PROVE Raises(u)'
  BY <1>fired, <1>2, TxAssumption, <1>3, <1>5, <1>6, <1>7, <1>8, <1>9
  DEF IInv, TypeOK, Raises, IntSet, Goto, Grp, Group, regVars, rxVars, histVars
<1>17. ASSUME NEW u \in Threads PROVE Pulses(u)'
  BY <1>2, TxAssumption, <1>3, <1>5, <1>6, <1>7, <1>8, <1>9
  DEF IInv, TypeOK, Pulses, IntSet, Goto, Grp, Group, regVars, rxVars, histVars
<1>18. ASSUME NEW u \in Threads PROVE Fresh(u)'
  BY <1>fired, <1>2, TxAssumption, <1>3, <1>5, <1>6, <1>7, <1>8, <1>9
  DEF IInv, TypeOK, Fresh, LockedSteps, IntSet, Goto, Grp, Group, regVars, rxVars,
      histVars
<1>19. ASSUME NEW g \in Groups PROVE LineLow(g)'
  <2>1. pc'[t] = "clrR" /\ call' = call /\ Grp(t)' = Grp(t)
    BY DEF IInv, TypeOK, IntSet, Goto, Grp
  <2>2. cpuInt'[g] # {} => g = Grp(t) /\ cpuInt'[g] = {Dst(call[t])}
    BY <1>3, <1>5, <1>6 DEF IInv, TypeOK
  <2> QED
    BY <2>1, <2>2 DEF LineLow
<1>20. ASSUME NEW g \in Groups PROVE Whole(g)'
  BY <1>fired, <1>2, TxAssumption, <1>3, <1>5, <1>6, <1>7, <1>8, <1>9
  DEF IInv, TypeOK, Whole, IntSet, Goto, Grp, Group, regVars, rxVars, histVars
<1>21. ASSUME NEW g \in Groups PROVE Stage(g)'
  BY <1>fired, <1>2, TxAssumption, <1>3, <1>5, <1>6, <1>7, <1>8, <1>9
  DEF IInv, TypeOK, Stage, Latched, Stuck, IntSet, Goto, Grp, Group, regVars, rxVars,
      histVars
<1>22. Later'
  BY <1>2, TxAssumption, <1>3, <1>5, <1>6, <1>7, <1>8, <1>9
  DEF IInv, TypeOK, Later, IntSet, Goto, Grp, Group, regVars, rxVars, histVars
<1>23. TwoMails'
  BY <1>fired, <1>2, TxAssumption, <1>3, <1>5, <1>6, <1>7, <1>8, <1>9
  DEF IInv, TypeOK, TwoMails, Groups, IntSet, Goto, Grp, Group, regVars, rxVars,
      histVars
<1>24. Overflows'
  BY <1>2, TxAssumption, <1>3, <1>5, <1>6, <1>7, <1>8, <1>9
  DEF IInv, TypeOK, Overflows, Stuck, Echo, IntSet, Goto, Grp, Group, regVars, rxVars, histVars
<1>25. Kept'
  BY <1>fired, <1>2, TxAssumption, <1>3, <1>5, <1>6, <1>7, <1>8, <1>9
  DEF IInv, TypeOK, Kept, IntSet, Goto, Grp, Group, regVars, rxVars, histVars
<1>26. TakenIntact'
  BY <1>2, TxAssumption, <1>3, <1>5, <1>6, <1>7, <1>8, <1>9
  DEF IInv, TypeOK, TakenIntact, IntSet, Goto, Grp, Group, regVars, rxVars, histVars
<1> QED
  BY <1>10, <1>11, <1>12, <1>13, <1>14, <1>15, <1>16, <1>17, <1>18, <1>19, <1>20,
      <1>21, <1>22, <1>23, <1>24, <1>25, <1>26
  DEF IInv

LEMMA IntClearStep ==
  ASSUME IoctlsOnly, IInv, NEW t \in Threads, IntClear(t)
  PROVE  IInv'
<1>1. Runs(t)
  BY DEF IntClear, Goto
<1>2. /\ \A u \in Threads : u # t => pc[u] = "user" /\ bkl # u /\ lock # u
      /\ \A g \in Groups : Raising(g) <=> pc[t] \in {"setR", "setW"} /\ Grp(t) = g
  BY <1>1, Alone
<1>fired. \A g \in Groups : Fired(g)' <=> Fired(g)
  BY FiredKept
<1>3. /\ Grp(t) \in Groups /\ Dst(call[t]) = Dest[Grp(t)] /\ Dst(call[t]) \in CPUs
  BY DstIs DEF IInv, Dst, Sends, CPUs
<1>4. \A g \in Groups : cpuInt[g] # {} =>
        pc[t] \in {"clrR", "clrW"} /\ Grp(t) = g /\ cpuInt[g] = {Dst(call[t])}
  BY <1>1, LineIs
<1>5. pc[t] = "clrW" /\ ival[t] \subseteq {Dst(call[t])} /\ mail[t] \in 1 .. fires
  BY DEF IInv, Pulses, Sends, IntClear, Goto
<1>6. cpuInt' = [cpuInt EXCEPT ![Grp(t)] = {}] /\ irq' = irq
  BY <1>3, <1>5 DEF IntClear, WriteInt
<1>7. \A g \in Groups : cpuInt'[g] = {}
  BY <1>3, <1>4, <1>6 DEF IInv, TypeOK
<1>8. TypeOK'
  <2>1. accepted' \subseteq Mails
    BY <1>5, MadeIsMail DEF IInv, TypeOK, IntClear
  <2>2. /\ cpuInt' \in [Groups -> SUBSET CPUs]
        /\ bkl' \in Threads \union {NoThread} /\ pc' \in [Threads -> PcSteps]
    BY <1>3, <1>5, <1>6 DEF IInv, TypeOK, IntClear, Goto, PcSteps, DropBkl
  <2> QED
    BY <1>6, <2>1, <2>2 DEF IInv, TypeOK, IntClear, regVars, rxVars
<1>9. irq' \subseteq {<<g, Dest[g]>> : g \in Groups}
  BY <1>2, TxAssumption, <1>3, <1>5, <1>6, <1>7
  DEF IInv, IntClear, Goto, Grp, Group, regVars, rxVars, DropBkl
<1>10. ASSUME NEW u \in Threads PROVE Held(u)'
  BY <1>2, TxAssumption, <1>3, <1>5, <1>6, <1>7
  DEF IInv, TypeOK, Held, LockedSteps, IntClear, Goto, Grp, Group, regVars, rxVars,
      DropBkl
<1>11. ASSUME NEW u \in Threads PROVE Sends(u)'
  BY <1>2, TxAssumption, <1>3, <1>5, <1>6, <1>7
  DEF IInv, TypeOK, Sends, IntClear, Goto, Grp, Group, regVars, rxVars, DropBkl
<1>12. ASSUME NEW u \in Threads PROVE Fills(u)'
  BY <1>2, TxAssumption, <1>3, <1>5, <1>6, <1>7
  DEF IInv, TypeOK, Fills, Filled, IntClear, Goto, Grp, Group, regVars, rxVars, DropBkl
<1>13. ASSUME NEW u \in Threads PROVE Prepares(u)'
  BY <1>fired, <1>2, TxAssumption, <1>3, <1>5, <1>6, <1>7
  DEF IInv, TypeOK, Prepares, IntClear, Goto, Grp, Group, regVars, rxVars, DropBkl
<1>14. ASSUME NEW u \in Threads PROVE Raises(u)'
  BY <1>fired, <1>2, TxAssumption, <1>3, <1>5, <1>6, <1>7
  DEF IInv, TypeOK, Raises, IntClear, Goto, Grp, Group, regVars, rxVars, DropBkl
<1>15. ASSUME NEW u \in Threads PROVE Pulses(u)'
  BY <1>2, TxAssumption, <1>3, <1>5, <1>6, <1>7
  DEF IInv, TypeOK, Pulses, IntClear, Goto, Grp, Group, regVars, rxVars, DropBkl
<1>16. ASSUME NEW u \in Threads PROVE Fresh(u)'
  BY <1>fired, <1>2, TxAssumption, <1>3, <1>5, <1>6, <1>7
  DEF IInv, TypeOK, Fresh, LockedSteps, IntClear, Goto, Grp, Group, regVars, rxVars,
      DropBkl
<1>17. ASSUME NEW g \in Groups PROVE LineLow(g)'
  BY <1>2, TxAssumption, <1>3, <1>5, <1>6, <1>7
  DEF IInv, TypeOK, LineLow, IntClear, Goto, Grp, Group, regVars, rxVars, DropBkl
<1>18. ASSUME NEW g \in Groups PROVE Whole(g)'
  BY <1>fired, <1>2, TxAssumption, <1>3, <1>5, <1>6, <1>7
  DEF IInv, TypeOK, Whole, IntClear, Goto, Grp, Group, regVars, rxVars, DropBkl
<1>19. ASSUME NEW g \in Groups PROVE Stage(g)'
  BY <1>fired, <1>2, TxAssumption, <1>3, <1>5, <1>6, <1>7
  DEF IInv, TypeOK, Stage, Latched, Stuck, IntClear, Goto, Grp, Group, regVars, rxVars,
      DropBkl, Raising
<1>20. Later'
  BY <1>2, TxAssumption, <1>3, <1>5, <1>6, <1>7
  DEF IInv, TypeOK, Later, IntClear, Goto, Grp, Group, regVars, rxVars, DropBkl
<1>21. TwoMails'
  BY <1>fired, <1>2, TxAssumption, <1>3, <1>5, <1>6, <1>7
  DEF IInv, TypeOK, TwoMails, Groups, IntClear, Goto, Grp, Group, regVars, rxVars,
      DropBkl
<1>22. Overflows'
  BY <1>2, TxAssumption, <1>3, <1>5, <1>6, <1>7
  DEF IInv, TypeOK, Overflows, Stuck, Echo, IntClear, Goto, Grp, Group, regVars, rxVars, DropBkl
<1>23. Kept'
  BY <1>fired, <1>2, TxAssumption, <1>3, <1>5, <1>6, <1>7
  DEF IInv, TypeOK, Kept, IntClear, Goto, Grp, Group, regVars, rxVars, DropBkl
<1>24. TakenIntact'
  BY <1>2, TxAssumption, <1>3, <1>5, <1>6, <1>7
  DEF IInv, TypeOK, TakenIntact, IntClear, Goto, Grp, Group, regVars, rxVars, DropBkl
<1> QED
  BY <1>8, <1>9, <1>10, <1>11, <1>12, <1>13, <1>14, <1>15, <1>16, <1>17, <1>18, <1>19,
      <1>20, <1>21, <1>22, <1>23, <1>24
  DEF IInv

LEMMA RxStartStep ==
  ASSUME IoctlsOnly, IInv, NEW g1 \in Groups, RxStart(g1)
  PROVE  IInv'
<1>1. /\ \A g \in Groups : Raising(g)' = Raising(g)
      /\ \A u \in Threads : Grp(u)' = Grp(u)
  BY DEF RxStart, thVars, Raising, Grp
<1>fired. \A g \in Groups : Fired(g)' <=> Fired(g)
  BY <1>1 DEF IInv, TypeOK, RxStart, Fired, Filling, thVars
<1>2. <<g1, Dest[g1]>> \in irq /\ irq' = irq \ {<<g1, Dest[g1]>>}
  BY DEF IInv, RxStart
<1>3. TypeOK'
  BY TxAssumption, <1>1, <1>2
  DEF IInv, TypeOK, PcSteps, Calls, CPUs, Mails, RxStart, thVars, histVars
<1>4. irq' \subseteq {<<g, Dest[g]>> : g \in Groups}
  BY TxAssumption, <1>1, <1>2
  DEF IInv, RxStart, thVars, histVars
<1>5. ASSUME NEW u \in Threads PROVE Held(u)'
  BY TxAssumption, <1>1, <1>2
  DEF IInv, TypeOK, Held, LockedSteps, RxStart, thVars, histVars
<1>6. ASSUME NEW u \in Threads PROVE Sends(u)'
  BY TxAssumption, <1>1, <1>2
  DEF IInv, TypeOK, Sends, RxStart, thVars, histVars
<1>7. ASSUME NEW u \in Threads PROVE Fills(u)'
  BY TxAssumption, <1>1, <1>2
  DEF IInv, TypeOK, Fills, Filled, RxStart, thVars, histVars
<1>8. ASSUME NEW u \in Threads PROVE Prepares(u)'
  BY <1>fired, TxAssumption, <1>1, <1>2
  DEF IInv, TypeOK, Prepares, RxStart, thVars, histVars
<1>9. ASSUME NEW u \in Threads PROVE Raises(u)'
  <2>1. Raises(u) /\ Grp(u) \in Groups
    BY DstIs DEF IInv
  <2> QED
    BY <1>1, <1>fired, <2>1 DEF RxStart, thVars, Raises
<1>10. ASSUME NEW u \in Threads PROVE Pulses(u)'
  BY TxAssumption, <1>1, <1>2
  DEF IInv, TypeOK, Pulses, RxStart, thVars, histVars
<1>11. ASSUME NEW u \in Threads PROVE Fresh(u)'
  BY <1>fired, TxAssumption, <1>1, <1>2
  DEF IInv, TypeOK, Fresh, LockedSteps, RxStart, thVars, histVars
<1>12. ASSUME NEW g \in Groups PROVE LineLow(g)'
  BY TxAssumption, <1>1, <1>2
  DEF IInv, TypeOK, LineLow, RxStart, thVars, histVars
<1>13. ASSUME NEW g \in Groups PROVE Whole(g)'
  BY <1>fired, TxAssumption, <1>1, <1>2
  DEF IInv, TypeOK, Whole, RxStart, thVars, histVars
<1>14. ASSUME NEW g \in Groups PROVE Stage(g)'
  BY <1>fired, TxAssumption, <1>1, <1>2
  DEF IInv, TypeOK, Stage, Latched, Stuck, RxStart, thVars, histVars
<1>15. Later'
  BY TxAssumption, <1>1, <1>2
  DEF IInv, TypeOK, Later, RxStart, thVars, histVars
<1>16. TwoMails'
  BY <1>fired, TxAssumption, <1>1, <1>2
  DEF IInv, TypeOK, TwoMails, Groups, RxStart, thVars, histVars
<1>17. Overflows'
  BY TxAssumption, <1>1, <1>2
  DEF IInv, TypeOK, Overflows, Stuck, Echo, RxStart, thVars, histVars
<1>18. Kept'
  BY <1>fired, TxAssumption, <1>1, <1>2
  DEF IInv, TypeOK, Kept, RxStart, thVars, histVars
<1>19. TakenIntact'
  BY TxAssumption, <1>1, <1>2
  DEF IInv, TypeOK, TakenIntact, RxStart, thVars, histVars
<1> QED
  BY <1>3, <1>4, <1>5, <1>6, <1>7, <1>8, <1>9, <1>10, <1>11, <1>12, <1>13, <1>14,
      <1>15, <1>16, <1>17, <1>18, <1>19
  DEF IInv

LEMMA RxRefuseStep ==
  ASSUME IoctlsOnly, IInv, RxRefuse
  PROVE  IInv'
<1>1. /\ \A g \in Groups : Raising(g)' = Raising(g)
      /\ \A u \in Threads : Grp(u)' = Grp(u)
  BY DEF RxRefuse, thVars, Raising, Grp
<1>fired. \A g \in Groups : Fired(g)' <=> Fired(g)
  BY <1>1 DEF IInv, TypeOK, RxRefuse, Fired, Filling, thVars
<1>2. "PM" \in Groups /\ "H3" \in Groups
  BY DEF Groups
<1>3. TypeOK'
  BY TxAssumption, <1>1, <1>2, DestIs
  DEF IInv, TypeOK, PcSteps, Calls, CPUs, Mails, RxRefuse, thVars, rxVars
<1>4. irq' \subseteq {<<g, Dest[g]>> : g \in Groups}
  BY TxAssumption, <1>1, <1>2, DestIs
  DEF IInv, RxRefuse, thVars, rxVars
<1>5. ASSUME NEW u \in Threads PROVE Held(u)'
  BY TxAssumption, <1>1, <1>2, DestIs
  DEF IInv, TypeOK, Held, LockedSteps, RxRefuse, thVars, rxVars
<1>6. ASSUME NEW u \in Threads PROVE Sends(u)'
  BY TxAssumption, <1>1, <1>2, DestIs
  DEF IInv, TypeOK, Sends, RxRefuse, thVars, rxVars
<1>7. ASSUME NEW u \in Threads PROVE Fills(u)'
  BY TxAssumption, <1>1, <1>2, DestIs
  DEF IInv, TypeOK, Fills, Filled, RxRefuse, thVars, rxVars
<1>8. ASSUME NEW u \in Threads PROVE Prepares(u)'
  BY <1>fired, TxAssumption, <1>1, <1>2, DestIs
  DEF IInv, TypeOK, Prepares, RxRefuse, thVars, rxVars
<1>9. ASSUME NEW u \in Threads PROVE Raises(u)'
  <2>1. Raises(u) /\ Grp(u) \in Groups
    BY DstIs DEF IInv
  <2> QED
    BY <1>1, <1>fired, <2>1 DEF RxRefuse, thVars, Raises
<1>10. ASSUME NEW u \in Threads PROVE Pulses(u)'
  BY TxAssumption, <1>1, <1>2, DestIs
  DEF IInv, TypeOK, Pulses, RxRefuse, thVars, rxVars
<1>11. ASSUME NEW u \in Threads PROVE Fresh(u)'
  BY <1>fired, TxAssumption, <1>1, <1>2, DestIs
  DEF IInv, TypeOK, Fresh, LockedSteps, RxRefuse, thVars, rxVars
<1>12. ASSUME NEW g \in Groups PROVE LineLow(g)'
  BY TxAssumption, <1>1, <1>2, DestIs
  DEF IInv, TypeOK, LineLow, RxRefuse, thVars, rxVars
<1>13. ASSUME NEW g \in Groups PROVE Whole(g)'
  BY <1>fired, TxAssumption, <1>1, <1>2, DestIs
  DEF IInv, TypeOK, Whole, RxRefuse, thVars, rxVars
<1>14. ASSUME NEW g \in Groups PROVE Stage(g)'
  BY <1>fired, TxAssumption, <1>1, <1>2, DestIs
  DEF IInv, TypeOK, Stage, Latched, Stuck, RxRefuse, thVars, rxVars
<1>15. Later'
  BY TxAssumption, <1>1, <1>2, DestIs
  DEF IInv, TypeOK, Later, RxRefuse, thVars, rxVars
<1>16. TwoMails'
  BY <1>fired, TxAssumption, <1>1, <1>2, DestIs
  DEF IInv, TypeOK, TwoMails, Groups, RxRefuse, thVars, rxVars
<1>17. Overflows'
  BY TxAssumption, <1>1, <1>2, DestIs
  DEF IInv, TypeOK, Overflows, Stuck, Echo, RxRefuse, thVars, rxVars
<1>18. Kept'
  BY <1>fired, TxAssumption, <1>1, <1>2, DestIs
  DEF IInv, TypeOK, Kept, RxRefuse, thVars, rxVars
<1>19. TakenIntact'
  BY TxAssumption, <1>1, <1>2, DestIs
  DEF IInv, TypeOK, TakenIntact, RxRefuse, thVars, rxVars
<1> QED
  BY <1>3, <1>4, <1>5, <1>6, <1>7, <1>8, <1>9, <1>10, <1>11, <1>12, <1>13, <1>14,
      <1>15, <1>16, <1>17, <1>18, <1>19
  DEF IInv

LEMMA RxCopyStep ==
  ASSUME IoctlsOnly, IInv, NEW g1 \in Groups, RxCopy(g1)
  PROVE  IInv'
<1>1. /\ \A g \in Groups : Raising(g)' = Raising(g)
      /\ \A u \in Threads : Grp(u)' = Grp(u)
  BY DEF RxCopy, thVars, Raising, Grp
<1>fired. \A g \in Groups : Fired(g)' <=> Fired(g)
  BY <1>1 DEF IInv, TypeOK, RxCopy, Fired, Filling, thVars, regVars
<1>2. Fired(g1) /\ rx[g1] = "copy" /\ g1 \in Groups
  BY DEF IInv, Stage, RxCopy
<1>3. /\ words[g1][1] \in 1 .. fires /\ words[g1][1] \in Mails
      /\ \A i \in Payload : words[g1][i] = words[g1][1]
      /\ taken[words[g1][1]] = 0
  BY <1>2, MadeIsMail DEF IInv, RxCopy, Whole
<1>4. taken' = [taken EXCEPT ![words[g1][1]] = @ + 1] /\ torn' = torn
  BY <1>3 DEF RxCopy
<1>5. /\ taken' \in [Mails -> Nat]
      /\ \A m \in Mails : taken'[m] = IF m = words[g1][1] THEN 1 ELSE taken[m]
  BY <1>3, <1>4 DEF IInv, TypeOK
<1>6. \A t \in Threads : pc[t] # "user" => mail[t] \in Mails
  BY DEF IInv, TypeOK, Sends, Mails
<1>7. TypeOK'
  BY TxAssumption, <1>1, <1>2, <1>3, <1>4, <1>5, <1>6
  DEF IInv, TypeOK, PcSteps, Calls, CPUs, Mails, RxCopy, thVars, regVars, intVars
<1>8. irq' \subseteq {<<g, Dest[g]>> : g \in Groups}
  BY TxAssumption, <1>1, <1>2, <1>3, <1>4, <1>5, <1>6
  DEF IInv, RxCopy, thVars, regVars, intVars
<1>9. ASSUME NEW u \in Threads PROVE Held(u)'
  BY TxAssumption, <1>1, <1>2, <1>3, <1>4, <1>5, <1>6
  DEF IInv, TypeOK, Held, LockedSteps, RxCopy, thVars, regVars, intVars
<1>10. ASSUME NEW u \in Threads PROVE Sends(u)'
  BY TxAssumption, <1>1, <1>2, <1>3, <1>4, <1>5, <1>6
  DEF IInv, TypeOK, Sends, RxCopy, thVars, regVars, intVars
<1>11. ASSUME NEW u \in Threads PROVE Fills(u)'
  BY <1>1 DEF IInv, RxCopy, thVars, regVars, Fills, Filled
<1>12. ASSUME NEW u \in Threads PROVE Prepares(u)'
  BY <1>fired DEF IInv, RxCopy, thVars, regVars, Prepares, Grp
<1>13. ASSUME NEW u \in Threads PROVE Raises(u)'
  <2>1. Raises(u) /\ Grp(u) \in Groups
    BY DstIs DEF IInv
  <2> QED
    BY <1>1, <1>fired, <2>1 DEF RxCopy, thVars, regVars, Raises
<1>14. ASSUME NEW u \in Threads PROVE Pulses(u)'
  BY TxAssumption, <1>1, <1>2, <1>3, <1>4, <1>5, <1>6
  DEF IInv, TypeOK, Pulses, RxCopy, thVars, regVars, intVars
<1>15. ASSUME NEW u \in Threads PROVE Fresh(u)'
  BY <1>fired, TxAssumption, <1>1, <1>2, <1>3, <1>4, <1>5, <1>6
  DEF IInv, TypeOK, Fresh, LockedSteps, RxCopy, thVars, regVars, intVars
<1>16. ASSUME NEW g \in Groups PROVE LineLow(g)'
  BY <1>1 DEF IInv, RxCopy, thVars, intVars, LineLow
<1>17. ASSUME NEW g \in Groups PROVE Whole(g)'
  <2>1. Fired(g) /\ g # g1 => words[g][1] # words[g1][1]
    BY <1>2 DEF IInv, TwoMails, Groups
  <2>2. Fired(g) => words[g][1] \in Mails
    BY TxAssumption DEF IInv, TypeOK, Whole, Mails
  <2>3. rx' = [rx EXCEPT ![g1] = "busyC"] /\ UNCHANGED <<words, fires>>
    BY DEF RxCopy, regVars
  <2> QED
    BY <1>fired, <1>2, <1>5, <2>1, <2>2, <2>3 DEF IInv, TypeOK, Whole
<1>18. ASSUME NEW g \in Groups PROVE Stage(g)'
  BY <1>fired, TxAssumption, <1>1, <1>2, <1>3, <1>4, <1>5, <1>6
  DEF IInv, TypeOK, Stage, Latched, Stuck, RxCopy, thVars, regVars, intVars
<1>19. Later'
  BY TxAssumption, <1>1, <1>2, <1>3, <1>4, <1>5, <1>6
  DEF IInv, TypeOK, Later, RxCopy, thVars, regVars, intVars, Mails
<1>20. TwoMails'
  BY <1>fired, TxAssumption, <1>1, <1>2, <1>3, <1>4, <1>5, <1>6
  DEF IInv, TypeOK, TwoMails, Groups, RxCopy, thVars, regVars, intVars
<1>21. Overflows'
  BY TxAssumption, <1>1, <1>2, <1>3, <1>4, <1>5, <1>6
  DEF IInv, TypeOK, Overflows, Stuck, Echo, RxCopy, thVars, regVars, intVars
<1>22. Kept'
  BY <1>fired, TxAssumption, <1>1, <1>2, <1>3, <1>4, <1>5, <1>6
  DEF IInv, TypeOK, Kept, RxCopy, thVars, regVars, intVars
<1>23. TakenIntact'
  BY TxAssumption, <1>1, <1>2, <1>3, <1>4, <1>5, <1>6
  DEF IInv, TypeOK, TakenIntact, RxCopy, thVars, regVars, intVars
<1> QED
  BY <1>7, <1>8, <1>9, <1>10, <1>11, <1>12, <1>13, <1>14, <1>15, <1>16, <1>17, <1>18,
      <1>19, <1>20, <1>21, <1>22, <1>23
  DEF IInv

LEMMA RxBusyClearStep ==
  ASSUME IoctlsOnly, IInv, NEW g1 \in Groups, RxBusyClear(g1)
  PROVE  IInv'
<1>1. /\ \A g \in Groups : Raising(g)' = Raising(g)
      /\ \A u \in Threads : Grp(u)' = Grp(u)
  BY DEF RxBusyClear, thVars, Raising, Grp
<1>fired. \A g \in Groups : Fired(g)' <=> Fired(g)
  BY <1>1 DEF IInv, TypeOK, RxBusyClear, Fired, Filling, thVars
<1>2. TypeOK'
  BY TxAssumption, <1>1
  DEF IInv, TypeOK, PcSteps, Calls, CPUs, Mails, RxBusyClear, thVars, intVars, histVars
<1>3. irq' \subseteq {<<g, Dest[g]>> : g \in Groups}
  BY TxAssumption, <1>1
  DEF IInv, RxBusyClear, thVars, intVars, histVars
<1>4. ASSUME NEW u \in Threads PROVE Held(u)'
  BY TxAssumption, <1>1
  DEF IInv, TypeOK, Held, LockedSteps, RxBusyClear, thVars, intVars, histVars
<1>5. ASSUME NEW u \in Threads PROVE Sends(u)'
  BY TxAssumption, <1>1
  DEF IInv, TypeOK, Sends, RxBusyClear, thVars, intVars, histVars
<1>6. ASSUME NEW u \in Threads PROVE Fills(u)'
  BY TxAssumption, <1>1
  DEF IInv, TypeOK, Fills, Filled, RxBusyClear, thVars, intVars, histVars
<1>7. ASSUME NEW u \in Threads PROVE Prepares(u)'
  BY <1>fired, TxAssumption, <1>1
  DEF IInv, TypeOK, Prepares, RxBusyClear, thVars, intVars, histVars
<1>8. ASSUME NEW u \in Threads PROVE Raises(u)'
  <2>1. Raises(u) /\ Grp(u) \in Groups
    BY DstIs DEF IInv
  <2> QED
    BY <1>1, <1>fired, <2>1 DEF RxBusyClear, thVars, Raises
<1>9. ASSUME NEW u \in Threads PROVE Pulses(u)'
  BY TxAssumption, <1>1
  DEF IInv, TypeOK, Pulses, RxBusyClear, thVars, intVars, histVars
<1>10. ASSUME NEW u \in Threads PROVE Fresh(u)'
  BY <1>fired, TxAssumption, <1>1
  DEF IInv, TypeOK, Fresh, LockedSteps, RxBusyClear, thVars, intVars, histVars
<1>11. ASSUME NEW g \in Groups PROVE LineLow(g)'
  BY TxAssumption, <1>1
  DEF IInv, TypeOK, LineLow, RxBusyClear, thVars, intVars, histVars
<1>12. ASSUME NEW g \in Groups PROVE Whole(g)'
  BY <1>fired, TxAssumption, <1>1
  DEF IInv, TypeOK, Whole, RxBusyClear, thVars, intVars, histVars
<1>13. ASSUME NEW g \in Groups PROVE Stage(g)'
  BY <1>fired, TxAssumption, <1>1
  DEF IInv, TypeOK, Stage, Latched, Stuck, RxBusyClear, thVars, intVars, histVars
<1>14. Later'
  BY TxAssumption, <1>1
  DEF IInv, TypeOK, Later, RxBusyClear, thVars, intVars, histVars
<1>15. TwoMails'
  BY <1>fired, TxAssumption, <1>1
  DEF IInv, TypeOK, TwoMails, Groups, RxBusyClear, thVars, intVars, histVars
<1>16. Overflows'
  BY TxAssumption, <1>1
  DEF IInv, TypeOK, Overflows, Stuck, Echo, RxBusyClear, thVars, intVars, histVars
<1>17. Kept'
  BY <1>fired, TxAssumption, <1>1
  DEF IInv, TypeOK, Kept, RxBusyClear, thVars, intVars, histVars
<1>18. TakenIntact'
  BY TxAssumption, <1>1
  DEF IInv, TypeOK, TakenIntact, RxBusyClear, thVars, intVars, histVars
<1> QED
  BY <1>2, <1>3, <1>4, <1>5, <1>6, <1>7, <1>8, <1>9, <1>10, <1>11, <1>12, <1>13, <1>14,
      <1>15, <1>16, <1>17, <1>18
  DEF IInv

LEMMA RxFireClearStep ==
  ASSUME IoctlsOnly, IInv, NEW g1 \in Groups, RxFireClear(g1)
  PROVE  IInv'
<1>1. /\ \A g \in Groups : Raising(g)' = Raising(g)
      /\ \A u \in Threads : Grp(u)' = Grp(u)
  BY DEF RxFireClear, thVars, Raising, Grp
<1>fired. \A g \in Groups : Fired(g)' <=> Fired(g) /\ g # g1
  BY <1>1 DEF IInv, TypeOK, RxFireClear, Fired, Filling, thVars
<1>2. ~Raising(g1) /\ Fired(g1) /\ taken[words[g1][1]] = 1
  BY DEF IInv, Stage, Whole, RxFireClear
<1>3. TypeOK'
  BY TxAssumption, <1>1, <1>2
  DEF IInv, TypeOK, PcSteps, Calls, CPUs, Mails, RxFireClear, thVars, intVars, histVars
<1>4. irq' \subseteq {<<g, Dest[g]>> : g \in Groups}
  BY TxAssumption, <1>1, <1>2
  DEF IInv, RxFireClear, thVars, intVars, histVars
<1>5. ASSUME NEW u \in Threads PROVE Held(u)'
  BY TxAssumption, <1>1, <1>2
  DEF IInv, TypeOK, Held, LockedSteps, RxFireClear, thVars, intVars, histVars
<1>6. ASSUME NEW u \in Threads PROVE Sends(u)'
  BY TxAssumption, <1>1, <1>2
  DEF IInv, TypeOK, Sends, RxFireClear, thVars, intVars, histVars
<1>7. ASSUME NEW u \in Threads PROVE Fills(u)'
  BY <1>1 DEF IInv, RxFireClear, thVars, Fills, Filled
<1>8. ASSUME NEW u \in Threads PROVE Prepares(u)'
  <2>1. pc' = pc /\ \A g \in Groups : fire'[g] => fire[g]
    BY DEF IInv, TypeOK, RxFireClear, thVars
  <2>2. Prepares(u) /\ Grp(u) \in Groups
    BY DstIs DEF IInv
  <2> QED
    BY <2>1, <2>2, <1>1 DEF Prepares
<1>9. ASSUME NEW u \in Threads PROVE Raises(u)'
  <2>1. SUFFICES ASSUME pc'[u] \in {"setR", "setW"}
                 PROVE  Fired(Grp(u))' /\ words'[Grp(u)'][1] = mail'[u]
    BY DEF Raises
  <2>2. pc[u] \in {"setR", "setW"} /\ words' = words /\ mail' = mail
    BY <2>1 DEF RxFireClear, thVars
  <2>3. Fired(Grp(u)) /\ words[Grp(u)][1] = mail[u] /\ Grp(u) \in Groups
    BY <2>2, DstIs DEF IInv, Raises
  <2>4. Grp(u) # g1
    BY <2>2, <1>2 DEF Raising
  <2> QED
    BY <2>2, <2>3, <2>4, <1>1, <1>fired
<1>10. ASSUME NEW u \in Threads PROVE Pulses(u)'
  BY TxAssumption, <1>1, <1>2
  DEF IInv, TypeOK, Pulses, RxFireClear, thVars, intVars, histVars
<1>11. ASSUME NEW u \in Threads PROVE Fresh(u)'
  BY <1>fired, TxAssumption, <1>1, <1>2
  DEF IInv, TypeOK, Fresh, LockedSteps, RxFireClear, thVars, intVars, histVars
<1>12. ASSUME NEW g \in Groups PROVE LineLow(g)'
  BY TxAssumption, <1>1, <1>2
  DEF IInv, TypeOK, LineLow, RxFireClear, thVars, intVars, histVars
<1>13. ASSUME NEW g \in Groups PROVE Whole(g)'
  BY <1>fired, TxAssumption, <1>1, <1>2
  DEF IInv, TypeOK, Whole, RxFireClear, thVars, intVars, histVars
<1>14. ASSUME NEW g \in Groups PROVE Stage(g)'
  BY <1>fired, TxAssumption, <1>1, <1>2
  DEF IInv, TypeOK, Stage, Latched, Stuck, RxFireClear, thVars, intVars, histVars
<1>15. Later'
  BY TxAssumption, <1>1, <1>2
  DEF IInv, TypeOK, Later, RxFireClear, thVars, intVars, histVars
<1>16. TwoMails'
  BY <1>fired, TxAssumption, <1>1, <1>2
  DEF IInv, TypeOK, TwoMails, Groups, RxFireClear, thVars, intVars, histVars
<1>17. Overflows'
  BY TxAssumption, <1>1, <1>2
  DEF IInv, TypeOK, Overflows, Stuck, Echo, RxFireClear, thVars, intVars, histVars
<1>18. Kept'
  BY <1>fired, TxAssumption, <1>1, <1>2
  DEF IInv, TypeOK, Kept, RxFireClear, thVars, intVars, histVars
<1>19. TakenIntact'
  BY TxAssumption, <1>1, <1>2
  DEF IInv, TypeOK, TakenIntact, RxFireClear, thVars, intVars, histVars
<1> QED
  BY <1>3, <1>4, <1>5, <1>6, <1>7, <1>8, <1>9, <1>10, <1>11, <1>12, <1>13, <1>14,
      <1>15, <1>16, <1>17, <1>18, <1>19
  DEF IInv

LEMMA DrainReadStep ==
  ASSUME IoctlsOnly, IInv, DrainRead
  PROVE  IInv'
<1>1. /\ \A g \in Groups : Raising(g)' = Raising(g)
      /\ \A u \in Threads : Grp(u)' = Grp(u)
  BY DEF DrainRead, thVars, Raising, Grp
<1>fired. \A g \in Groups : Fired(g)' <=> Fired(g)
  BY <1>1 DEF IInv, TypeOK, DrainRead, Fired, Filling, thVars, regVars
<1>2. TypeOK'
  <2>1. "PM" \in Groups /\ NWords \in 1 .. NWords
    BY TxAssumption DEF Groups
  <2>2. drain' \in [busy : BOOLEAN, last : 0 .. MaxFires]
    BY <2>1 DEF IInv, TypeOK, DrainRead
  <2> QED
    BY <2>2 DEF IInv, TypeOK, DrainRead, regVars, thVars, intVars, histVars
<1>3. irq' \subseteq {<<g, Dest[g]>> : g \in Groups}
  BY TxAssumption, <1>1
  DEF IInv, DrainRead, regVars, thVars, intVars, histVars
<1>4. ASSUME NEW u \in Threads PROVE Held(u)'
  BY TxAssumption, <1>1
  DEF IInv, TypeOK, Held, LockedSteps, DrainRead, regVars, thVars, intVars, histVars
<1>5. ASSUME NEW u \in Threads PROVE Sends(u)'
  BY TxAssumption, <1>1
  DEF IInv, TypeOK, Sends, DrainRead, regVars, thVars, intVars, histVars
<1>6. ASSUME NEW u \in Threads PROVE Fills(u)'
  BY TxAssumption, <1>1
  DEF IInv, TypeOK, Fills, Filled, DrainRead, regVars, thVars, intVars, histVars
<1>7. ASSUME NEW u \in Threads PROVE Prepares(u)'
  BY <1>fired, TxAssumption, <1>1
  DEF IInv, TypeOK, Prepares, DrainRead, regVars, thVars, intVars, histVars
<1>8. ASSUME NEW u \in Threads PROVE Raises(u)'
  <2>1. Raises(u) /\ Grp(u) \in Groups
    BY DstIs DEF IInv
  <2> QED
    BY <1>1, <1>fired, <2>1 DEF DrainRead, thVars, regVars, Raises
<1>9. ASSUME NEW u \in Threads PROVE Pulses(u)'
  BY TxAssumption, <1>1
  DEF IInv, TypeOK, Pulses, DrainRead, regVars, thVars, intVars, histVars
<1>10. ASSUME NEW u \in Threads PROVE Fresh(u)'
  BY <1>fired, TxAssumption, <1>1
  DEF IInv, TypeOK, Fresh, LockedSteps, DrainRead, regVars, thVars, intVars, histVars
<1>11. ASSUME NEW g \in Groups PROVE LineLow(g)'
  BY TxAssumption, <1>1
  DEF IInv, TypeOK, LineLow, DrainRead, regVars, thVars, intVars, histVars
<1>12. ASSUME NEW g \in Groups PROVE Whole(g)'
  BY <1>fired, TxAssumption, <1>1
  DEF IInv, TypeOK, Whole, DrainRead, regVars, thVars, intVars, histVars
<1>13. ASSUME NEW g \in Groups PROVE Stage(g)'
  BY <1>fired, TxAssumption, <1>1
  DEF IInv, TypeOK, Stage, Latched, Stuck, DrainRead, regVars, thVars, intVars, histVars
<1>14. Later'
  BY TxAssumption, <1>1
  DEF IInv, TypeOK, Later, DrainRead, regVars, thVars, intVars, histVars
<1>15. TwoMails'
  BY <1>fired, TxAssumption, <1>1
  DEF IInv, TypeOK, TwoMails, Groups, DrainRead, regVars, thVars, intVars, histVars
<1>16. Overflows'
  BY TxAssumption, <1>1
  DEF IInv, TypeOK, Overflows, Stuck, Echo, DrainRead, regVars, thVars, intVars, histVars
<1>17. Kept'
  BY <1>fired, TxAssumption, <1>1
  DEF IInv, TypeOK, Kept, DrainRead, regVars, thVars, intVars, histVars
<1>18. TakenIntact'
  BY TxAssumption, <1>1
  DEF IInv, TypeOK, TakenIntact, DrainRead, regVars, thVars, intVars, histVars
<1> QED
  BY <1>2, <1>3, <1>4, <1>5, <1>6, <1>7, <1>8, <1>9, <1>10, <1>11, <1>12, <1>13, <1>14,
      <1>15, <1>16, <1>17, <1>18
  DEF IInv

LEMMA DrainWriteStep ==
  ASSUME IoctlsOnly, IInv, DrainWrite
  PROVE  IInv'
<1>1. /\ \A g \in Groups : Raising(g)' = Raising(g)
      /\ \A u \in Threads : Grp(u)' = Grp(u)
  BY DEF DrainWrite, thVars, Raising, Grp
<1>fired. \A g \in Groups : Fired(g)' <=> Fired(g)
  BY <1>1 DEF IInv, TypeOK, DrainWrite, Fired, Filling, thVars
<1>2. \A u \in Threads : pc[u] = "user"
  BY TxAssumption DEF IInv, Held, DrainWrite, ThreadFree
<1>3. /\ 1 \in Payload
      /\ \A g \in Groups : \A i \in Payload : words'[g][i] = words[g][i]
  <2>1. "PM" \in Groups /\ 1 \in Payload /\ \A i \in Payload : i \in 1 .. NWords /\ i # NWords
    BY TxAssumption DEF Groups, Payload
  <2> QED
    BY <2>1 DEF IInv, TypeOK, DrainWrite
<1>4. TypeOK'
  BY TxAssumption, <1>1, <1>2, <1>3
  DEF IInv, TypeOK, PcSteps, Calls, CPUs, Mails, DrainWrite, thVars, intVars, histVars
<1>5. irq' \subseteq {<<g, Dest[g]>> : g \in Groups}
  BY TxAssumption, <1>1, <1>2, <1>3
  DEF IInv, DrainWrite, thVars, intVars, histVars
<1>6. ASSUME NEW u \in Threads PROVE Held(u)'
  BY TxAssumption, <1>1, <1>2, <1>3
  DEF IInv, TypeOK, Held, LockedSteps, DrainWrite, thVars, intVars, histVars
<1>7. ASSUME NEW u \in Threads PROVE Sends(u)'
  BY TxAssumption, <1>1, <1>2, <1>3
  DEF IInv, TypeOK, Sends, DrainWrite, thVars, intVars, histVars
<1>8. ASSUME NEW u \in Threads PROVE Fills(u)'
  BY TxAssumption, <1>1, <1>2, <1>3
  DEF IInv, TypeOK, Fills, Filled, DrainWrite, thVars, intVars, histVars
<1>9. ASSUME NEW u \in Threads PROVE Prepares(u)'
  BY <1>fired, TxAssumption, <1>1, <1>2, <1>3
  DEF IInv, TypeOK, Prepares, DrainWrite, thVars, intVars, histVars
<1>10. ASSUME NEW u \in Threads PROVE Raises(u)'
  BY <1>fired, TxAssumption, <1>1, <1>2, <1>3
  DEF IInv, TypeOK, Raises, DrainWrite, thVars, intVars, histVars
<1>11. ASSUME NEW u \in Threads PROVE Pulses(u)'
  BY TxAssumption, <1>1, <1>2, <1>3
  DEF IInv, TypeOK, Pulses, DrainWrite, thVars, intVars, histVars
<1>12. ASSUME NEW u \in Threads PROVE Fresh(u)'
  BY <1>fired, TxAssumption, <1>1, <1>2, <1>3
  DEF IInv, TypeOK, Fresh, LockedSteps, DrainWrite, thVars, intVars, histVars
<1>13. ASSUME NEW g \in Groups PROVE LineLow(g)'
  BY TxAssumption, <1>1, <1>2, <1>3
  DEF IInv, TypeOK, LineLow, DrainWrite, thVars, intVars, histVars
<1>14. ASSUME NEW g \in Groups PROVE Whole(g)'
  BY <1>fired, TxAssumption, <1>1, <1>2, <1>3
  DEF IInv, TypeOK, Whole, DrainWrite, thVars, intVars, histVars
<1>15. ASSUME NEW g \in Groups PROVE Stage(g)'
  BY <1>fired, TxAssumption, <1>1, <1>2, <1>3
  DEF IInv, TypeOK, Stage, Latched, Stuck, DrainWrite, thVars, intVars, histVars
<1>16. Later'
  BY TxAssumption, <1>1, <1>2, <1>3
  DEF IInv, TypeOK, Later, DrainWrite, thVars, intVars, histVars
<1>17. TwoMails'
  BY <1>fired, TxAssumption, <1>1, <1>2, <1>3
  DEF IInv, TypeOK, TwoMails, Groups, DrainWrite, thVars, intVars, histVars
<1>18. Overflows'
  BY TxAssumption, <1>1, <1>2, <1>3
  DEF IInv, TypeOK, Overflows, Stuck, Echo, DrainWrite, thVars, intVars, histVars
<1>19. Kept'
  <2>1. /\ accepted' = accepted /\ taken' = taken /\ mail' = mail /\ pc' = pc
        /\ \A g \in Groups : words'[g][1] = words[g][1]
    BY <1>3 DEF DrainWrite, thVars, histVars
  <2> QED
    BY <1>fired, <2>1 DEF IInv, Kept
<1>20. TakenIntact'
  BY TxAssumption, <1>1, <1>2, <1>3
  DEF IInv, TypeOK, TakenIntact, DrainWrite, thVars, intVars, histVars
<1> QED
  BY <1>4, <1>5, <1>6, <1>7, <1>8, <1>9, <1>10, <1>11, <1>12, <1>13, <1>14, <1>15,
      <1>16, <1>17, <1>18, <1>19, <1>20
  DEF IInv

LEMMA RxBugStep ==
  ASSUME IoctlsOnly, IInv, RxBug
  PROVE  IInv'
<1>1. /\ \A g \in Groups : Raising(g)' = Raising(g)
      /\ \A u \in Threads : Grp(u)' = Grp(u)
  BY DEF RxBug, thVars, Raising, Grp
<1>fired. \A g \in Groups : Fired(g)' <=> Fired(g)
  BY <1>1 DEF IInv, TypeOK, RxBug, Fired, Filling, thVars, regVars
<1>2. TypeOK'
  BY TxAssumption, <1>1
  DEF IInv, TypeOK, PcSteps, Calls, CPUs, Mails, RxBug, regVars, thVars, intVars, histVars
<1>3. irq' \subseteq {<<g, Dest[g]>> : g \in Groups}
  BY TxAssumption, <1>1
  DEF IInv, RxBug, regVars, thVars, intVars, histVars
<1>4. ASSUME NEW u \in Threads PROVE Held(u)'
  BY TxAssumption, <1>1
  DEF IInv, TypeOK, Held, LockedSteps, RxBug, regVars, thVars, intVars, histVars
<1>5. ASSUME NEW u \in Threads PROVE Sends(u)'
  BY TxAssumption, <1>1
  DEF IInv, TypeOK, Sends, RxBug, regVars, thVars, intVars, histVars
<1>6. ASSUME NEW u \in Threads PROVE Fills(u)'
  BY TxAssumption, <1>1
  DEF IInv, TypeOK, Fills, Filled, RxBug, regVars, thVars, intVars, histVars
<1>7. ASSUME NEW u \in Threads PROVE Prepares(u)'
  BY <1>fired, TxAssumption, <1>1
  DEF IInv, TypeOK, Prepares, RxBug, regVars, thVars, intVars, histVars
<1>8. ASSUME NEW u \in Threads PROVE Raises(u)'
  <2>1. Raises(u) /\ Grp(u) \in Groups
    BY DstIs DEF IInv
  <2> QED
    BY <1>1, <1>fired, <2>1 DEF RxBug, thVars, regVars, Raises
<1>9. ASSUME NEW u \in Threads PROVE Pulses(u)'
  BY TxAssumption, <1>1
  DEF IInv, TypeOK, Pulses, RxBug, regVars, thVars, intVars, histVars
<1>10. ASSUME NEW u \in Threads PROVE Fresh(u)'
  BY <1>fired, TxAssumption, <1>1
  DEF IInv, TypeOK, Fresh, LockedSteps, RxBug, regVars, thVars, intVars, histVars
<1>11. ASSUME NEW g \in Groups PROVE LineLow(g)'
  BY <1>1 DEF IInv, RxBug, thVars, intVars, LineLow
<1>12. ASSUME NEW g \in Groups PROVE Whole(g)'
  BY <1>fired, TxAssumption, <1>1
  DEF IInv, TypeOK, Whole, RxBug, regVars, thVars, intVars, histVars
<1>13. ASSUME NEW g \in Groups PROVE Stage(g)'
  BY <1>fired, TxAssumption, <1>1
  DEF IInv, TypeOK, Stage, Latched, Stuck, RxBug, regVars, thVars, intVars, histVars
<1>14. Later'
  BY TxAssumption, <1>1
  DEF IInv, TypeOK, Later, RxBug, regVars, thVars, intVars, histVars
<1>15. TwoMails'
  BY <1>fired, TxAssumption, <1>1
  DEF IInv, TypeOK, TwoMails, Groups, RxBug, regVars, thVars, intVars, histVars
<1>16. Overflows'
  BY TxAssumption, <1>1
  DEF IInv, TypeOK, Overflows, Stuck, Echo, RxBug, regVars, thVars, intVars, histVars
<1>17. Kept'
  BY <1>fired, TxAssumption, <1>1
  DEF IInv, TypeOK, Kept, RxBug, regVars, thVars, intVars, histVars
<1>18. TakenIntact'
  BY TxAssumption, <1>1
  DEF IInv, TypeOK, TakenIntact, RxBug, regVars, thVars, intVars, histVars
<1> QED
  BY <1>2, <1>3, <1>4, <1>5, <1>6, <1>7, <1>8, <1>9, <1>10, <1>11, <1>12, <1>13, <1>14,
      <1>15, <1>16, <1>17, <1>18
  DEF IInv

LEMMA EnablePMStep ==
  ASSUME IoctlsOnly, IInv, EnablePM
  PROVE  IInv'
<1>1. /\ \A g \in Groups : Raising(g)' = Raising(g)
      /\ \A u \in Threads : Grp(u)' = Grp(u)
  BY DEF EnablePM, thVars, Raising, Grp
<1>fired. \A g \in Groups : Fired(g)' <=> Fired(g)
  BY <1>1 DEF IInv, TypeOK, EnablePM, Fired, Filling, thVars, regVars
<1>2. TypeOK'
  BY DEF IInv, TypeOK, EnablePM, regVars, thVars, intVars, histVars
<1>3. irq' \subseteq {<<g, Dest[g]>> : g \in Groups}
  BY TxAssumption, <1>1
  DEF IInv, EnablePM, regVars, thVars, intVars, histVars
<1>4. ASSUME NEW u \in Threads PROVE Held(u)'
  BY TxAssumption, <1>1
  DEF IInv, TypeOK, Held, LockedSteps, EnablePM, regVars, thVars, intVars, histVars
<1>5. ASSUME NEW u \in Threads PROVE Sends(u)'
  BY TxAssumption, <1>1
  DEF IInv, TypeOK, Sends, EnablePM, regVars, thVars, intVars, histVars
<1>6. ASSUME NEW u \in Threads PROVE Fills(u)'
  BY TxAssumption, <1>1
  DEF IInv, TypeOK, Fills, Filled, EnablePM, regVars, thVars, intVars, histVars
<1>7. ASSUME NEW u \in Threads PROVE Prepares(u)'
  BY <1>fired, TxAssumption, <1>1
  DEF IInv, TypeOK, Prepares, EnablePM, regVars, thVars, intVars, histVars
<1>8. ASSUME NEW u \in Threads PROVE Raises(u)'
  <2>1. Raises(u) /\ Grp(u) \in Groups
    BY DstIs DEF IInv
  <2> QED
    BY <1>1, <1>fired, <2>1 DEF EnablePM, thVars, regVars, Raises
<1>9. ASSUME NEW u \in Threads PROVE Pulses(u)'
  BY TxAssumption, <1>1
  DEF IInv, TypeOK, Pulses, EnablePM, regVars, thVars, intVars, histVars
<1>10. ASSUME NEW u \in Threads PROVE Fresh(u)'
  BY <1>fired, TxAssumption, <1>1
  DEF IInv, TypeOK, Fresh, LockedSteps, EnablePM, regVars, thVars, intVars, histVars
<1>11. ASSUME NEW g \in Groups PROVE LineLow(g)'
  BY TxAssumption, <1>1
  DEF IInv, TypeOK, LineLow, EnablePM, regVars, thVars, intVars, histVars
<1>12. ASSUME NEW g \in Groups PROVE Whole(g)'
  BY <1>fired, TxAssumption, <1>1
  DEF IInv, TypeOK, Whole, EnablePM, regVars, thVars, intVars, histVars
<1>13. ASSUME NEW g \in Groups PROVE Stage(g)'
  BY <1>fired, TxAssumption, <1>1
  DEF IInv, TypeOK, Stage, Latched, Stuck, EnablePM, regVars, thVars, intVars, histVars
<1>14. Later'
  BY TxAssumption, <1>1
  DEF IInv, TypeOK, Later, EnablePM, regVars, thVars, intVars, histVars
<1>15. TwoMails'
  BY <1>fired, TxAssumption, <1>1
  DEF IInv, TypeOK, TwoMails, Groups, EnablePM, regVars, thVars, intVars, histVars
<1>16. Overflows'
  BY TxAssumption, <1>1
  DEF IInv, TypeOK, Overflows, Stuck, Echo, EnablePM, regVars, thVars, intVars, histVars
<1>17. Kept'
  BY <1>fired, TxAssumption, <1>1
  DEF IInv, TypeOK, Kept, EnablePM, regVars, thVars, intVars, histVars
<1>18. TakenIntact'
  BY TxAssumption, <1>1
  DEF IInv, TypeOK, TakenIntact, EnablePM, regVars, thVars, intVars, histVars
<1> QED
  BY <1>2, <1>3, <1>4, <1>5, <1>6, <1>7, <1>8, <1>9, <1>10, <1>11, <1>12, <1>13, <1>14,
      <1>15, <1>16, <1>17, <1>18
  DEF IInv

LEMMA NextIInv ==
  ASSUME IoctlsOnly, IInv, [Next]_vars
  PROVE  IInv'
<1>1. ASSUME NEW t \in Threads, Enter(t) \/ Sender(t) PROVE IInv'
  BY <1>1, EnterStep, SpinLockStep, CheckFireStep, CheckBusyStep, CheckOverflowStep,
     ClearStatusStep, FillWordStep, SpinUnlockStep, FireReadStep, FireWriteStep,
     IntReadStep, IntSetStep, IntClearStep
  DEF Sender
<1>2. ASSUME NEW g \in Groups, Receiver(g) PROVE IInv'
  BY <1>2, RxStartStep, RxCopyStep, RxBugStep, RxBusyClearStep, RxFireClearStep
  DEF Receiver
<1>3. CASE RxRefuse \/ DrainRead \/ DrainWrite \/ EnablePM
  BY <1>3, RxRefuseStep, DrainReadStep, DrainWriteStep, EnablePMStep
<1>4. CASE UNCHANGED vars
  <2>1. UNCHANGED <<fire, busy, ovf, words, lock, bkl, pc, call, mail, idx, val, ival>>
    BY <1>4 DEF vars, regVars, thVars
  <2>2. UNCHANGED <<cpuInt, irq, rx, drain, unmasked, fires, accepted, taken, torn, refused>>
    BY <1>4 DEF vars, intVars, rxVars, histVars
  <2>3. TypeOK' /\ irq' \subseteq {<<g, Dest[g]>> : g \in Groups}
    BY <2>1, <2>2 DEF IInv, TypeOK
  <2>4. ASSUME NEW t \in Threads
        PROVE  /\ Held(t)' /\ Sends(t)' /\ Fills(t)' /\ Prepares(t)' /\ Raises(t)'
               /\ Pulses(t)' /\ Fresh(t)'
    BY <2>1, <2>2
    DEF IInv, Held, Sends, Fills, Filled, Prepares, Raises, Pulses, Fresh, Fired, Filling,
        Grp
  <2>5. ASSUME NEW g \in Groups PROVE LineLow(g)' /\ Whole(g)' /\ Stage(g)'
    BY <2>1, <2>2 DEF IInv, LineLow, Whole, Stage, Fired, Filling, Raising, Latched, Stuck, Grp
  <2>6. (Later /\ TwoMails /\ Overflows /\ Kept /\ TakenIntact)'
    BY <2>1, <2>2
    DEF IInv, Later, TwoMails, Overflows, Stuck, Echo, Kept, TakenIntact, Fired, Filling, Grp
  <2> QED
    BY <2>3, <2>4, <2>5, <2>6 DEF IInv
<1> QED
  BY <1>1, <1>2, <1>3, <1>4 DEF Next

-----------------------------------------------------------------------------
(* Theorems.                                                                *)

\* The invariant of hal_opFire and hal_opFireLoopback: one ioctl at a time, its
\* words its own, and every fired mail at one stage of its way.
THEOREM Inductive ==
  ASSUME IoctlsOnly
  PROVE  Spec => []IInv
<1>1. Init => IInv
  BY InitIInv
<1>2. IInv /\ [Next]_vars => IInv'
  BY NextIInv
<1> QED
  BY <1>1, <1>2, PTL DEF Spec

\* Every variable keeps its type: the fill loop stays within the words of the group.
THEOREM TypeCorrect ==
  ASSUME IoctlsOnly
  PROVE  Spec => []TypeOK
<1>1. IInv => TypeOK
  BY DEF IInv
<1> QED
  BY <1>1, Inductive, PTL

\* The words filled by a call of ioctl_FIREMAIL or ioctl_FIREMAIL_LOOPBACK stay its
\* own until _FIRE_S is done, although _RIU_LOCK is dropped before: no other ioctl
\* gets the big kernel lock.
THEOREM WordsKept ==
  ASSUME IoctlsOnly
  PROVE  Spec => []NoClobber
<1>1. IInv => NoClobber
  BY DEF IInv, Fills, NoClobber
<1> QED
  BY <1>1, Inductive, PTL

\* hal_opReceive and the AEON find whole mails in their registers, and each once.
THEOREM TakenWhole ==
  ASSUME IoctlsOnly
  PROVE  Spec => []TakenIntact
<1>1. IInv => TakenIntact
  BY DEF IInv
<1> QED
  BY <1>1, Inductive, PTL

\* After E_OK a mail is taken, or in its registers with an interrupt on its way, or
\* refused, or stopped its receiver: the pulse of IAEON and IPROC is never lost.
THEOREM Accounted ==
  ASSUME IoctlsOnly
  PROVE  Spec => []AcceptedAccounted
<1>1. IInv => AcceptedAccounted
  <2> SUFFICES ASSUME IInv, NEW m \in accepted, taken[m] # 1
               PROVE  \E g \in Groups : InRegisters(m, g)
    BY DEF AcceptedAccounted
  <2>1. PICK g \in Groups : Fired(g) /\ words[g][1] = m
    BY DEF IInv, TypeOK, Kept
  <2>2. (\A i \in Payload : words[g][i] = m) /\ rx[g] \notin {"busyC", "fireC"}
    BY <2>1 DEF IInv, Whole
  <2>3. ~Raising(g)
    BY <2>1 DEF IInv, Raising, Raises, Fresh
  <2>4. CASE Latched(g)
    <3>1. Dest[g] \in CPUs
      BY DestIs DEF Groups, CPUs
    <3> QED
      BY <2>1, <2>2, <2>4, <3>1 DEF InRegisters, Latched, Fired
  <2>5. CASE rx[g] # "idle"
    BY <2>1, <2>2, <2>5 DEF IInv, TypeOK, InRegisters, Fired
  <2>6. CASE Stuck(g)
    BY <2>1, <2>2, <2>6 DEF InRegisters, Stuck, Fired
  <2> QED
    BY <2>1, <2>3, <2>4, <2>5, <2>6 DEF IInv, Stage
<1> QED
  BY <1>1, Inductive, PTL

\* E_HAL_COPROCESSOR_OVERFLOW never reports a full ring: where hal_opFireLoopback
\* sees OVERFLOW without FIRE, the status register still holds the u8S1 of an
\* earlier call, which set it there itself.
THEOREM OverflowHidden ==
  ASSUME IoctlsOnly
  PROVE  Spec => []OverflowBehindFire
<1>1. IInv => OverflowBehindFire
  BY DEF IInv, Overflows, Echo, Stage, Fired, Stuck, OverflowBehindFire
<1> QED
  BY <1>1, Inductive, PTL

-----------------------------------------------------------------------------
(* The registers implement MailSlot.  A step that neither fires nor copies  *)
(* leaves what the places hold: one lemma for those that touch a register,  *)
(* and one for each of the two that change the places.                      *)

Received == {m \in Mails : taken[m] > 0}

\* The fill loop writes words of a group that holds nothing.
LEMMA FillHolds ==
  ASSUME IInv, NEW t \in Threads, FillWord(t)
  PROVE  UNCHANGED Holding
<1>1. ~Fired(Grp(t)) /\ Grp(t) \in Groups
  BY DstIs, NotFired DEF IInv, FillWord, Goto, FillSteps
<1>2. \A g \in Groups : Fired(g)' <=> Fired(g)
  BY FiredKept
<1>3. ASSUME NEW g \in Groups
      PROVE  /\ Fired(g)' <=> Fired(g)
             /\ rx'[g] = rx[g]
             /\ Fired(g) => words'[g] = words[g]
  BY <1>1, <1>2, <1>3 DEF IInv, TypeOK, FillWord, rxVars
<1> QED
  BY <1>3 DEF Holding

\* Nor do the receivers' other steps change what the places hold: a mail leaves its
\* place when it is copied, before BUSY and FIRE are cleared.
LEMMA ServeHolds ==
  ASSUME IInv, NEW g \in Groups, RxStart(g) \/ RxBusyClear(g) \/ RxFireClear(g)
  PROVE  UNCHANGED Holding
<1>1. UNCHANGED words
  BY DEF RxStart, RxBusyClear, RxFireClear, regVars
<1>2. ASSUME NEW h \in Groups
      PROVE  (Fired(h)' /\ rx'[h] \notin {"busyC", "fireC"})
               <=> (Fired(h) /\ rx[h] \notin {"busyC", "fireC"})
  <2>1. Filling(h)' <=> Filling(h)
    BY DEF RxStart, RxBusyClear, RxFireClear, thVars, Filling, Grp
  <2> QED
    BY <1>2, <2>1 DEF IInv, TypeOK, RxStart, RxBusyClear, RxFireClear, Fired
<1> QED
  BY <1>1, <1>2 DEF Holding

\* The mail that stops the host's tasklet stays in its place.
LEMMA BugHolds ==
  ASSUME IInv, RxBug
  PROVE  UNCHANGED Holding
<1>1. \A g \in Groups : (rx'[g] \in {"busyC", "fireC"}) <=> rx[g] \in {"busyC", "fireC"}
  BY DEF IInv, TypeOK, RxBug
<1>2. words' = words /\ \A g \in Groups : Fired(g)' <=> Fired(g)
  BY DEF RxBug, regVars, thVars, Fired, Filling, Grp
<1> QED
  BY <1>1, <1>2 DEF Holding

\* _OVERFLOW_C writes the last word, which is no part of the mail.
LEMMA DrainHolds ==
  ASSUME IInv, DrainWrite
  PROVE  UNCHANGED Holding
<1>1. NWords # 1 /\ 1 \in 1 .. NWords /\ NWords \in 1 .. NWords
  BY TxAssumption
<1>2. \A g \in Groups : words'[g][1] = words[g][1]
  BY <1>1 DEF IInv, TypeOK, DrainWrite
<1>3. \A g \in Groups : Fired(g)' <=> Fired(g)
  BY DEF DrainWrite, thVars, Fired, Filling, Grp
<1> QED
  BY <1>2, <1>3 DEF DrainWrite, Holding

\* The write of _FIRE_S puts the mail of its call into its empty group.
LEMMA FirePuts ==
  ASSUME IoctlsOnly, IInv, NEW t \in Threads, FireWrite(t)
  PROVE  MS!Put(Grp(t), mail[t]) /\ mail[t] \in Mails
<1> DEFINE g == Grp(t)
           m == mail[t]
<1>1. pc[t] = "fireW" /\ g \in Groups
  BY DstIs DEF IInv, FireWrite, Goto
<1>2. m \in Mails /\ m # 0 /\ val[t] = m
  BY <1>1 DEF IInv, TypeOK, Sends, Fills, Mails
<1>3. ~Fired(g) /\ rx[g] = "idle"
  BY <1>1, NotFired DEF IInv, Stage, FillSteps
<1>4. taken[m] = 0 /\ \A h \in Groups : Fired(h) => words[h][1] # m
  BY <1>1 DEF IInv, Fresh
<1>5. Holding[g] = 0 /\ \A h \in Groups : Holding[h] # m
  BY <1>1, <1>2, <1>3, <1>4 DEF Holding
<1>6. 1 \in 1 .. NWords
  BY TxAssumption
<1>7. (\A h \in Groups : h = g => Fired(h)') /\ words'[g][1] = m /\ rx' = rx /\ taken' = taken
  <2>1. \A h \in Groups : h = g => Fired(h)'
    BY FireFires
  <2>2. words[g] \in [1 .. NWords -> 0 .. MaxFires]
    BY <1>1 DEF IInv, TypeOK
  <2>3. words' = [words EXCEPT ![g][1] = m] /\ words \in [Groups -> [1 .. NWords -> 0 .. MaxFires]]
    BY <1>2 DEF IInv, TypeOK, FireWrite
  <2>4. words'[g][1] = m
    BY <1>1, <1>6, <2>2, <2>3
  <2> QED
    BY <2>1, <2>4 DEF FireWrite, rxVars, histVars
<1>8. \A h \in Groups \ {g} : (Fired(h)' <=> Fired(h)) /\ words'[h] = words[h]
  BY <1>1, FireFires DEF IInv, TypeOK, FireWrite
<1>9. Holding' = [Holding EXCEPT ![g] = m]
  BY <1>1, <1>3, <1>7, <1>8 DEF Holding
<1> QED
  BY <1>1, <1>2, <1>4, <1>5, <1>7, <1>9 DEF MS!Put

\* The copy of hal_opReceive gets the mail of its group, all its words.
LEMMA CopyGets ==
  ASSUME IInv, NEW g \in Groups, RxCopy(g)
  PROVE  MS!Get(g)
<1> DEFINE m == words[g][1]
<1>1. rx[g] = "copy" /\ Fired(g)
  BY DEF IInv, Stage, RxCopy
<1>2. m \in Mails /\ m # 0 /\ \A i \in Payload : words[g][i] = m
  <2>1. m \in 1 .. fires /\ fires \in 0 .. MaxFires /\ MaxFires \in Nat
    BY <1>1, TxAssumption DEF IInv, TypeOK, Whole
  <2>2. m \in Mails /\ m # 0
    BY <2>1 DEF Mails
  <2> QED
    BY <1>1, <2>2 DEF IInv, Whole
<1>3. Holding[g] = m
  BY <1>1 DEF Holding
<1>4. taken' = [taken EXCEPT ![m] = @ + 1]
  BY <1>2 DEF RxCopy
<1>5. Received' = Received \union {m}
  BY <1>2, <1>4 DEF IInv, TypeOK, Received
<1>6. rx' = [rx EXCEPT ![g] = "busyC"] /\ words' = words
      /\ \A h \in Groups : Fired(h)' <=> Fired(h)
  BY DEF RxCopy, regVars, thVars, Fired, Filling, Grp
<1>7. Holding' = [Holding EXCEPT ![g] = 0]
  BY <1>6 DEF IInv, TypeOK, Holding
<1> QED
  BY <1>2, <1>3, <1>5, <1>7 DEF MS!Get, Received

\* All other steps leave the words, FIRE and the receivers alone.
LEMMA SlotStep ==
  ASSUME IoctlsOnly, IInv, [Next]_vars
  PROVE  [MS!SlotNext]_<<Holding, Received>>
<1> USE DEF regVars, thVars, intVars, rxVars, histVars
<1>1. CASE UNCHANGED vars
  BY <1>1 DEF vars, Holding, Fired, Filling, Grp, Received
<1>2. ASSUME NEW t \in Threads, Enter(t) \/ Sender(t)
      PROVE  [MS!SlotNext]_<<Holding, Received>>
  <2>1. CASE FillWord(t)
    BY <2>1, FillHolds DEF FillWord, Received
  <2>2. CASE FireWrite(t)
    <3>1. Grp(t) \in Groups
      BY DstIs DEF IInv
    <3> QED
      BY <2>2, <3>1, FirePuts DEF MS!SlotNext
  <2>3. CASE \/ Enter(t) \/ SpinLock(t) \/ CheckFire(t) \/ CheckBusy(t) \/ CheckOverflow(t)
             \/ ClearStatus(t) \/ SpinUnlock(t) \/ FireRead(t)
             \/ IntRead(t) \/ IntSet(t) \/ IntClear(t)
    <3>1. \A g \in Groups : Fired(g)' <=> Fired(g)
      BY <2>3, FiredKept
    <3>2. words' = words /\ rx' = rx /\ taken' = taken
      BY <2>3
      DEF Enter, SpinLock, CheckFire, CheckBusy, CheckOverflow, Check, ClearStatus,
          SpinUnlock, FireRead, IntRead, IntSet, IntClear
    <3> QED
      BY <3>1, <3>2 DEF Holding, Received
  <2> QED
    BY <1>2, <2>1, <2>2, <2>3 DEF Sender
<1>3. ASSUME NEW g \in Groups, Receiver(g)
      PROVE  [MS!SlotNext]_<<Holding, Received>>
  <2>1. CASE RxCopy(g)
    BY <2>1, CopyGets DEF MS!SlotNext
  <2>2. CASE RxStart(g) \/ RxBusyClear(g) \/ RxFireClear(g)
    BY <2>2, ServeHolds DEF RxStart, RxBusyClear, RxFireClear, Received
  <2>3. CASE RxBug
    BY <2>3, BugHolds DEF RxBug, Received
  <2> QED
    BY <1>3, <2>1, <2>2, <2>3 DEF Receiver
<1>4. CASE RxRefuse \/ DrainRead \/ EnablePM
  BY <1>4 DEF RxRefuse, DrainRead, EnablePM, Holding, Fired, Filling, Grp, Received
<1>5. CASE DrainWrite
  BY <1>5, DrainHolds DEF DrainWrite, Received
<1> QED
  BY <1>1, <1>2, <1>3, <1>4, <1>5 DEF Next

\* hal_opFire, hal_opFireLoopback and hal_opReceive make of each register group a
\* place for one mail: it appears where none is, and goes when it is received.
THEOREM RefinesSlots ==
  ASSUME IoctlsOnly
  PROVE  Spec => GroupsAreSlots
<1>1. Init => MS!SlotInit
  BY DEF Init, MS!SlotInit, Holding, Fired
<1>2. IInv /\ [Next]_vars => [MS!SlotNext]_<<Holding, {m \in Mails : taken[m] > 0}>>
  BY SlotStep DEF Received
<1> QED
  BY <1>1, <1>2, Inductive, PTL DEF Spec, GroupsAreSlots, MS!SlotSpec
=============================================================================
