------------------------- MODULE MSMailboxPM_proofs -------------------------
(***************************************************************************)
(* Proofs about MSMailboxPM, for every size of the ring and every number   *)
(* of mails.                                                               *)
(***************************************************************************)
EXTENDS MSMailboxPM, TLAPS

\* The slot after i, as both indices advance.
Follow(i) == IF i = RingSize - 1 THEN 0 ELSE i + 1

\* The slot after a slot of PM_Mail is a slot.
LEMMA FollowType == \A i \in Slots : Follow(i) \in Slots
  BY PMAssumption DEF Slots, Follow

\* An index that has not wrapped yet, and what Wrap makes of it.
LEMMA WrapType ==
  /\ \A i \in Slots : Wrap(i) = i
  /\ \A i \in Slots : Wrap(i + 1) \in Slots
  /\ \A i \in Slots : i + 1 \in Slots \/ i + 1 = RingSize
  /\ Wrap(RingSize) \in Slots
  BY PMAssumption DEF Slots, Wrap

\* PMIndxG, once it is wrapped, is a slot of PM_Mail.
LEMMA WrapIndex == IndexOK => Wrap(PMIndxG) \in Slots
<1>1. CASE PMIndxG \in Slots
  BY <1>1, WrapType
<1>2. CASE PMIndxG = RingSize
  BY <1>2, WrapType
<1> QED BY <1>1, <1>2 DEF IndexOK

\* One store or two, PMIndxG and PMIndxP move to the slot after.
LEMMA WrapFollow == \A i \in Slots : Wrap(i + 1) = Follow(i)
  BY PMAssumption DEF Slots, Follow, Wrap

\* What the test for room computes: (PMIndxP + 1) % RingSize is the slot after
\* PMIndxP.
LEMMA ModFollow == \A i \in Slots : (i + 1) % RingSize = Follow(i)
<1>1. TAKE i \in Slots
<1>2. CASE i = RingSize - 1
  BY <1>2, PMAssumption DEF Slots, Follow
<1>3. CASE i # RingSize - 1
  BY <1>3, PMAssumption DEF Slots, Follow
<1> QED BY <1>2, <1>3
-----------------------------------------------------------------------------
(* Type correctness.                                                        *)

\* Every type holds at first.
LEMMA TypeInit ==
  ASSUME Init PROVE TypeOK
<1>1. BitsOK BY Zenon DEF BitsOK, Init
<1>2. StepsOK BY DEF StepsOK, Init
<1>3. 0 \in Slots /\ PMIndxP = 0 /\ PMIndxG = 0 BY PMAssumption DEF Slots, Init
<1>4. IndexOK BY <1>3 DEF IndexOK
<1>5. MailsOK BY PMAssumption DEF MailsOK, Init
<1>6. StatusReadOK BY DEF StatusReadOK, Init
<1> QED BY <1>1, <1>2, <1>4, <1>5, <1>6 DEF TypeOK

\* Every step keeps the types.
LEMMA TypeStep ==
  ASSUME TypeOK, [Next]_vars PROVE TypeOK'
<1>1. BitsOK /\ StepsOK /\ IndexOK /\ MailsOK /\ StatusReadOK
  BY DEF TypeOK
<1> USE DEF Next, MDrv_MSMailBox_Interrupt, Tasklet, Reader, Goto,
      BhAt, PMFire, PMRaise, EnableFlag, EnableMask, InterruptTest, InterruptClear,
      CallbackStart, CallbackOverflow, ReceiveBusySet, ReceiveCopy,
      ReceiveBusyClear, ReceiveFireClear, AdvanceP, Receive, CopyFirst,
      CopySecond, AdvanceG, WrapG, OverflowRead, OverflowWrite,
      vars, pmVars, irqVars, ringVars, rdVars, histVars
<1>2. BitsOK'
  <2>1. fire' \in BOOLEAN BY <1>1 DEF BitsOK
  <2>2. busy' \in BOOLEAN BY <1>1 DEF BitsOK, StatusReadOK
  <2>3. ovf' \in BOOLEAN BY <1>1 DEF BitsOK
  <2>4. status' \in BOOLEAN BY <1>1 DEF BitsOK
  <2>5. mask' \in BOOLEAN BY <1>1 DEF BitsOK
  <2>6. sched' \in BOOLEAN BY <1>1 DEF BitsOK
  <2>7. misjudged' \in BOOLEAN BY <1>1 DEF BitsOK
  <2>8. refused' \in BOOLEAN BY <1>1 DEF BitsOK
  <2>9. split' \in BOOLEAN BY <1>1 DEF BitsOK
  <2> QED
    BY <2>1, <2>2, <2>3, <2>4, <2>5, <2>6, <2>7, <2>8, <2>9, Zenon DEF BitsOK
<1>3. StepsOK' BY <1>1 DEF StepsOK
<1>4. IndexOK'
  <2>1. PMIndxP' \in Slots BY <1>1, WrapType DEF IndexOK
  <2>2. \/ PMIndxG' = PMIndxG /\ (pc = "wrap" => pc' = "wrap")
        \/ PMIndxG' = Wrap(PMIndxG)
        \/ (PMIndxG' = PMIndxG + 1 /\ pc = "advance" /\ pc' = "wrap")
        \/ (PMIndxG' = Wrap(PMIndxG + 1) /\ pc = "advance")
    BY <1>1
  <2>3. Wrap(PMIndxG) \in Slots BY <1>1, WrapIndex
  <2>4. pc = "advance" =>
          /\ Wrap(PMIndxG + 1) \in Slots
          /\ PMIndxG + 1 \in Slots \/ PMIndxG + 1 = RingSize
    BY <1>1, WrapType DEF IndexOK
  <2>5. PMIndxG' \in Slots \/ (PMIndxG' = RingSize /\ pc' = "wrap")
    BY <1>1, <2>2, <2>3, <2>4 DEF IndexOK
  <2> QED BY <2>1, <2>5 DEF IndexOK
<1>5. MailsOK'
  <2>1. PM_Mail' \in [Slots -> 0 .. MaxMails]
    BY <1>1 DEF MailsOK
  <2>2. word' \in 0 .. MaxMails /\ fired' \in 0 .. MaxMails
    BY <1>1, PMAssumption DEF MailsOK
  <2>3. last' \in 0 .. MaxMails
    BY <1>1 DEF MailsOK
  <2>4. pMail' \in [1 .. 2 -> 0 .. MaxMails]
    BY <1>1 DEF MailsOK, IndexOK, StepsOK
  <2> QED BY <2>1, <2>2, <2>3, <2>4 DEF MailsOK
<1>6. StatusReadOK' BY <1>1 DEF StatusReadOK, BitsOK
<1> QED BY <1>2, <1>3, <1>4, <1>5, <1>6 DEF TypeOK

\* Every variable keeps its type: neither PMIndxP nor, but for the one store
\* before the wrap, PMIndxG ever indexes past the 20 slots of PM_Mail, and
\* nothing but a mail fired is ever copied into or out of the ring.
THEOREM TypeCorrect == Spec => []TypeOK
  BY TypeInit, TypeStep, PTL DEF Spec
-----------------------------------------------------------------------------
(* The way of one mail.  A mail in the registers is at one of five stages,  *)
(* and at one only: fired but not raised, raised, waiting for the tasklet,  *)
(* received by it, refused.  The PM fires no other before it leaves them.   *)

Receiving == bh \in {"ovfS", "busyS", "copy", "busyC", "fireC"}

OneMail ==
  /\ mask \/ aFlag = "START"
  /\ (isr = "clear") <=> (status /\ sched)
  /\ fire <=> (pm = "raise" \/ status \/ sched \/ Receiving \/ refused)
  /\ pm = "raise" => (~status /\ ~sched /\ ~Receiving /\ ~refused)
  /\ (status \/ sched) => (~Receiving /\ ~refused)
  /\ Receiving => ~refused

(* The ring.  While the reader copies a slot the two indices differ; while  *)
(* the tasklet fills one there is room, or it misjudged; what was copied is *)
(* what was there, on both sides.                                           *)

Filling == bh \in {"busyS", "copy", "busyC", "fireC", "advance"}

RoomKept ==
  /\ pc \in {"copy1", "copy2", "advance"} => PMIndxG # PMIndxP
  /\ Filling => /\ Follow(PMIndxP) # PMIndxG
                /\ misjudged \/ Follow(PMIndxP) # Wrap(PMIndxG)

Copied ==
  /\ word = fired
  /\ bh \in {"busyC", "fireC"} => PM_Mail[PMIndxP] = fired
  /\ bh = "advance" => PM_Mail[PMIndxP] = IF fire THEN fired - 1 ELSE fired
  /\ pc \in {"copy2", "advance"} => pMail[1] = PM_Mail[PMIndxG]
  /\ pc = "advance" => pMail[2] = PM_Mail[PMIndxG]

IInv == TypeOK /\ OneMail /\ RoomKept /\ Copied /\ RingInOrder
-----------------------------------------------------------------------------
\* Every step keeps a mail at one stage.
LEMMA OneMailStep ==
  ASSUME TypeOK, OneMail, [Next]_vars PROVE OneMail'
<1>1. BitsOK /\ StepsOK
  BY DEF TypeOK
<1>2. BitsOK' /\ StepsOK'
  BY TypeStep DEF TypeOK
<1> USE DEF OneMail, Receiving
<1>3. CASE PMFire
  BY <1>1, <1>3 DEF PMFire, irqVars, histVars, BitsOK, StepsOK
<1>4. CASE PMRaise
  BY <1>1, <1>4 DEF PMRaise, histVars, BitsOK, StepsOK
<1>5. CASE EnableFlag
  BY <1>1, <1>5 DEF EnableFlag, pmVars, histVars, BitsOK, StepsOK
<1>6. CASE EnableMask
  BY <1>1, <1>6 DEF EnableMask, pmVars, histVars, BitsOK, StepsOK
<1>7. CASE InterruptTest
  BY <1>1, <1>7 DEF InterruptTest, Flagged, pmVars, histVars, BitsOK, StepsOK
<1>8. CASE InterruptClear
  BY <1>1, <1>8 DEF InterruptClear, pmVars, histVars, BitsOK, StepsOK
<1>9. CASE CallbackStart
  BY <1>1, <1>9 DEF CallbackStart, BhAt, pmVars, BitsOK, StepsOK
<1>10. CASE CallbackOverflow
  BY <1>1, <1>10 DEF CallbackOverflow, BhAt, irqVars, BitsOK, StepsOK
<1>11. CASE ReceiveBusySet \/ ReceiveCopy \/ ReceiveBusyClear
  BY <1>1, <1>11 DEF ReceiveBusySet, ReceiveCopy, ReceiveBusyClear, BhAt, pmVars,
       irqVars, histVars, BitsOK, StepsOK
<1>12. CASE ReceiveFireClear
  BY <1>1, <1>12 DEF ReceiveFireClear, BhAt, irqVars, histVars, BitsOK, StepsOK
<1>13. CASE AdvanceP
  BY <1>1, <1>13 DEF AdvanceP, BhAt, pmVars, irqVars, histVars, BitsOK, StepsOK
<1>14. CASE Receive \/ Reader \/ UNCHANGED vars
  <2>1. /\ UNCHANGED <<irqVars, bh, histVars>> /\ UNCHANGED <<fire, pm>>
    BY <1>14 DEF Receive, Reader, CopyFirst, CopySecond, AdvanceG, WrapG,
         OverflowRead, OverflowWrite, vars, pmVars
  <2> QED BY <1>1, <2>1 DEF irqVars, histVars, BitsOK, StepsOK
<1> QED
  BY <1>3, <1>4, <1>5, <1>6, <1>7, <1>8, <1>9, <1>10, <1>11, <1>12, <1>13, <1>14
     DEF Next, MDrv_MSMailBox_Interrupt, Tasklet

\* Every step keeps room for what the tasklet fills, and mail under the reader.
LEMMA RoomStep ==
  ASSUME TypeOK, RoomKept, [Next]_vars PROVE RoomKept'
<1>1. BitsOK /\ StepsOK /\ IndexOK
  BY DEF TypeOK
<1>2. PMIndxP \in Slots
  BY <1>1 DEF IndexOK
<1> USE DEF RoomKept, Filling
<1>3. CASE CallbackStart
  <2>1. Full <=> Follow(PMIndxP) = PMIndxG
    BY <1>2, ModFollow DEF Full
  <2>2. bh' = "busyS" => ~Full
    BY <1>3 DEF CallbackStart
  <2>3. ~Full => misjudged' \/ Follow(PMIndxP) # Wrap(PMIndxG)
    <3>1. CASE PMIndxG = RingSize
      <4>1. Wrap(PMIndxG) = 0
        BY <3>1 DEF Wrap
      <4>2. Follow(PMIndxP) = 0 => PMIndxP + 1 = RingSize
        BY <1>2, PMAssumption DEF Follow, Slots
      <4> QED BY <3>1, <4>1, <4>2, <1>3 DEF CallbackStart
    <3>2. CASE PMIndxG # RingSize
      BY <2>1, <3>2 DEF Wrap
    <3> QED BY <3>1, <3>2
  <2>4. bh' \in {"ovfS", "busyS"} /\ UNCHANGED <<PMIndxP, PMIndxG, pc>>
    BY <1>3 DEF CallbackStart, ringVars, rdVars
  <2> QED BY <2>1, <2>2, <2>3, <2>4 DEF Wrap, Follow
<1>4. CASE AdvanceP
  BY <1>2, <1>4, WrapFollow DEF AdvanceP, BhAt, rdVars
<1>5. CASE Receive \/ Reader
  <2>1. bh' = "idle"
    BY <1>5 DEF Receive, Reader, CopyFirst, CopySecond, AdvanceG, WrapG, OverflowRead,
         OverflowWrite, Goto, ThreadRuns
  <2>2. pc' \in {"copy1", "copy2", "advance"} => PMIndxG' # PMIndxP'
    BY <1>5 DEF Receive, Reader, CopyFirst, CopySecond, AdvanceG, WrapG, OverflowRead,
         OverflowWrite, Goto, ringVars
  <2> QED BY <2>1, <2>2
<1>6. CASE ReceiveBusySet \/ ReceiveCopy \/ ReceiveBusyClear \/ ReceiveFireClear
  <2>1. Filling /\ UNCHANGED <<PMIndxP, PMIndxG, pc, misjudged>>
    BY <1>6 DEF ReceiveBusySet, ReceiveCopy, ReceiveBusyClear, ReceiveFireClear, BhAt,
         ringVars, rdVars, histVars
  <2> QED BY <2>1 DEF Wrap, Follow
<1>7. CASE \/ PMFire \/ PMRaise \/ EnableFlag \/ EnableMask
           \/ MDrv_MSMailBox_Interrupt \/ CallbackOverflow \/ UNCHANGED vars
  <2>1. /\ UNCHANGED <<PMIndxP, PMIndxG, pc, misjudged>>
        /\ bh' = bh \/ bh' = "idle"
    BY <1>7 DEF PMFire, PMRaise, EnableFlag, EnableMask, MDrv_MSMailBox_Interrupt,
         InterruptTest, InterruptClear, CallbackOverflow, vars, ringVars, rdVars, histVars
  <2> QED BY <2>1 DEF Wrap, Follow
<1> QED
  BY <1>3, <1>4, <1>5, <1>6, <1>7 DEF Next, Tasklet

\* Every step keeps what was copied equal to what it was copied from.
LEMMA CopiedStep ==
  ASSUME TypeOK, OneMail, RoomKept, Copied, [Next]_vars PROVE Copied'
<1>1. StepsOK /\ IndexOK /\ MailsOK
  BY DEF TypeOK
<1> USE DEF Copied
<1>2. CASE PMFire
  <2>1. bh \notin {"busyC", "fireC"}
    BY <1>2 DEF PMFire, OneMail, Receiving
  <2>2. fired' - 1 = fired
    BY <1>1, <1>2 DEF PMFire, MailsOK
  <2> QED BY <1>2, <2>1, <2>2 DEF PMFire, ringVars, rdVars
<1>3. CASE ReceiveCopy
  <2>1. PMIndxP \in Slots /\ PM_Mail' = [PM_Mail EXCEPT ![PMIndxP] = word]
    BY <1>1, <1>3 DEF ReceiveCopy, IndexOK
  <2>2. PM_Mail'[PMIndxP] = word
    BY <1>1, <2>1 DEF MailsOK
  <2>3. pc \in {"copy2", "advance"} => PM_Mail'[PMIndxG] = PM_Mail[PMIndxG]
    BY <1>1, <2>1 DEF MailsOK, IndexOK, RoomKept
  <2> QED BY <1>3, <2>2, <2>3 DEF ReceiveCopy, pmVars, rdVars
<1>4. CASE ReceiveFireClear
  BY <1>4 DEF ReceiveFireClear, BhAt, ringVars, rdVars
<1>5. CASE CopyFirst
  BY <1>1, <1>5 DEF CopyFirst, Goto, pmVars, ringVars, MailsOK
<1>6. CASE CopySecond
  BY <1>1, <1>6 DEF CopySecond, Goto, pmVars, ringVars, MailsOK
<1>7. CASE AdvanceG \/ WrapG
  <2>1. /\ pc' \notin {"copy2", "advance"} /\ bh' = "idle"
        /\ UNCHANGED <<word, fired>>
    BY <1>7 DEF AdvanceG, WrapG, Goto, ThreadRuns, pmVars
  <2> QED BY <2>1
<1>8. CASE \/ PMRaise \/ EnableFlag \/ EnableMask \/ MDrv_MSMailBox_Interrupt
           \/ CallbackStart \/ CallbackOverflow \/ ReceiveBusySet
           \/ ReceiveBusyClear \/ AdvanceP
           \/ Receive \/ OverflowRead \/ OverflowWrite \/ UNCHANGED vars
  <2>1. /\ UNCHANGED <<word, fired, fire, PM_Mail, PMIndxG, pMail>>
        /\ pc' = pc \/ pc' \notin {"copy2", "advance"}
    BY <1>8 DEF PMRaise, EnableFlag, EnableMask, MDrv_MSMailBox_Interrupt, InterruptTest,
         InterruptClear, CallbackStart, CallbackOverflow, ReceiveBusySet,
         ReceiveBusyClear, AdvanceP, Receive, OverflowRead, OverflowWrite, Goto, vars,
         pmVars, ringVars, rdVars
  <2>2. \/ bh' = bh /\ PMIndxP' = PMIndxP
        \/ bh = "busyC" /\ bh' = "fireC" /\ PMIndxP' = PMIndxP
        \/ bh' \notin {"busyC", "fireC", "advance"}
    BY <1>8 DEF PMRaise, EnableFlag, EnableMask, MDrv_MSMailBox_Interrupt, InterruptTest,
         InterruptClear, CallbackStart, CallbackOverflow, ReceiveBusySet,
         ReceiveBusyClear, AdvanceP, Receive, OverflowRead, OverflowWrite, BhAt, vars,
         ringVars
  <2> QED BY <2>1, <2>2
<1> QED
  BY <1>2, <1>3, <1>4, <1>5, <1>6, <1>7, <1>8 DEF Next, Tasklet, Reader

-----------------------------------------------------------------------------
(* The mails held, as arithmetic on the two indices.                        *)

\* The mails between g and p, and the slot k places on from g: Held and SlotOf
\* with the read index wrapped.
Dist(p, g) == IF p >= g THEN p - g ELSE p + RingSize - g
At(g, k) == LET i == g + k IN IF i < RingSize THEN i ELSE i - RingSize

\* The mails in PM_Mail are those from PMIndxG up to PMIndxP.
LEMMA HeldIsDist == Held = Dist(PMIndxP, Wrap(PMIndxG))
  BY DEF Held, Dist

\* Where the k-th mail of PM_Mail is.
LEMMA SlotOfIsAt == \A k \in Slots : SlotOf(k) = At(Wrap(PMIndxG), k)
  BY DEF SlotOf, At

\* The mails held are within the ring, each in a slot of its own, and
\* none in the slot that PMIndxP names.
LEMMA DistAt ==
  ASSUME NEW p \in Slots, NEW g \in Slots
  PROVE  /\ Dist(p, g) \in Slots
         /\ At(g, Dist(p, g)) = p
         /\ \A k \in Slots : At(g, k) \in Slots
         /\ \A k \in Slots : k < Dist(p, g) => At(g, k) # p
  BY PMAssumption DEF Slots, Dist, At

\* Putting: the distance grows by one unless the write index meets g.
LEMMA DistPut ==
  ASSUME NEW p \in Slots, NEW g \in Slots, Follow(p) # g
  PROVE  Dist(Follow(p), g) = Dist(p, g) + 1
  BY PMAssumption DEF Slots, Dist, Follow

\* Getting: the distance shrinks by one and every mail is one place nearer.
LEMMA DistGet ==
  ASSUME NEW p \in Slots, NEW g \in Slots, p # g
  PROVE  /\ Dist(p, g) = Dist(p, Follow(g)) + 1
         /\ At(g, 0) = g
         /\ \A k \in Slots : k < Dist(p, Follow(g)) =>
               k + 1 \in Slots /\ At(Follow(g), k) = At(g, k + 1)
  BY PMAssumption DEF Slots, Dist, At, Follow

\* Every step keeps the mails in the ring, and all of them, in order.
LEMMA OrderStep ==
  ASSUME TypeOK, OneMail, RoomKept, Copied, RingInOrder, [Next]_vars
  PROVE  RingInOrder'
<1>1. BitsOK /\ StepsOK /\ IndexOK /\ MailsOK
  BY DEF TypeOK
<1>2. PMIndxP \in Slots /\ Wrap(PMIndxG) \in Slots
  BY <1>1, WrapIndex DEF IndexOK
<1>3. SUFFICES ASSUME ~misjudged'
      PROVE  /\ \A k \in Slots : k < Held' => PM_Mail'[SlotOf(k)'] = last' + 1 + k
             /\ last' + Held' + Outside' = fired'
  BY DEF RingInOrder
<1>4. ~misjudged
  BY <1>1, <1>3 DEF Next, MDrv_MSMailBox_Interrupt, Tasklet, Reader, PMFire, PMRaise,
       EnableFlag, EnableMask, InterruptTest, InterruptClear, CallbackStart,
       CallbackOverflow, ReceiveBusySet, ReceiveCopy, ReceiveBusyClear,
       ReceiveFireClear, AdvanceP, Receive, CopyFirst, CopySecond, AdvanceG, WrapG,
       OverflowRead, OverflowWrite, vars, histVars
<1>5. /\ \A k \in Slots : k < Held => PM_Mail[SlotOf(k)] = last + 1 + k
      /\ last + Held + Outside = fired
  BY <1>4 DEF RingInOrder
<1>6. Held \in Slots
  BY <1>2, HeldIsDist, DistAt
<1>7. ASSUME UNCHANGED <<PM_Mail, PMIndxP, last>>, Wrap(PMIndxG') = Wrap(PMIndxG)
      PROVE  /\ Held' = Held
             /\ \A k \in Slots : k < Held' => PM_Mail'[SlotOf(k)'] = last' + 1 + k
  <2>1. Held' = Held BY <1>7 DEF Held
  <2>2. ASSUME NEW k \in Slots PROVE SlotOf(k)' = SlotOf(k)
    BY <1>7 DEF SlotOf
  <2> QED BY <1>5, <1>7, <2>1, <2>2
<1>8. CASE PMFire
  <2>1. /\ UNCHANGED <<PM_Mail, PMIndxP, last, PMIndxG, bh>>
        /\ fire' /\ ~fire /\ fired' = fired + 1
    BY <1>8 DEF PMFire, ringVars, rdVars
  <2>2. Outside' = Outside + 1
    BY <2>1 DEF Outside
  <2>3. Outside \in Nat
    BY DEF Outside
  <2> QED BY <1>1, <1>5, <1>6, <1>7, <2>1, <2>2, <2>3 DEF MailsOK, Slots
<1>9. CASE ReceiveCopy
  <2>1. /\ UNCHANGED <<PMIndxP, PMIndxG, last, fired, fire>>
        /\ PM_Mail' = [PM_Mail EXCEPT ![PMIndxP] = word]
        /\ bh # "advance" /\ bh' # "advance"
    BY <1>9 DEF ReceiveCopy, BhAt, pmVars, rdVars
  <2>2. Held' = Held /\ Outside' = Outside
    BY <2>1 DEF Held, Outside
  <2>3. ASSUME NEW k \in Slots, k < Held
        PROVE  PM_Mail'[SlotOf(k)'] = PM_Mail[SlotOf(k)]
    <3>1. SlotOf(k)' = SlotOf(k)
      BY <2>1 DEF SlotOf
    <3>2. SlotOf(k) \in Slots /\ SlotOf(k) # PMIndxP
      BY <1>2, <2>3, HeldIsDist, SlotOfIsAt, DistAt
    <3> QED BY <1>1, <2>1, <3>1, <3>2 DEF MailsOK
  <2> QED BY <1>5, <2>1, <2>2, <2>3
<1>10. CASE ReceiveFireClear
  <2>1. /\ UNCHANGED <<PM_Mail, PMIndxP, last, PMIndxG, fired>>
        /\ fire /\ ~fire' /\ bh = "fireC" /\ bh' = "advance"
    BY <1>10 DEF ReceiveFireClear, BhAt, ringVars, rdVars, OneMail, Receiving
  <2>2. Outside' = Outside
    BY <2>1 DEF Outside
  <2> QED BY <1>5, <1>7, <2>1, <2>2
<1>11. CASE AdvanceP
  <2>1. /\ UNCHANGED <<PM_Mail, last, PMIndxG, fired, fire>>
        /\ PMIndxP' = Follow(PMIndxP)
        /\ bh = "advance" /\ bh' = "idle"
    BY <1>2, <1>11, WrapFollow DEF AdvanceP, BhAt, pmVars, rdVars
  <2>2. Outside = Outside' + 1 /\ Outside' \in Nat /\ Outside' = (IF fire THEN 1 ELSE 0)
    BY <2>1 DEF Outside
  <2>3. Held' = Held + 1
    <3>1. Follow(PMIndxP) # Wrap(PMIndxG)
      BY <1>4, <2>1 DEF RoomKept, Filling
    <3>2. Held' = Dist(Follow(PMIndxP), Wrap(PMIndxG))
      BY <2>1 DEF Held, Dist
    <3> QED BY <1>2, <3>1, <3>2, HeldIsDist, DistPut
  <2>4. ASSUME NEW k \in Slots, k < Held'
        PROVE  PM_Mail'[SlotOf(k)'] = last' + 1 + k
    <3>1. SlotOf(k)' = SlotOf(k)
      BY <2>1 DEF SlotOf
    <3>2. CASE k < Held
      BY <1>5, <2>1, <3>1, <3>2
    <3>3. CASE k = Held
      <4>1. SlotOf(k) = PMIndxP
        BY <1>2, <3>3, HeldIsDist, SlotOfIsAt, DistAt
      <4>2. PM_Mail[PMIndxP] = fired - Outside'
        BY <1>1, <2>1, <2>2 DEF Copied, MailsOK
      <4> QED BY <1>1, <1>5, <1>6, <2>1, <2>2, <3>1, <3>3, <4>1, <4>2
              DEF MailsOK, Slots
    <3> QED BY <1>6, <2>3, <2>4, <3>2, <3>3 DEF Slots
  <2> QED BY <1>1, <1>5, <1>6, <2>1, <2>2, <2>3, <2>4 DEF MailsOK, Slots
<1>12. CASE AdvanceG
  <2>1. /\ UNCHANGED <<PM_Mail, PMIndxP, fired, fire, bh>>
        /\ last' = pMail[1] /\ pc = "advance"
        /\ PMIndxG' = IF split THEN PMIndxG + 1 ELSE Wrap(PMIndxG + 1)
    BY <1>12 DEF AdvanceG, Goto, pmVars
  <2>2. PMIndxG \in Slots /\ Wrap(PMIndxG) = PMIndxG /\ PMIndxG # PMIndxP
    BY <1>1, <2>1, WrapType DEF IndexOK, RoomKept
  <2>3. Wrap(PMIndxG') = Follow(PMIndxG)
    BY <2>1, <2>2, WrapFollow, WrapType, FollowType
  <2>4. Held' = Dist(PMIndxP, Follow(PMIndxG))
    BY <2>1, <2>3 DEF Held, Dist
  <2>5. Held = Held' + 1 /\ Held' \in Slots
    BY <1>2, <2>2, <2>4, HeldIsDist, DistGet, DistAt, FollowType
  <2>9. Held' \in Nat /\ Held \in Nat /\ last \in Nat
    <3>1. \A i \in Slots : i \in Nat
      BY PMAssumption DEF Slots
    <3>2. last \in Nat
      BY <1>1, PMAssumption DEF MailsOK
    <3> QED BY <1>6, <2>5, <3>1, <3>2
  <2>6. last' = last + 1
    <3>1. 0 \in Slots /\ 0 < Held
      <4>1. 0 \in Slots
        BY PMAssumption DEF Slots
      <4>2. \A h, n \in Nat : n = h + 1 => 0 < n
        OBVIOUS
      <4> QED BY <2>5, <2>9, <4>1, <4>2
    <3>2. SlotOf(0) = PMIndxG
      BY <1>2, <2>2, <3>1, SlotOfIsAt, DistGet
    <3> QED BY <1>1, <1>5, <2>1, <3>1, <3>2 DEF Copied, MailsOK
  <2>7. ASSUME NEW k \in Slots, k < Held'
        PROVE  PM_Mail'[SlotOf(k)'] = last' + 1 + k
    <3>1. SlotOf(k)' = At(Follow(PMIndxG), k)
      BY <2>3 DEF SlotOf, At
    <3>2. k + 1 \in Slots /\ SlotOf(k)' = SlotOf(k + 1)
      BY <1>2, <2>2, <2>4, <2>7, <3>1, SlotOfIsAt, DistGet
    <3>3. PM_Mail[SlotOf(k + 1)] = last + 1 + (k + 1)
      <4>1. k \in Nat /\ k + 1 < Held
        <5>1. k \in Nat
          BY PMAssumption DEF Slots
        <5>2. \A h, n, i \in Nat : n = h + 1 /\ i < h => i + 1 < n
          OBVIOUS
        <5> QED BY <2>5, <2>7, <2>9, <5>1, <5>2
      <4> QED BY <1>5, <3>2, <4>1
    <3>4. k \in Nat
      BY PMAssumption DEF Slots
    <3> QED BY <2>1, <2>6, <2>9, <3>2, <3>3, <3>4
  <2>8. Outside' = Outside /\ Outside \in Nat
    BY <2>1 DEF Outside
  <2>10. last' + Held' + Outside' = fired'
    BY <1>5, <2>1, <2>5, <2>6, <2>8, <2>9
  <2> QED BY <2>7, <2>10
<1>13. CASE WrapG
  <2>1. /\ UNCHANGED <<PM_Mail, PMIndxP, last, fired, fire, bh>>
        /\ PMIndxG' = Wrap(PMIndxG)
    BY <1>13 DEF WrapG, pmVars
  <2>2. Wrap(PMIndxG') = Wrap(PMIndxG)
    BY <1>2, <2>1, WrapType
  <2>3. Outside' = Outside
    BY <2>1 DEF Outside
  <2> QED BY <1>5, <1>7, <2>1, <2>2, <2>3
<1>14. CASE \/ PMRaise \/ EnableFlag \/ EnableMask \/ MDrv_MSMailBox_Interrupt
            \/ CallbackStart \/ CallbackOverflow \/ ReceiveBusySet
            \/ ReceiveBusyClear \/ Receive \/ CopyFirst \/ CopySecond
            \/ OverflowRead \/ OverflowWrite \/ UNCHANGED vars
  <2>1. /\ UNCHANGED <<PM_Mail, PMIndxP, PMIndxG, last, fired, fire>>
        /\ (bh' = "advance") <=> (bh = "advance")
    BY <1>14 DEF PMRaise, EnableFlag, EnableMask, MDrv_MSMailBox_Interrupt, InterruptTest,
         InterruptClear, CallbackStart, CallbackOverflow, ReceiveBusySet,
         ReceiveBusyClear, Receive, CopyFirst, CopySecond, OverflowRead, OverflowWrite,
         BhAt, vars, pmVars, ringVars, rdVars
  <2>2. Outside' = Outside
    BY <2>1 DEF Outside
  <2> QED BY <1>5, <1>7, <2>1, <2>2
<1> QED
  BY <1>8, <1>9, <1>10, <1>11, <1>12, <1>13, <1>14 DEF Next, Tasklet, Reader

-----------------------------------------------------------------------------
(* The invariant and what follows from it.                                  *)

\* An opened device, with PM_Mail empty, satisfies the invariant.
LEMMA IInvInit ==
  ASSUME Init PROVE IInv
<1>1. TypeOK
  BY TypeInit
<1>2. OneMail
  BY Zenon DEF Init, OneMail, Receiving
<1>3. RoomKept
  BY DEF Init, RoomKept, Filling
<1>4. Copied
  BY DEF Init, Copied
<1>5. RingInOrder
  <2>1. Held = 0 /\ Outside = 0
    BY PMAssumption DEF Init, Held, Wrap, Outside
  <2>2. \A k \in Slots : ~(k < 0)
    BY PMAssumption DEF Slots
  <2> QED BY <2>1, <2>2 DEF Init, RingInOrder
<1> QED BY <1>1, <1>2, <1>3, <1>4, <1>5 DEF IInv

\* Every step of handler, tasklet, reader and PM keeps the invariant.
LEMMA IInvStep ==
  ASSUME IInv, [Next]_vars PROVE IInv'
<1>1. TypeOK /\ OneMail /\ RoomKept /\ Copied /\ RingInOrder
  BY DEF IInv
<1> QED BY <1>1, TypeStep, OneMailStep, RoomStep, CopiedStep, OrderStep DEF IInv

\* The strengthening of the ring's properties that every step preserves.
THEOREM Inductive == Spec => []IInv
  BY IInvInit, IInvStep, PTL DEF Spec

\* callback_receive_mail_int, hal_opReceive and _receive_mail_fromPM lose,
\* repeat and reorder no mail, for every size of the ring, as long as no test
\* for room fell between two stores of PMIndxG.
THEOREM InOrder == Spec => []RingInOrder
<1>1. IInv => RingInOrder
  BY DEF IInv
<1> QED BY <1>1, Inductive, PTL

\* What the reader has copied is the oldest mail, whole.
LEMMA CopyHolds == IInv => CopyIntact
<1> SUFFICES ASSUME IInv, pc = "advance"
             PROVE  pMail[1] = pMail[2] /\ (~misjudged => pMail[1] = last + 1)
  BY DEF CopyIntact
<1>1. PMIndxG \in Slots /\ PMIndxP \in Slots /\ PMIndxG # PMIndxP
  BY DEF IInv, TypeOK, IndexOK, RoomKept
<1>2. pMail[1] = PM_Mail[PMIndxG] /\ pMail[2] = PM_Mail[PMIndxG]
  BY DEF IInv, Copied
<1>3. ASSUME ~misjudged PROVE PM_Mail[PMIndxG] = last + 1
  <2>1. Wrap(PMIndxG) = PMIndxG
    BY <1>1, WrapType
  <2>2. 0 \in Slots /\ 0 < Held
    <3>1. Held \in Slots /\ Held # 0
      BY <1>1, PMAssumption, <2>1 DEF Held, Slots
    <3> QED BY <3>1, PMAssumption DEF Slots
  <2>3. SlotOf(0) = PMIndxG
    BY <1>1, <2>1, <2>2, SlotOfIsAt, DistGet
  <2>4. last \in Nat
    BY PMAssumption DEF IInv, TypeOK, MailsOK
  <2> QED BY <1>3, <2>2, <2>3, <2>4 DEF IInv, RingInOrder
<1> QED BY <1>2, <1>3

\* The memcpy of _receive_mail_fromPM, though no lock is held over it, returns
\* one mail and the right one.
THEOREM CopiesIntact == Spec => []CopyIntact
  BY CopyHolds, Inductive, PTL

\* No interrupt and no mail is lost between the PM, the handler and the tasklet.
THEOREM Accounted == Spec => []MailAccounted
<1>1. IInv => MailAccounted
  BY DEF IInv, OneMail, MailAccounted, Receiving
<1> QED BY <1>1, Inductive, PTL

\* A mail that the ring refused is never received, and the PM never fires again.
THEOREM Refused == Spec => RefusalIsFinal
<1>1. IInv /\ [Next]_vars => [refused => UNCHANGED <<fire, fired>>]_vars
  <2> SUFFICES ASSUME IInv, [Next]_vars, refused PROVE UNCHANGED <<fire, fired>>
    OBVIOUS
  <2>1. fire /\ bh # "fireC"
    BY DEF IInv, OneMail, Receiving
  <2> QED
    BY <2>1 DEF Next, MDrv_MSMailBox_Interrupt, Tasklet, Reader, PMFire, PMRaise,
       EnableFlag, EnableMask, InterruptTest, InterruptClear, CallbackStart,
       CallbackOverflow, ReceiveBusySet, ReceiveCopy, ReceiveBusyClear,
       ReceiveFireClear, BhAt, AdvanceP, Receive, CopyFirst, CopySecond, AdvanceG, WrapG,
       OverflowRead, OverflowWrite, vars, pmVars
<1> QED BY <1>1, Inductive, PTL DEF Spec, RefusalIsFinal
-----------------------------------------------------------------------------
(* The ring implements MailFifo.  Short of a misjudged test the mails held  *)
(* are the ones after last, so what a step does to the queue is what it     *)
(* does to last and to their number.                                        *)

\* In a ring in order, PM_Mail from PMIndxG on is the mails after last.
Shape ==
  ~misjudged => /\ Held \in Slots /\ last \in Nat
                /\ Queue = [k \in 1 .. Held |-> last + k]

LEMMA ShapeHolds == IInv => Shape
<1> SUFFICES ASSUME IInv, ~misjudged
             PROVE  /\ Held \in Slots /\ last \in Nat
                    /\ Queue = [k \in 1 .. Held |-> last + k]
  BY DEF Shape
<1>1. Held \in Slots
  BY WrapIndex, HeldIsDist, DistAt DEF IInv, TypeOK, IndexOK
<1>2. last \in Nat
  BY PMAssumption DEF IInv, TypeOK, MailsOK
<1>3. ASSUME NEW k \in 1 .. Held PROVE PM_Mail[SlotOf(k - 1)] = last + k
  <2>1. k - 1 \in Slots /\ k - 1 < Held
    BY <1>1, <1>3, PMAssumption DEF Slots
  <2>2. PM_Mail[SlotOf(k - 1)] = last + 1 + (k - 1)
    BY <2>1 DEF IInv, RingInOrder
  <2>3. last + 1 + (k - 1) = last + k
    BY <1>1, <1>2, <1>3, PMAssumption DEF Slots
  <2> QED BY <2>2, <2>3
<1> QED BY <1>1, <1>2, <1>3 DEF Queue

\* What one step does to the mails held: nothing, one more, or the oldest gone.
LEMMA HeldStep ==
  ASSUME IInv, IInv', Shape, Shape', [Next]_vars, ~misjudged, ~misjudged'
  PROVE  \/ Held' = Held /\ last' = last
         \/ Held' = Held + 1 /\ last' = last
         \/ Held = Held' + 1 /\ last' = last + 1
<1>1. last + Held + Outside = fired /\ last' + Held' + Outside' = fired'
  BY DEF IInv, RingInOrder
<1>2. /\ Held \in Nat /\ Held' \in Nat /\ last \in Nat /\ last' \in Nat
      /\ Outside \in Nat /\ Outside' \in Nat
  BY PMAssumption DEF Shape, Slots, Outside
<1>2a. PICK l, h, i, o \in Nat :
        l = last /\ h = Held /\ i = Held' /\ o = Outside
  BY <1>2
<1>3. CASE AdvanceG
  <2>1. UNCHANGED <<fired, fire, bh>> /\ pc = "advance" /\ last' = pMail[1]
    BY <1>3 DEF AdvanceG, Goto, pmVars
  <2>2. last' = last + 1
    BY <2>1, CopyHolds DEF CopyIntact
  <2>3. Outside' = Outside
    BY <2>1 DEF Outside
  <2>4. last + Held + Outside = (last + 1) + Held' + Outside
    BY <1>1, <2>1, <2>2, <2>3
  <2>5. l + h + o = (l + 1) + i + o
    BY <1>2a, <2>4
  <2>6. h = i + 1
    BY <2>5
  <2> QED BY <1>2a, <2>2, <2>6
<1>4. CASE AdvanceP
  <2>1. UNCHANGED <<fired, fire, last>> /\ bh = "advance" /\ bh' = "idle"
    BY <1>4 DEF AdvanceP, BhAt, pmVars, rdVars
  <2>2. Outside = Outside' + 1
    BY <2>1 DEF Outside
  <2>3. last + Held + (Outside' + 1) = last + Held' + Outside'
    BY <1>1, <2>1, <2>2
  <2>4. PICK u \in Nat : u = Outside'
    BY <1>2
  <2>5. l + h + (u + 1) = l + i + u
    BY <1>2a, <2>3, <2>4
  <2>6. i = h + 1
    BY <2>5
  <2> QED BY <1>2a, <2>1, <2>6
<1>5. CASE PMFire
  <2>1. UNCHANGED <<last, bh>> /\ ~fire /\ fire' /\ fired' = fired + 1
    BY <1>5 DEF PMFire, rdVars
  <2>2. Outside' = Outside + 1
    BY <2>1 DEF Outside
  <2>3. (last + Held + Outside) + 1 = last + Held' + (Outside + 1)
    BY <1>1, <2>1, <2>2
  <2>4. (l + h + o) + 1 = l + i + (o + 1)
    BY <1>2a, <2>3
  <2>5. i = h
    BY <2>4
  <2> QED BY <1>2a, <2>1, <2>5
<1>6. CASE ReceiveFireClear
  <2>1. UNCHANGED <<last, fired>> /\ bh = "fireC" /\ bh' = "advance" /\ ~fire'
    BY <1>6 DEF ReceiveFireClear, BhAt, rdVars
  <2>2. fire
    BY <2>1 DEF IInv, OneMail, Receiving
  <2>3. Outside' = Outside
    BY <2>1, <2>2 DEF Outside
  <2>4. last + Held + Outside = last + Held' + Outside
    BY <1>1, <2>1, <2>3
  <2>5. l + h + o = l + i + o
    BY <1>2a, <2>4
  <2>6. i = h
    BY <2>5
  <2> QED BY <1>2a, <2>1, <2>6
<1>7. CASE \/ PMRaise \/ EnableFlag \/ EnableMask \/ MDrv_MSMailBox_Interrupt
           \/ CallbackStart \/ CallbackOverflow \/ ReceiveBusySet \/ ReceiveCopy
           \/ ReceiveBusyClear \/ Receive \/ CopyFirst \/ CopySecond \/ WrapG
           \/ OverflowRead \/ OverflowWrite \/ UNCHANGED vars
  <2>1. /\ UNCHANGED <<last, fired, fire>>
        /\ (bh' = "advance") <=> (bh = "advance")
    BY <1>7 DEF PMRaise, EnableFlag, EnableMask, MDrv_MSMailBox_Interrupt, InterruptTest,
         InterruptClear, CallbackStart, CallbackOverflow, ReceiveBusySet, ReceiveCopy,
         ReceiveBusyClear, Receive, CopyFirst, CopySecond, WrapG, OverflowRead,
         OverflowWrite, BhAt, vars, pmVars, rdVars
  <2>2. Outside' = Outside
    BY <2>1 DEF Outside
  <2>3. last + Held + Outside = last + Held' + Outside
    BY <1>1, <2>1, <2>2
  <2>4. l + h + o = l + i + o
    BY <1>2a, <2>3
  <2>5. i = h
    BY <2>4
  <2> QED BY <1>2a, <2>1, <2>5
<1> QED
  BY <1>3, <1>4, <1>5, <1>6, <1>7 DEF Next, Tasklet, Reader

\* As sequences: one more mail is an Append, the oldest gone a Tail.
LEMMA RunAppend ==
  ASSUME NEW n \in Nat, NEW l \in Nat
  PROVE  [k \in 1 .. n + 1 |-> l + k] = Append([k \in 1 .. n |-> l + k], l + n + 1)
<1> DEFINE q == [k \in 1 .. n |-> l + k]
<1>1. q \in Seq(Nat) /\ Len(q) = n
  OBVIOUS
<1>2. Append(q, l + n + 1) = [k \in 1 .. n + 1 |-> IF k = n + 1 THEN l + n + 1 ELSE q[k]]
  BY <1>1
<1>3. \A k \in 1 .. n + 1 : l + k = IF k = n + 1 THEN l + n + 1 ELSE q[k]
  OBVIOUS
<1> QED BY <1>2, <1>3

LEMMA RunTail ==
  ASSUME NEW n \in Nat, NEW l \in Nat
  PROVE  LET q == [k \in 1 .. n + 1 |-> l + k] IN
         /\ q # <<>> /\ Head(q) = l + 1
         /\ Tail(q) = [k \in 1 .. n |-> l + 1 + k]
<1> DEFINE q == [k \in 1 .. n + 1 |-> l + k]
<1>1. q \in Seq(Nat) /\ Len(q) = n + 1
  OBVIOUS
<1>2. q # <<>> /\ Head(q) = l + 1
  BY <1>1
<1>3. Tail(q) = [k \in 1 .. n |-> q[k + 1]]
  BY <1>1
<1>4. \A k \in 1 .. n : q[k + 1] = l + 1 + k
  OBVIOUS
<1> QED BY <1>2, <1>3, <1>4

\* Every step of the ring is one of MailFifo's, or leaves its queue alone.
LEMMA FifoStep ==
  ASSUME IInv, IInv', Shape, Shape', [Next]_vars, ~misjudged, ~misjudged'
  PROVE  MF!FifoNext \/ UNCHANGED <<Queue, last>>
<1>1. /\ Held \in Nat /\ Held \in Slots /\ last \in Nat
      /\ Queue = [k \in 1 .. Held |-> last + k]
  BY PMAssumption DEF Shape, Slots
<1>2. /\ Held' \in Nat /\ Held' \in Slots /\ last' \in Nat
      /\ Queue' = [k \in 1 .. Held' |-> last' + k]
  BY PMAssumption DEF Shape, Slots
<1>3. CASE Held' = Held /\ last' = last
  BY <1>1, <1>2, <1>3
<1>4. CASE Held' = Held + 1 /\ last' = last
  <2>1. Queue' = Append(Queue, last + Held + 1)
    BY <1>1, <1>2, <1>4, RunAppend
  <2>2. Len(Queue) < RingSize - 1
    <3>1. Len(Queue) = Held
      BY <1>1
    <3> QED BY <1>1, <1>2, <1>4, <3>1, PMAssumption DEF Slots
  <2>3. last + Held + 1 \in 1 .. MaxMails
    <3>1. last' + Held' + Outside' = fired' /\ fired' \in 0 .. MaxMails
      BY DEF IInv, RingInOrder, TypeOK, MailsOK
    <3>2. Outside' \in Nat
      BY DEF Outside
    <3>3. last' + Held' = last + Held + 1
      BY <1>1, <1>4
    <3>4. \A s, o, f, n \in Nat : s + o = f /\ f <= n => s <= n
      OBVIOUS
    <3>5. fired' \in Nat /\ fired' <= MaxMails
      BY <3>1, PMAssumption
    <3>6. last + Held + 1 \in Nat /\ last + Held + 1 >= 1
      BY <1>1
    <3>7. last + Held + 1 <= MaxMails
      BY <3>1, <3>2, <3>3, <3>4, <3>5, <3>6, PMAssumption
    <3> QED BY <3>6, <3>7, PMAssumption
  <2>4. MF!Put(last + Held + 1)
    BY <1>4, <2>1, <2>2 DEF MF!Put
  <2> QED BY <2>3, <2>4 DEF MF!FifoNext
<1>5. CASE Held = Held' + 1 /\ last' = last + 1
  <2>1. Queue # <<>> /\ Head(Queue) = last' /\ Tail(Queue) = Queue'
    <3>1. Queue = [k \in 1 .. Held' + 1 |-> last + k]
      BY <1>1, <1>5
    <3>2. Queue' = [k \in 1 .. Held' |-> last + 1 + k]
      BY <1>2, <1>5
    <3>3. PICK n \in Nat : n = Held'
      BY <1>2
    <3>4. PICK l \in Nat : l = last
      BY <1>1
    <3>5. Queue = [k \in 1 .. n + 1 |-> l + k]
      BY <3>1, <3>3, <3>4
    <3>6. /\ Queue # <<>> /\ Head(Queue) = l + 1
          /\ Tail(Queue) = [k \in 1 .. n |-> l + 1 + k]
      BY <3>5, RunTail
    <3> QED BY <1>5, <3>2, <3>3, <3>4, <3>6
  <2>2. MF!Get
    BY <2>1 DEF MF!Get
  <2> QED BY <2>2 DEF MF!FifoNext
<1> QED BY <1>3, <1>4, <1>5, HeldStep

\* PM_Mail with its two indices implements the bounded FIFO of MailFifo, for
\* every size of the ring, until a test for room is misjudged.
THEOREM RefinesFifo == Spec => RingIsFifo
<1>1. Init => MF!FifoInit
  <2> SUFFICES ASSUME Init PROVE MF!FifoInit
    OBVIOUS
  <2>1. Held = 0 /\ last = 0
    BY PMAssumption DEF Init, Held, Wrap
  <2>2. Queue = [k \in 1 .. 0 |-> PM_Mail[SlotOf(k - 1)]]
    BY <2>1 DEF Queue
  <2>3. Queue = <<>>
    BY <2>2
  <2> QED BY <2>1, <2>3 DEF MF!FifoInit
<1>2. IInv /\ IInv' /\ Shape /\ Shape' /\ [Next]_vars =>
        [MF!FifoNext \/ misjudged']_<<Queue, last>>
  <2> SUFFICES ASSUME IInv, IInv', Shape, Shape', [Next]_vars, ~misjudged'
               PROVE  MF!FifoNext \/ UNCHANGED <<Queue, last>>
    OBVIOUS
  <2>1. ~misjudged
    BY DEF Next, MDrv_MSMailBox_Interrupt, Tasklet, Reader, PMFire, PMRaise,
       EnableFlag, EnableMask, InterruptTest, InterruptClear, CallbackStart,
       CallbackOverflow, ReceiveBusySet, ReceiveCopy, ReceiveBusyClear,
       ReceiveFireClear, AdvanceP, Receive, CopyFirst, CopySecond, AdvanceG, WrapG,
       OverflowRead, OverflowWrite, vars, histVars, IInv, TypeOK, BitsOK
  <2> QED BY <2>1, FifoStep
<1> QED BY <1>1, <1>2, ShapeHolds, Inductive, PTL DEF Spec, RingIsFifo
=============================================================================
