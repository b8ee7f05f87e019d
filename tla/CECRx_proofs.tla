----------------------------- MODULE CECRx_proofs -----------------------------
(***************************************************************************)
(* Theorems about CECRx, for every size of the FIFO and number of          *)
(* messages: the client gets every message once and in order, as long as   *)
(* it leaves no more than FifoCnt - 1 of them unread.                      *)
(***************************************************************************)
EXTENDS CECRx, TLAPS

-----------------------------------------------------------------------------
(* The FIFO, as arithmetic on two indices.                                  *)

\* The index after i, the messages between g and p, and the slot k places on
\* from g, without modulo.
Follow(i) == IF i = FifoCnt - 1 THEN 0 ELSE i + 1
Dist(p, g) == IF p >= g THEN p - g ELSE p + FifoCnt - g
At(g, k) == IF g + k < FifoCnt THEN g + k ELSE g + k - FifoCnt

\* The modulo of a sum of two indices takes away one ring at most.
LEMMA ModOnce ==
  ASSUME NEW i \in 0 .. 2 * FifoCnt - 1
  PROVE  i % FifoCnt = IF i < FifoCnt THEN i ELSE i - FifoCnt
<1>1. CASE i < FifoCnt
  BY <1>1, CECRxAssumption
<1>2. CASE i >= FifoCnt
  BY <1>2, CECRxAssumption
<1> QED
  BY <1>1, <1>2, CECRxAssumption

LEMMA FollowIsMod ==
  ASSUME NEW i \in Slots
  PROVE  (i + 1) % FifoCnt = Follow(i) /\ Follow(i) \in Slots
<1>1. i + 1 \in 0 .. 2 * FifoCnt - 1
  BY CECRxAssumption DEF Slots
<1> QED
  BY <1>1, ModOnce, CECRxAssumption DEF Slots, Follow

LEMMA DistIsMod ==
  ASSUME NEW p \in Slots, NEW g \in Slots
  PROVE  (p - g + FifoCnt) % FifoCnt = Dist(p, g)
<1>1. p - g + FifoCnt \in 0 .. 2 * FifoCnt - 1
  BY CECRxAssumption DEF Slots
<1> QED
  BY <1>1, ModOnce, CECRxAssumption DEF Slots, Dist

LEMMA AtIsMod ==
  ASSUME NEW g \in Slots, NEW k \in Slots
  PROVE  (g + k) % FifoCnt = At(g, k)
<1>1. g + k \in 0 .. 2 * FifoCnt - 1
  BY CECRxAssumption DEF Slots
<1> QED
  BY <1>1, ModOnce, CECRxAssumption DEF Slots, At

\* The messages between g and p are each in a slot of its own, none in p's.
LEMMA DistAt ==
  ASSUME NEW p \in Slots, NEW g \in Slots
  PROVE  /\ Dist(p, g) \in Slots
         /\ At(g, Dist(p, g)) = p
         /\ \A k \in Slots : At(g, k) \in Slots
         /\ \A k \in Slots : k < Dist(p, g) => At(g, k) # p
  BY CECRxAssumption DEF Slots, Dist, At

LEMMA DistAtNat ==
  ASSUME NEW p \in Slots, NEW g \in Slots
  PROVE  /\ Dist(p, g) \in Nat
         /\ \A k \in Slots : At(g, k) \in Nat /\ At(g, k) < FifoCnt
  BY CECRxAssumption DEF Slots, Dist, At

\* Storing one more moves p away by one, unless FifoCnt - 1 are there.
LEMMA DistPut ==
  ASSUME NEW p \in Slots, NEW g \in Slots, Dist(p, g) # FifoCnt - 1
  PROVE  Dist(Follow(p), g) = Dist(p, g) + 1
  BY CECRxAssumption DEF Slots, Dist, Follow

\* Taking those up to e leaves the others, as many places nearer.
LEMMA DistTake ==
  ASSUME NEW p \in Slots, NEW g \in Slots, NEW e \in Slots, Dist(e, g) <= Dist(p, g)
  PROVE  /\ Dist(p, g) = Dist(e, g) + Dist(p, e)
         /\ \A k \in Slots : k < Dist(p, e) =>
              k + Dist(e, g) \in Slots /\ At(e, k) = At(g, k + Dist(e, g))
  BY CECRxAssumption DEF Slots, Dist, At

-----------------------------------------------------------------------------
(* The inductive invariant.                                                 *)

\* A message in the receive register, not yet in the FIFO, is the last that came.
Pending == IF rxInt /\ rxMsg # 0 THEN 1 ELSE 0

RegisterHasLast == rxInt /\ rxMsg # 0 => rxMsg = came

\* What the client took and what is between its start index and CecFifoIdxE are all
\* the messages that came, in order.
Stored ==
  ~odd /\ pc \in {"user", "copy"} =>
    /\ Len(got) + Dist(IdxE, idxS) + Pending = came
    /\ \A k \in Slots : k < Dist(IdxE, idxS) => buf[At(idxS, k)] = Len(got) + 1 + k

\* The slots that the client will look at do not change while it copies.
Copied ==
  ~odd /\ pc = "copy" =>
    /\ Dist(copyE, idxS) <= Dist(IdxE, idxS)
    /\ \A k \in Slots : k < Dist(copyE, idxS) /\ At(idxS, k) < Len(copy) =>
         copy[At(idxS, k) + 1] = Len(got) + 1 + k

IInv == TypeOK /\ RegisterHasLast /\ Stored /\ Copied /\ InOrder

-----------------------------------------------------------------------------
(* Lemmas: the initial states and the types.                                *)

LEMMA ZeroIsSlot == 0 \in Slots /\ Dist(0, 0) = 0
  BY CECRxAssumption DEF Slots, Dist

LEMMA InitIInv == ASSUME Init PROVE IInv
<1> USE CECRxAssumption DEF Init
<1>1. TypeOK
  <2>1. {rxInt, installed, response, raced, odd} \subseteq BOOLEAN
    BY Zenon
  <2>2. <<>> \in Seq(0 .. MaxRx) /\ Len(<<>>) = 0
    OBVIOUS
  <2>3. 0 \in 0 .. MaxRx /\ Len(copy) <= FifoCnt
    BY <2>2
  <2> QED
    BY <2>1, <2>2, <2>3, ZeroIsSlot DEF TypeOK
<1>2. RegisterHasLast /\ Copied /\ InOrder
  BY DEF RegisterHasLast, Copied, InOrder
<1>3. Stored
  BY ZeroIsSlot DEF Stored, Pending
<1> QED
  BY <1>1, <1>2, <1>3 DEF IInv

LEMMA SeqElement ==
  ASSUME NEW S, NEW s \in Seq(S), NEW j \in 1 .. Len(s) PROVE s[j] \in S
  OBVIOUS

\* The window of the client is a sequence of messages, one for each in its copy.
LEMMA WindowType ==
  ASSUME TypeOK, Len(copy) = FifoCnt
  PROVE  /\ Window \in Seq(0 .. MaxRx)
         /\ Len(Window) = Dist(copyE, idxS)
         /\ \A i \in 1 .. Dist(copyE, idxS) :
              i - 1 \in Slots /\ Window[i] = copy[At(idxS, i - 1) + 1]
<1> DEFINE d == Dist(copyE, idxS)
<1>1. copyE \in Slots /\ idxS \in Slots /\ copy \in Seq(0 .. MaxRx)
  BY DEF TypeOK
<1>2. (copyE - idxS + FifoCnt) % FifoCnt = d /\ d \in Slots
  BY <1>1, DistIsMod, DistAt
<1>3. \A i \in 1 .. d : i - 1 \in Slots /\ idxS + i - 1 = idxS + (i - 1)
  BY <1>1, <1>2, CECRxAssumption DEF Slots
<1>4. \A i \in 1 .. d : (idxS + i - 1) % FifoCnt = At(idxS, i - 1) /\ At(idxS, i - 1) \in Slots
  BY <1>1, <1>3, AtIsMod, DistAt
<1>5. Window = [i \in 1 .. d |-> copy[((idxS + i - 1) % FifoCnt) + 1]]
  BY <1>2 DEF Window
<1>6. \A i \in 1 .. d : copy[At(idxS, i - 1) + 1] \in 0 .. MaxRx
  <2>1. \A j \in Slots : j + 1 \in 1 .. Len(copy)
    BY CECRxAssumption DEF Slots
  <2>2. \A j \in 1 .. Len(copy) : copy[j] \in 0 .. MaxRx
    BY <1>1, SeqElement
  <2> QED
    BY <1>4, <2>1, <2>2
<1>7. d \in Nat
  BY <1>2, CECRxAssumption DEF Slots
<1> HIDE DEF d
<1>8. \A i \in 1 .. d : Window[i] = copy[At(idxS, i - 1) + 1]
  BY <1>4, <1>5
<1>9. Window \in [1 .. d -> 0 .. MaxRx]
  BY <1>4, <1>5, <1>6
<1>10. Window \in Seq(0 .. MaxRx) /\ Len(Window) = d
  BY <1>5, <1>7, <1>9
<1> QED
  BY <1>3, <1>8, <1>10 DEF d

LEMMA TypeStep ==
  ASSUME TypeOK, [Next]_vars
  PROVE  TypeOK'
<1> USE CECRxAssumption DEF rxVars, copyVars, userVars, Step
<1>1. CASE Arrive
  <2>1. {rxInt', installed', response', raced', odd'} \subseteq BOOLEAN
    BY <1>1, Zenon DEF Arrive, TypeOK
  <2>2. rxMsg' \in 0 .. MaxRx /\ came' \in 0 .. MaxRx
    BY <1>1 DEF Arrive, TypeOK
  <2> QED
    BY <1>1, <2>1, <2>2 DEF Arrive, TypeOK
<1>2. CASE HDMI_ISR
  <2>1. {rxInt', installed', response', raced', odd'} \subseteq BOOLEAN
    BY <1>2 DEF HDMI_ISR, RxChkBuf, Announce, TypeOK
  <2>2. IdxE' \in Slots
    BY <1>2, FollowIsMod DEF HDMI_ISR, RxChkBuf, NextE, TypeOK
  <2>3. buf' \in [Slots -> 0 .. MaxRx]
    BY <1>2 DEF HDMI_ISR, RxChkBuf, TypeOK
  <2> QED
    BY <1>2, <2>1, <2>2, <2>3 DEF HDMI_ISR, TypeOK
<1>3. CASE RxApi
  <2>1. <<>> \in Seq(0 .. MaxRx) /\ Len(<<>>) <= FifoCnt
    OBVIOUS
  <2> QED
    BY <1>3, <2>1 DEF RxApi, TypeOK
<1>4. CASE RxCopySlot
  <2>1. Len(copy) \in Slots /\ copy \in Seq(0 .. MaxRx)
    BY <1>4 DEF RxCopySlot, TypeOK, Slots
  <2>2. buf[Len(copy)] \in 0 .. MaxRx
    BY <2>1 DEF TypeOK
  <2>3. copy' \in Seq(0 .. MaxRx) /\ Len(copy') = Len(copy) + 1
    BY <1>4, <2>1, <2>2 DEF RxCopySlot
  <2>4. Len(copy') <= FifoCnt
    BY <2>1, <2>3 DEF Slots
  <2> QED
    BY <1>4, <2>3, <2>4 DEF RxCopySlot, TypeOK
<1>5. CASE RxReturn
  <2>1. <<>> \in Seq(0 .. MaxRx) /\ Len(<<>>) <= FifoCnt
    OBVIOUS
  <2>2. got' \in Seq(0 .. MaxRx)
    BY <1>5, WindowType DEF RxReturn, TypeOK
  <2> QED
    BY <1>5, <2>1, <2>2, ZeroIsSlot DEF RxReturn, TypeOK
<1>6. CASE InitIndices \/ InitBuf
  BY <1>6, ZeroIsSlot DEF InitIndices, InitBuf, TypeOK
<1>7. CASE InitClear
  <2>1. <<>> \in Seq(0 .. MaxRx)
    OBVIOUS
  <2>2. {rxInt', installed', response', raced', odd'} \subseteq BOOLEAN
    BY <1>7 DEF InitClear, TypeOK
  <2> QED
    BY <1>7, <2>1, <2>2, ZeroIsSlot DEF InitClear, TypeOK
<1>8. CASE UNCHANGED vars
  BY <1>8 DEF vars, TypeOK
<1> QED
  BY <1>1, <1>2, <1>3, <1>4, <1>5, <1>6, <1>7, <1>8 DEF Next, MDrv_CEC_RxApi, MDrv_CEC_Init

-----------------------------------------------------------------------------
(* Lemmas: each step keeps the messages in order.                           *)

LEMMA ArriveKeeps ==
  ASSUME IInv, Arrive
  PROVE  RegisterHasLast' /\ Stored' /\ Copied' /\ InOrder'
<1> USE DEF Arrive, copyVars, userVars
<1>1. came \in Nat /\ Len(got) \in Nat /\ IdxE \in Slots /\ idxS \in Slots
  BY CECRxAssumption DEF IInv, TypeOK
<1>2. Dist(IdxE, idxS) \in Nat
  BY <1>1, DistAtNat
<1>3. Stored'
  BY <1>1, <1>2 DEF IInv, Stored, Pending
<1> QED
  BY <1>1, <1>3 DEF IInv, RegisterHasLast, Copied, InOrder

LEMMA ISRKeeps ==
  ASSUME IInv, HDMI_ISR
  PROVE  RegisterHasLast' /\ Stored' /\ Copied' /\ InOrder'
<1> DEFINE d == Dist(IdxE, idxS)
<1>1. /\ UNCHANGED <<rxMsg, came, pc, copyE, copy, idxS, got>>
      /\ RxChkBuf
  BY DEF HDMI_ISR, copyVars, userVars
<1>2. /\ IdxE \in Slots /\ idxS \in Slots /\ came \in Nat /\ Len(got) \in Nat
      /\ buf \in [Slots -> 0 .. MaxRx] /\ copyE \in Slots
  BY CECRxAssumption DEF IInv, TypeOK
<1>3. d \in Slots /\ At(idxS, d) = IdxE /\ Unread = d
  BY <1>2, DistAt, DistIsMod DEF Unread
<1>4. \A k \in Slots : k < d => At(idxS, k) \in Slots /\ At(idxS, k) # IdxE
  BY <1>2, DistAt
<1>5. CASE ~rxInt
  BY <1>1, <1>5 DEF RxChkBuf, IInv, RegisterHasLast, Stored, Copied, InOrder, Pending
<1>6. CASE rxInt /\ rxMsg = 0
  <2>1. IdxE' = IdxE /\ odd' = odd /\ rxInt' = FALSE /\ buf' = [buf EXCEPT ![IdxE] = 0]
    BY <1>1, <1>6 DEF RxChkBuf, NextE, IInv, TypeOK
  <2>2. Stored'
    BY <1>1, <1>2, <1>4, <1>6, <2>1 DEF IInv, Stored, Pending
  <2> QED
    BY <1>1, <2>1, <2>2 DEF IInv, RegisterHasLast, Copied, InOrder
<1>7. CASE rxInt /\ rxMsg # 0
  <2>1. /\ IdxE' = Follow(IdxE) /\ rxInt' = FALSE /\ buf' = [buf EXCEPT ![IdxE] = came]
        /\ ~odd' => ~odd /\ d # FifoCnt - 1
    BY <1>1, <1>2, <1>3, <1>7, FollowIsMod
    DEF RxChkBuf, NextE, IInv, RegisterHasLast
  <2>2. ~odd' => Dist(IdxE', idxS') = d + 1
    BY <1>1, <1>2, <2>1, DistPut
  <2>3. Stored'
    <3> SUFFICES ASSUME ~odd', pc' \in {"user", "copy"}
                 PROVE  /\ Len(got') + Dist(IdxE', idxS') + Pending' = came'
                        /\ \A k \in Slots : k < Dist(IdxE', idxS') =>
                             buf'[At(idxS', k)] = Len(got') + 1 + k
      BY DEF Stored
    <3>1. /\ Len(got) + d + 1 = came
          /\ \A k \in Slots : k < d => buf[At(idxS, k)] = Len(got) + 1 + k
      BY <1>1, <1>7, <2>1 DEF IInv, Stored, Pending
    <3>2. \A k \in Slots : k < d + 1 => k < d \/ k = d
      BY <1>3 DEF Slots
    <3>3. d \in Nat
      BY <1>3, CECRxAssumption DEF Slots
    <3>4. Pending' = 0
      BY <2>1 DEF Pending
    <3>5. ASSUME NEW k \in Slots, k < d PROVE buf'[At(idxS, k)] = Len(got) + 1 + k
      BY <1>2, <1>4, <2>1, <3>1, <3>5
    <3>6. buf'[At(idxS, d)] = Len(got) + 1 + d
      <4> HIDE DEF d
      <4> QED
        BY <1>2, <1>3, <2>1, <3>1, <3>3
    <3> HIDE DEF d
    <3> QED
      BY <1>1, <1>2, <2>2, <3>1, <3>2, <3>3, <3>4, <3>5, <3>6
  <2>4. Copied'
    <3>1. Dist(copyE, idxS) \in Nat /\ d \in Nat
      BY <1>2, DistAtNat
    <3> QED
      BY <1>1, <2>1, <2>2, <3>1 DEF IInv, Copied
  <2>5. InOrder'
    BY <1>1, <2>1 DEF IInv, InOrder
  <2> QED
    BY <2>1, <2>3, <2>4, <2>5 DEF RegisterHasLast
<1> QED
  BY <1>5, <1>6, <1>7

LEMMA RxApiKeeps ==
  ASSUME IInv, RxApi
  PROVE  RegisterHasLast' /\ Stored' /\ Copied' /\ InOrder'
<1> USE DEF RxApi, Step, rxVars, userVars
<1>1. IdxE \in Slots /\ idxS \in Slots
  BY DEF IInv, TypeOK
<1>2. Dist(IdxE, idxS) \in Nat /\ \A k \in Slots : At(idxS, k) \in Nat
  BY <1>1, DistAt, CECRxAssumption DEF Slots
<1>3. Copied'
  <2>1. Len(copy') = 0
    OBVIOUS
  <2> QED
    BY <1>2, <2>1 DEF Copied
<1> QED
  BY <1>3 DEF IInv, RegisterHasLast, Stored, Pending, InOrder

LEMMA CopySlotKeeps ==
  ASSUME IInv, RxCopySlot
  PROVE  RegisterHasLast' /\ Stored' /\ Copied' /\ InOrder'
<1> USE DEF RxCopySlot, rxVars, userVars
<1>1. /\ IdxE \in Slots /\ idxS \in Slots /\ copyE \in Slots
      /\ copy \in Seq(0 .. MaxRx) /\ Len(copy) \in Nat
      /\ buf \in [Slots -> 0 .. MaxRx]
  BY DEF IInv, TypeOK
<1>2. Copied'
  <2> SUFFICES ASSUME ~odd, NEW k \in Slots, k < Dist(copyE, idxS),
                      At(idxS, k) < Len(copy')
               PROVE  copy'[At(idxS, k) + 1] = Len(got) + 1 + k
    BY DEF IInv, Copied
  <2>1. At(idxS, k) \in Nat
    BY <1>1, DistAt, CECRxAssumption DEF Slots
  <2>2. Len(copy') = Len(copy) + 1
    BY <1>1
  <2>3. CASE At(idxS, k) < Len(copy)
    <3>1. copy'[At(idxS, k) + 1] = copy[At(idxS, k) + 1]
      BY <1>1, <2>1, <2>3
    <3> QED
      BY <2>3, <3>1 DEF IInv, Copied
  <2>4. CASE At(idxS, k) = Len(copy)
    <3>1. copy'[At(idxS, k) + 1] = buf[At(idxS, k)]
      BY <1>1, <2>4
    <3>2. k < Dist(IdxE, idxS)
      <4>1. /\ Dist(copyE, idxS) \in Nat /\ Dist(IdxE, idxS) \in Nat /\ k \in Nat
            /\ Dist(copyE, idxS) <= Dist(IdxE, idxS)
        BY <1>1, DistAt, CECRxAssumption DEF Slots, IInv, Copied
      <4> QED
        BY <4>1
    <3> QED
      BY <3>1, <3>2 DEF IInv, Stored
  <2> QED
    BY <1>1, <2>1, <2>2, <2>3, <2>4
<1> QED
  BY <1>2 DEF IInv, RegisterHasLast, Stored, Pending, InOrder

LEMMA ReturnKeeps ==
  ASSUME IInv, RxReturn
  PROVE  RegisterHasLast' /\ Stored' /\ Copied' /\ InOrder'
<1> DEFINE d == Dist(copyE, idxS)
<1>1. /\ IdxE \in Slots /\ idxS \in Slots /\ copyE \in Slots
      /\ got \in Seq(0 .. MaxRx) /\ Len(got) \in Nat /\ TypeOK
  BY DEF IInv, TypeOK
<1>2. /\ Window \in Seq(0 .. MaxRx) /\ Len(Window) = d
      /\ \A i \in 1 .. d : i - 1 \in Slots /\ Window[i] = copy[At(idxS, i - 1) + 1]
  BY <1>1, WindowType DEF RxReturn
<1>3. /\ UNCHANGED <<rxInt, rxMsg, came, IdxE, buf, odd>>
      /\ pc = "copy" /\ pc' = "user" /\ got' = got \o Window /\ idxS' = copyE
      /\ Len(copy) = FifoCnt
  BY DEF RxReturn, Step, rxVars
<1>4. d \in Slots /\ Dist(IdxE, idxS) \in Slots /\ Dist(IdxE, copyE) \in Slots
  BY <1>1, DistAt
<1>5. d \in Nat /\ Dist(IdxE, idxS) \in Nat /\ Dist(IdxE, copyE) \in Nat
  BY <1>4, CECRxAssumption DEF Slots
<1>6. \A i \in 1 .. d : ~odd => Window[i] = Len(got) + i
  <2> SUFFICES ASSUME NEW i \in 1 .. d, ~odd PROVE Window[i] = Len(got) + i
    OBVIOUS
  <2>1. i - 1 \in Slots /\ i - 1 < d /\ i \in Nat
    BY <1>2, <1>5
  <2>2. At(idxS, i - 1) < Len(copy)
    BY <1>1, <1>3, <2>1, DistAtNat
  <2>3. copy[At(idxS, i - 1) + 1] = Len(got) + 1 + (i - 1)
    BY <1>3, <2>1, <2>2 DEF IInv, Copied
  <2>4. Len(got) + 1 + (i - 1) = Len(got) + i
    BY <1>1, <2>1
  <2> QED
    BY <1>2, <2>3, <2>4
<1> HIDE DEF d
<1>7. /\ Len(got') = Len(got) + d
      /\ \A i \in 1 .. Len(got) : got'[i] = got[i]
      /\ \A i \in 1 .. Len(got') : i > Len(got) =>
           i - Len(got) \in 1 .. d /\ got'[i] = Window[i - Len(got)]
  <2>1. /\ Len(got') = Len(got) + d
        /\ \A i \in 1 .. Len(got) + d :
             got'[i] = IF i <= Len(got) THEN got[i] ELSE Window[i - Len(got)]
    BY <1>1, <1>2, <1>3, <1>5
  <2> QED
    BY <1>1, <1>5, <2>1
<1>8. InOrder'
  <2> SUFFICES ASSUME ~odd, NEW i \in 1 .. Len(got') PROVE got'[i] = i
    BY <1>3 DEF InOrder
  <2>1. CASE i <= Len(got)
    BY <1>1, <1>7, <2>1 DEF IInv, InOrder
  <2>2. CASE i > Len(got)
    BY <1>1, <1>6, <1>7, <2>2
  <2> QED
    BY <1>1, <1>5, <1>7, <2>1, <2>2
<1>9. Stored'
  <2> SUFFICES ASSUME ~odd
               PROVE  /\ Len(got') + Dist(IdxE, copyE) + Pending = came
                      /\ \A k \in Slots : k < Dist(IdxE, copyE) =>
                           buf[At(copyE, k)] = Len(got') + 1 + k
    BY <1>3 DEF Stored, Pending
  <2>1. /\ Len(got) + Dist(IdxE, idxS) + Pending = came
        /\ \A k \in Slots : k < Dist(IdxE, idxS) => buf[At(idxS, k)] = Len(got) + 1 + k
        /\ d <= Dist(IdxE, idxS)
    BY <1>3 DEF IInv, Stored, Copied, d
  <2>2. /\ Dist(IdxE, idxS) = d + Dist(IdxE, copyE)
        /\ \A k \in Slots : k < Dist(IdxE, copyE) =>
             k + d \in Slots /\ At(copyE, k) = At(idxS, k + d)
    BY <1>1, <2>1, DistTake DEF d
  <2>3. ASSUME NEW k \in Slots, k < Dist(IdxE, copyE)
        PROVE  buf[At(copyE, k)] = Len(got') + 1 + k
    <3>1. k \in Nat /\ k + d < Dist(IdxE, idxS)
      BY <1>5, <2>2, <2>3, CECRxAssumption DEF Slots
    <3>2. buf[At(copyE, k)] = Len(got) + 1 + (k + d)
      BY <2>1, <2>2, <2>3, <3>1
    <3> QED
      BY <1>1, <1>5, <1>7, <3>1, <3>2
  <2>4. Pending \in Nat
    BY DEF Pending
  <2> QED
    BY <1>1, <1>5, <1>7, <2>1, <2>2, <2>3, <2>4
<1> QED
  BY <1>3, <1>8, <1>9 DEF IInv, RegisterHasLast, Copied

LEMMA InitKeeps ==
  ASSUME IInv, MDrv_CEC_Init
  PROVE  RegisterHasLast' /\ Stored' /\ Copied' /\ InOrder'
<1> USE DEF Step, rxVars, copyVars, userVars
<1>1. CASE InitIndices \/ InitBuf
  BY <1>1 DEF InitIndices, InitBuf, IInv, RegisterHasLast, Stored, Copied, InOrder
<1>2. CASE InitClear
  <2>1. rxInt' = FALSE /\ came' = 0 /\ idxS' = 0 /\ IdxE' = IdxE /\ pc' = "user"
        /\ got' = <<>> /\ (~odd' => IdxE = 0)
    BY <1>2 DEF InitClear
  <2>2. Len(got') = 0
    BY <2>1
  <2>3. \A k \in Slots : ~(k < 0)
    BY CECRxAssumption DEF Slots
  <2>4. Stored'
    BY <2>1, <2>2, <2>3, ZeroIsSlot DEF Stored, Pending
  <2> QED
    BY <2>1, <2>2, <2>4 DEF RegisterHasLast, Copied, InOrder
<1> QED
  BY <1>1, <1>2 DEF MDrv_CEC_Init

LEMMA NextIInv ==
  ASSUME IInv, [Next]_vars
  PROVE  IInv'
<1>1. TypeOK'
  BY TypeStep DEF IInv
<1>2. RegisterHasLast' /\ Stored' /\ Copied' /\ InOrder'
  <2>1. CASE Arrive \/ HDMI_ISR \/ MDrv_CEC_Init
    BY <2>1, ArriveKeeps, ISRKeeps, InitKeeps
  <2>2. CASE MDrv_CEC_RxApi
    BY <2>2, RxApiKeeps, CopySlotKeeps, ReturnKeeps DEF MDrv_CEC_RxApi
  <2>3. CASE UNCHANGED vars
    BY <2>3
    DEF vars, rxVars, copyVars, userVars, IInv, RegisterHasLast, Stored, Pending, Copied,
        InOrder
  <2> QED
    BY <2>1, <2>2, <2>3 DEF Next
<1> QED
  BY <1>1, <1>2 DEF IInv

-----------------------------------------------------------------------------
(* Theorems.                                                                *)

\* The invariant of the FIFO, the client's copy of it and an initialisation.
THEOREM Inductive == Spec => []IInv
<1>1. Init => IInv
  BY InitIInv
<1>2. IInv /\ [Next]_vars => IInv'
  BY NextIInv
<1> QED
  BY <1>1, <1>2, PTL DEF Spec

\* Every variable keeps its type: the interrupt never stores outside CecRxBuf.
THEOREM TypeCorrect == Spec => []TypeOK
<1>1. IInv => TypeOK
  BY DEF IInv
<1> QED
  BY <1>1, Inductive, PTL

\* MDrv_CEC_RxApi may copy while the interrupt stores: the client gets every message
\* once and in order unless too many were unread.
THEOREM InOrderTaken == Spec => []InOrder
<1>1. IInv => InOrder
  BY DEF IInv
<1> QED
  BY <1>1, Inductive, PTL
=============================================================================
