-------------------------------- MODULE CECRx --------------------------------
(***************************************************************************)
(* Receiving in the HDMI CEC driver.  The interrupt stores messages into a *)
(* small FIFO and announces them in a response byte; the client copies the *)
(* whole FIFO, and keeps the start index itself since the driver never     *)
(* moves CecFifoIdxS.                                                      *)
(*                                                                         *)
(* ioctl handlers hold the big kernel lock, and no thread but the client's *)
(* receives; the interrupt runs between any two steps of it.               *)
(***************************************************************************)
EXTENDS Naturals, Sequences

CONSTANTS
  FifoCnt,    \* CEC_FIFO_CNT
  MaxRx       \* bound on the messages received between two initialisations

ASSUME CECRxAssumption == FifoCnt \in Nat \ {0, 1} /\ MaxRx \in Nat

VARIABLES
  \* receive registers
  rxInt, rxMsg,   \* BIT0 of the interrupt status; the message, 0 for a polling message
  came,           \* messages received since the last initialisation
  \* _CECInfo and the response byte
  installed,      \* u32AESDMAIntRegister: the handler is installed
  IdxE,           \* CecFifoIdxE
  buf,            \* CecRxBuf: a message, or 0 if its length says there is none
  response,       \* _u8CecResponse: 0xA2 (TRUE) or 0xFF
  \* the client
  pc,             \* the next step of its thread
  copyE, copy,    \* what MDrv_CEC_RxApi has copied so far
  idxS, got,      \* its start index; the messages it has taken since the initialisation
  \* history
  raced,          \* a message was stored while the client copied
  odd             \* too many messages unread, or one stored during an initialisation

rxVars   == <<rxInt, rxMsg, came>>
copyVars == <<copyE, copy>>
userVars == <<idxS, got>>
vars == <<rxVars, installed, IdxE, buf, response, pc, copyVars, userVars, raced, odd>>

Slots == 0 .. FifoCnt - 1

Init ==
  /\ rxInt = FALSE /\ rxMsg = 0 /\ came = 0
  /\ installed = FALSE /\ IdxE = 0 /\ buf = [i \in Slots |-> 0] /\ response = FALSE
  /\ pc = "user" /\ copyE = 0 /\ copy = <<>>
  /\ idxS = 0 /\ got = <<>>
  /\ raced = FALSE /\ odd = FALSE

Step(from, to) == pc = from /\ pc' = to

-----------------------------------------------------------------------------
(* The interrupt.                                                           *)

\* The bus: a message or a polling message, unless one is not yet fetched.
Arrive ==
  /\ installed /\ ~rxInt
  /\ rxInt' = TRUE
  /\ \/ came < MaxRx /\ came' = came + 1 /\ rxMsg' = came'
     \/ rxMsg' = 0 /\ UNCHANGED came
  /\ UNCHANGED <<installed, IdxE, buf, response, pc, copyVars, userVars, raced, odd>>

Unread == (IdxE - idxS + FifoCnt) % FifoCnt

\* (mutant) a polling message takes a slot.
NextEAlways(msg) == (IdxE + 1) % FifoCnt

\* A polling message spoils the slot at CecFifoIdxE but does not take it.
NextE(msg) == IF msg = 0 THEN IdxE ELSE (IdxE + 1) % FifoCnt

RxChkBuf ==
  IF rxInt
  THEN /\ rxInt' = FALSE
       /\ buf' = [buf EXCEPT ![IdxE] = rxMsg]
       /\ IdxE' = NextE(rxMsg)
       /\ raced' = IF rxMsg = 0 THEN raced ELSE pc = "copy"
       /\ odd' = (odd \/ (rxMsg # 0 /\ Unread = FifoCnt - 1))
  ELSE UNCHANGED <<rxInt, buf, IdxE, raced, odd>>

\* (mutant) only the first of several unread messages is announced.
AnnounceFirst == response' = (response \/ Unread = 0)

Announce == response' = TRUE

\* _MDrv_HDMI_ISR announces a message even if there was none to fetch.
HDMI_ISR ==
  /\ installed
  /\ RxChkBuf
  /\ Announce
  /\ UNCHANGED <<rxMsg, came, installed, pc, copyVars, userVars>>

-----------------------------------------------------------------------------
(* MDrv_CEC_RxApi: the client asks for messages once MDrv_CEC_Response tells *)
(* it to, and the struct is copied from its first field on.                 *)

RxApi ==
  /\ response
  /\ Step("user", "copy")
  /\ copyE' = IdxE /\ copy' = <<>>
  /\ UNCHANGED <<rxVars, installed, IdxE, buf, response, userVars, raced, odd>>

RxCopySlot ==
  /\ pc = "copy" /\ Len(copy) < FifoCnt
  /\ copy' = Append(copy, buf[Len(copy)])
  /\ UNCHANGED <<rxVars, installed, IdxE, buf, response, pc, copyE, userVars, raced, odd>>

\* The messages of the copy from the client's start index on.
Window ==
  [i \in 1 .. (copyE - idxS + FifoCnt) % FifoCnt |-> copy[((idxS + i - 1) % FifoCnt) + 1]]

RxReturn ==
  /\ Len(copy) = FifoCnt
  /\ Step("copy", "user")
  /\ response' = FALSE
  /\ got' = got \o Window
  /\ idxS' = copyE
  /\ copyE' = 0 /\ copy' = <<>>
  /\ UNCHANGED <<rxVars, installed, IdxE, buf, raced, odd>>

-----------------------------------------------------------------------------
(* MDrv_CEC_Init, while the handler of an earlier one may run.              *)

InitIndices ==
  /\ Step("user", "buf")
  /\ IdxE' = 0
  /\ UNCHANGED <<rxVars, installed, buf, response, copyVars, userVars, raced, odd>>

InitBuf ==
  /\ Step("buf", "clear")
  /\ buf' = [i \in Slots |-> 0]
  /\ UNCHANGED <<rxVars, installed, IdxE, response, copyVars, userVars, raced, odd>>

\* All interrupts are cleared, and the handler installed unless request_irq fails.
\* The client starts over.
InitClear ==
  /\ Step("clear", "user")
  /\ rxInt' = FALSE /\ rxMsg' = 0 /\ came' = 0
  /\ installed' \in {installed, TRUE}
  /\ idxS' = 0 /\ got' = <<>>
  /\ odd' = (IdxE # 0) /\ raced' = FALSE
  /\ UNCHANGED <<IdxE, buf, response, copyVars>>

-----------------------------------------------------------------------------
MDrv_CEC_RxApi == RxApi \/ RxCopySlot \/ RxReturn
MDrv_CEC_Init == InitIndices \/ InitBuf \/ InitClear

Next == Arrive \/ HDMI_ISR \/ MDrv_CEC_RxApi \/ MDrv_CEC_Init

Spec == Init /\ [][Next]_vars

\* The interrupt is taken, a handler once entered goes on, and the client asks for
\* what is announced.
FairSpec ==
  Spec /\ WF_vars(rxInt /\ HDMI_ISR) /\ SF_vars(MDrv_CEC_RxApi) /\ WF_vars(InitBuf \/ InitClear)

-----------------------------------------------------------------------------
(* Properties.                                                              *)

\* Every variable keeps its type; CecFifoIdxE stays in the FIFO.
TypeOK ==
  /\ {rxInt, installed, response, raced, odd} \subseteq BOOLEAN
  /\ rxMsg \in 0 .. MaxRx /\ came \in 0 .. MaxRx
  /\ IdxE \in Slots /\ buf \in [Slots -> 0 .. MaxRx]
  /\ pc \in {"user", "copy", "buf", "clear"}
  /\ copyE \in Slots /\ copy \in Seq(0 .. MaxRx) /\ Len(copy) <= FifoCnt
  /\ idxS \in Slots /\ got \in Seq(0 .. MaxRx)

\* As long as it leaves no more than FifoCnt - 1 messages unread, the client gets
\* every message once and in order (MDrv_CEC_RxApi copies while the interrupt stores,
\* and a polling message spoils a slot).
InOrder == ~odd => \A i \in 1 .. Len(got) : got[i] = i

\* A message is taken unless it was stored in that window and none followed, or too
\* many were unread, or the driver is initialised again.
MessagesTaken ==
  \A n \in 1 .. MaxRx :
    came = n ~> Len(got) >= n \/ raced \/ odd \/ came = 0
=============================================================================
