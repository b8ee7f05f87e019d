-------------------------------- MODULE CECTx --------------------------------
(***************************************************************************)
(* Sending in the HDMI CEC driver.  A thread fills the registers of the    *)
(* bus and polls for the answer, asleep in msleep between two looks; what  *)
(* it found is kept for MDrv_CEC_GetResult or in the table of devices.     *)
(*                                                                         *)
(* ioctl handlers hold the big kernel lock except in msleep; the bus steps *)
(* at any time.  An answer may come late, after its thread gave up.        *)
(***************************************************************************)
EXTENDS Naturals

CONSTANTS
  Threads,    \* the threads of the clients
  PollMax,    \* 100: looks for an answer
  Devices     \* 1 .. Devices are the addresses MDrv_CEC_ChkDevs asks

ASSUME CECTxAssumption ==
  /\ PollMax \in Nat /\ Devices \in Nat \ {0}
  /\ {"idle", "stale"} \cap Threads = {}

VARIABLES
  existed,        \* CecDevicesExisted
  response2,      \* _u8CecResponse2: 0xA3 (TRUE) or 0xFF
  ackResult,      \* _u8AckResult
  enable,         \* _u8CecEnable
  \* transmit registers
  status,         \* TX bits of the interrupt status: "ok" (BIT1) and "fail" (BIT2, BIT3)
  sending,        \* the thread whose frame is on the bus, "stale" if it gave up, or "idle"
  \* threads
  pc,
  kind, dev,      \* the frame: "direct", "broadcast", or "check" of address dev
  cnt, res,       \* polls; success seen
  \* history
  answer,         \* what the bus answered to a thread that was still looking
  mixed,          \* another frame or an initialisation disturbed the thread's frame
  due             \* what the result should be: "ack", "none", or "any" if disturbed

respVars == <<response2, ackResult, due>>
txVars   == <<status, sending, answer, mixed>>
sendVars == <<kind, dev, cnt, res>>
vars == <<existed, respVars, enable, txVars, pc, sendVars>>

Init ==
  /\ existed = [d \in 1 .. Devices |-> "no"]
  /\ response2 = FALSE /\ ackResult = FALSE /\ enable = TRUE
  /\ status = {} /\ sending = "idle"
  /\ pc = [t \in Threads |-> "user"]
  /\ kind = [t \in Threads |-> "direct"] /\ dev = [t \in Threads |-> 1]
  /\ cnt = [t \in Threads |-> 0] /\ res = [t \in Threads |-> FALSE]
  /\ answer = [t \in Threads |-> "none"] /\ mixed = [t \in Threads |-> FALSE]
  /\ due = "any"

\* The threads in msleep, and whether no thread holds the big kernel lock.
Looking == {t \in Threads : pc[t] = "sleep"}
BklFree == \A t \in Threads : pc[t] \in {"user", "sleep"}

Step(t, from, to) ==
  /\ pc[t] = from
  /\ pc' = [pc EXCEPT ![t] = to]

Enter(t, to) == BklFree /\ Step(t, "user", to)

\* MDrv_CEC_Init clears all interrupts and the table.
MDrv_CEC_Init(t) ==
  /\ pc[t] = "user" /\ BklFree
  /\ existed' = [d \in 1 .. Devices |-> "no"]
  /\ status' = {}
  /\ mixed' = [u \in Threads |-> mixed[u] \/ u \in Looking]
  /\ UNCHANGED <<respVars, enable, sending, answer, pc, sendVars>>

-----------------------------------------------------------------------------
(* Sending.                                                                 *)

\* (mutant) the status bits of an earlier frame stay.
ClearStatusKept == UNCHANGED status

ClearStatus == status' = {}

\* _MDrv_CecSendFrame: the first store clears what an earlier frame left.
SendFrame(t) ==
  /\ ClearStatus
  /\ cnt' = [cnt EXCEPT ![t] = 0]
  /\ answer' = [answer EXCEPT ![t] = "none"]
  /\ mixed' = [u \in Threads |-> IF u = t THEN sending # "idle" \/ Looking # {}
                                 ELSE mixed[u] \/ u \in Looking]
  /\ UNCHANGED <<sending, existed, respVars, enable, res>>

\* MDrv_CEC_TxApi, which does nothing while CEC is disabled.
TxApi(t) ==
  /\ enable
  /\ Enter(t, "start")
  /\ \E k \in {"direct", "broadcast"} : kind' = [kind EXCEPT ![t] = k]
  /\ SendFrame(t)
  /\ UNCHANGED dev

ChkDevs(t) ==
  /\ Enter(t, "start")
  /\ kind' = [kind EXCEPT ![t] = "check"] /\ dev' = [dev EXCEPT ![t] = 1]
  /\ SendFrame(t)

\* CP_WRITE_CECM_SETMODE.
SetMode(t) ==
  /\ pc[t] = "user" /\ BklFree
  /\ enable' = ~enable
  /\ UNCHANGED <<existed, respVars, txVars, pc, sendVars>>

\* The store to CONFIG2 puts the frame on the bus; what it does to one that is
\* still there is the hardware's choice.
StartFrame(t) ==
  /\ Step(t, "start", "sleep")
  /\ sending' \in {t} \cup ({sending} \ {"idle"})
  /\ mixed' = [mixed EXCEPT ![t] = @ \/ sending # "idle"]
  /\ UNCHANGED <<existed, respVars, enable, status, answer, sendVars>>

\* The bus answers to the frame it carries.
Answer ==
  /\ sending # "idle"
  /\ \E a \in {"ok", "fail"} :
       /\ status' = status \cup {a}
       /\ answer' = [t \in Threads |->
            IF t = sending /\ pc[t] \in {"sleep", "read"} THEN a ELSE answer[t]]
  /\ sending' = "idle"
  /\ UNCHANGED <<existed, respVars, enable, mixed, pc, sendVars>>

\* (mutant) the loop only ends with an answer.
PollEndsAnswered(t, c) == status # {}

\* Is the loop over, with cnt at c before this look?
PollEnds(t, c) == c >= PollMax \/ status # {}

\* One turn of the loop, after msleep.  The count stops, for TLC, one above what the
\* loop can reach.
Poll(t) ==
  /\ BklFree
  /\ pc[t] = "sleep"
  /\ cnt' = [cnt EXCEPT ![t] = IF @ > PollMax + 1 THEN @ ELSE @ + 1]
  /\ pc' = [pc EXCEPT ![t] = IF PollEnds(t, cnt[t]) THEN "read" ELSE "sleep"]
  /\ UNCHANGED <<existed, respVars, enable, txVars, kind, dev, res>>

\* (mutant) any answer will do.
SuccessAny == status # {}

\* E_CEC_TX_SUCCESS is tested first.
Success == "ok" \in status

ReadStatus(t) ==
  /\ Step(t, "read", "finish")
  /\ res' = [res EXCEPT ![t] = Success]
  /\ UNCHANGED <<existed, respVars, enable, txVars, kind, dev, cnt>>

\* The result of MDrv_CEC_TxApi, for MDrv_CEC_GetResult to fetch.
TxResult(t) ==
  /\ kind[t] # "check"
  /\ Step(t, "finish", "user")
  /\ response2' = TRUE
  /\ ackResult' = (res[t] /\ kind[t] = "direct")
  /\ due' = IF mixed[t] THEN "any"
            ELSE IF kind[t] = "direct" /\ answer[t] = "ok" THEN "ack" ELSE "none"
  /\ UNCHANGED <<existed, dev>>

\* MDrv_CEC_ChkDevs notes the device and goes on to the next.  The history is told
\* whether the device did answer.
ChkResult(t) ==
  /\ kind[t] = "check"
  /\ existed' = [existed EXCEPT ![dev[t]] =
       IF ~res[t] THEN "no" ELSE IF answer[t] = "ok" \/ mixed[t] THEN "yes" ELSE "wrong"]
  /\ IF dev[t] < Devices
     THEN Step(t, "finish", "next") /\ dev' = [dev EXCEPT ![t] = @ + 1]
     ELSE Step(t, "finish", "user") /\ dev' = [dev EXCEPT ![t] = 1]
  /\ UNCHANGED <<response2, ackResult, due>>

Finish(t) ==
  /\ TxResult(t) \/ ChkResult(t)
  /\ status' = {}
  /\ sending' = IF sending = t THEN "stale" ELSE sending
  /\ cnt' = [cnt EXCEPT ![t] = 0] /\ res' = [res EXCEPT ![t] = FALSE]
  /\ kind' = [kind EXCEPT ![t] = IF pc'[t] = "next" THEN "check" ELSE "direct"]
  /\ answer' = [answer EXCEPT ![t] = "none"]
  /\ mixed' = [u \in Threads |-> u # t /\ (mixed[u] \/ u \in Looking)]
  /\ UNCHANGED enable

NextDevice(t) ==
  /\ Step(t, "next", "start")
  /\ SendFrame(t)
  /\ UNCHANGED <<kind, dev>>

\* MDrv_CEC_GetResult, once MDrv_CEC_Response tells of a result.
GetResult(t) ==
  /\ pc[t] = "user" /\ BklFree /\ response2
  /\ response2' = FALSE /\ due' = "any"
  /\ UNCHANGED <<existed, ackResult, enable, txVars, pc, sendVars>>

-----------------------------------------------------------------------------
Sending(t) == StartFrame(t) \/ Poll(t) \/ ReadStatus(t) \/ Finish(t) \/ NextDevice(t)

Next ==
  \/ Answer
  \/ \E t \in Threads :
       \/ MDrv_CEC_Init(t) \/ TxApi(t) \/ ChkDevs(t) \/ Sending(t)
       \/ SetMode(t) \/ GetResult(t)

Spec == Init /\ [][Next]_vars

\* A thread inside a handler goes on, and comes back from msleep.
FairSpec == Spec /\ \A t \in Threads : SF_vars(Sending(t))

-----------------------------------------------------------------------------
(* Properties.                                                              *)

\* Every variable keeps its type; the count of looks stays bounded.
TypeOK ==
  /\ {response2, ackResult, enable} \subseteq BOOLEAN
  /\ existed \in [1 .. Devices -> {"no", "yes", "wrong"}]
  /\ status \subseteq {"ok", "fail"} /\ sending \in Threads \cup {"idle", "stale"}
  /\ pc \in [Threads -> {"user", "start", "sleep", "read", "finish", "next"}]
  /\ kind \in [Threads -> {"direct", "broadcast", "check"}]
  /\ dev \in [Threads -> 1 .. Devices]
  /\ cnt \in [Threads -> 0 .. PollMax + 1] /\ res \in [Threads -> BOOLEAN]
  /\ answer \in [Threads -> {"none", "ok", "fail"}] /\ mixed \in [Threads -> BOOLEAN]
  /\ due \in {"any", "ack", "none"}

\* The result that MDrv_CEC_GetResult fetches is that of the frame _u8MsgID names: a
\* late answer to a frame given up does not become the next one's, unless it was
\* still on the bus when that one was sent, or two threads sent at once.
ResultTrue ==
  response2 => (due = "ack" => ackResult) /\ (due = "none" => ~ackResult)

\* Nor does MDrv_CEC_ChkDevs find a device that did not answer.
DevicesTrue == \A d \in 1 .. Devices : existed[d] # "wrong"

\* The loop of _MDrv_CecSendFrame ends, whether the bus answers or not, and
\* MDrv_CEC_ChkDevs gets through its devices.
SendReturns == \A t \in Threads : pc[t] = "sleep" ~> pc[t] = "user"
=============================================================================
