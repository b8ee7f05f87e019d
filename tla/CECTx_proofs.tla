----------------------------- MODULE CECTx_proofs -----------------------------
(***************************************************************************)
(* Theorems about CECTx, for every set of threads, every PollMax and any   *)
(* number of devices: its safety invariants hold.  What other threads can  *)
(* do to a frame falls into its sleep, where "mixed" tells of it; to a     *)
(* frame nobody disturbed the status bits tell what the bus answered.      *)
(***************************************************************************)
EXTENDS CECTx, TLAPS

-----------------------------------------------------------------------------
(* The inductive invariant.                                                 *)

\* One thread at most holds the big kernel lock.
Awake(t) == pc[t] \notin {"user", "sleep"}

Lone == \A t, u \in Threads : Awake(t) /\ Awake(u) => t = u

\* The count of looks starts at 0 and the loop ends at PollMax.
Counting(t) ==
  /\ pc[t] = "start" => cnt[t] = 0
  /\ pc[t] = "sleep" => cnt[t] <= PollMax

\* A thread that is about to start its frame has disturbed all who sleep.
Disturbs(t) ==
  pc[t] = "start" => \A u \in Threads : pc[u] = "sleep" => mixed[u]

\* The bus is free and the status clear for a frame that nobody disturbed.
Ready(t) ==
  pc[t] = "start" /\ ~mixed[t] =>
    sending = "idle" /\ status = {} /\ answer[t] = "none"

\* Until its answer is read the bus carries it or nothing, and the status says
\* what the bus answered.
Own(t) ==
  pc[t] \in {"sleep", "read"} /\ ~mixed[t] =>
    /\ sending \in {t, "idle"}
    /\ sending = t => status = {} /\ answer[t] = "none"
    /\ "ok" \in status <=> answer[t] = "ok"

Read(t) == pc[t] = "finish" /\ ~mixed[t] => (res[t] <=> answer[t] = "ok")

IInv ==
  /\ TypeOK
  /\ Lone
  /\ \A t \in Threads : Counting(t) /\ Disturbs(t) /\ Ready(t) /\ Own(t) /\ Read(t)
  /\ ResultTrue
  /\ DevicesTrue

-----------------------------------------------------------------------------
(* Lemmas: the initial states.                                              *)

LEMMA InitIInv == ASSUME Init PROVE IInv
<1> USE CECTxAssumption DEF Init
<1>1. TypeOK
  <2>1. 1 \in 1 .. Devices /\ 0 \in 0 .. PollMax + 1
    OBVIOUS
  <2>2. /\ {response2, ackResult, enable} \subseteq BOOLEAN
        /\ res \in [Threads -> BOOLEAN] /\ mixed \in [Threads -> BOOLEAN]
    BY Zenon
  <2> QED
    BY <2>1, <2>2 DEF TypeOK
<1>2. /\ Lone /\ ResultTrue /\ DevicesTrue
      /\ \A t \in Threads :
           Counting(t) /\ Disturbs(t) /\ Ready(t) /\ Own(t) /\ Read(t)
  BY DEF Lone, Awake, Counting, Disturbs, Ready, Own, Read, ResultTrue, DevicesTrue
<1> QED
  BY <1>1, <1>2 DEF IInv

-----------------------------------------------------------------------------
(* Lemmas: each step keeps the invariant.                                   *)

LEMMA AnswerKeeps ==
  ASSUME IInv, Answer
  PROVE  IInv'
<1> USE CECTxAssumption
    DEF Answer, respVars, txVars, sendVars
<1>1. TypeOK /\ Lone /\ ResultTrue /\ DevicesTrue
  BY DEF IInv
<1>2. \A v \in Threads : Counting(v) /\ Disturbs(v) /\ Ready(v) /\ Own(v) /\ Read(v)
  BY DEF IInv
<1>3. TypeOK'
  BY <1>1, <1>2 DEF TypeOK, Counting
<1>4. Lone'
  BY <1>1 DEF TypeOK, Lone, Awake
<1>5. \A v \in Threads : Counting(v)'
  BY <1>1, <1>2 DEF TypeOK, Counting
<1>6. \A v \in Threads : Disturbs(v)'
  BY <1>1, <1>2 DEF TypeOK, Lone, Awake, Disturbs
<1>7. \A v \in Threads : Ready(v)'
  BY <1>1, <1>2 DEF TypeOK, Lone, Awake, Ready
<1>8. \A v \in Threads : Own(v)'
  BY <1>1, <1>2 DEF TypeOK, Lone, Awake, Disturbs, Ready, Own
<1>9. \A v \in Threads : Read(v)'
  BY <1>1, <1>2 DEF TypeOK, Lone, Awake, Own, Read
<1>10. ResultTrue' /\ DevicesTrue'
  BY <1>1, <1>2 DEF TypeOK, Read, ResultTrue, DevicesTrue
<1> QED
  BY <1>3, <1>4, <1>5, <1>6, <1>7, <1>8, <1>9, <1>10 DEF IInv

LEMMA InitialiseKeeps ==
  ASSUME IInv, NEW t \in Threads, MDrv_CEC_Init(t)
  PROVE  IInv'
<1> USE CECTxAssumption
    DEF MDrv_CEC_Init, BklFree, Looking, respVars, txVars, sendVars
<1>1. TypeOK /\ Lone /\ ResultTrue /\ DevicesTrue
  BY DEF IInv
<1>2. \A v \in Threads : Counting(v) /\ Disturbs(v) /\ Ready(v) /\ Own(v) /\ Read(v)
  BY DEF IInv
<1>3. TypeOK'
  BY <1>1, <1>2 DEF TypeOK, Counting
<1>4. Lone'
  BY <1>1 DEF TypeOK, Lone, Awake
<1>5. \A v \in Threads : Counting(v)'
  BY <1>1, <1>2 DEF TypeOK, Counting
<1>6. \A v \in Threads : Disturbs(v)'
  BY <1>1, <1>2 DEF TypeOK, Lone, Awake, Disturbs
<1>7. \A v \in Threads : Ready(v)'
  BY <1>1, <1>2 DEF TypeOK, Lone, Awake, Ready
<1>8. \A v \in Threads : Own(v)'
  BY <1>1, <1>2 DEF TypeOK, Lone, Awake, Disturbs, Ready, Own
<1>9. \A v \in Threads : Read(v)'
  BY <1>1, <1>2 DEF TypeOK, Lone, Awake, Own, Read
<1>10. ResultTrue' /\ DevicesTrue'
  BY <1>1, <1>2 DEF TypeOK, Read, ResultTrue, DevicesTrue
<1> QED
  BY <1>3, <1>4, <1>5, <1>6, <1>7, <1>8, <1>9, <1>10 DEF IInv

LEMMA TxApiKeeps ==
  ASSUME IInv, NEW t \in Threads, TxApi(t)
  PROVE  IInv'
<1> USE CECTxAssumption
    DEF TxApi, Enter, Step, BklFree, SendFrame, ClearStatus, Looking, respVars, txVars, sendVars
<1>1. TypeOK /\ Lone /\ ResultTrue /\ DevicesTrue
  BY DEF IInv
<1>2. \A v \in Threads : Counting(v) /\ Disturbs(v) /\ Ready(v) /\ Own(v) /\ Read(v)
  BY DEF IInv
<1>3. TypeOK'
  <2>1. mixed' \in [Threads -> BOOLEAN]
    BY <1>1, Zenon DEF TypeOK
  <2>2. /\ cnt' \in [Threads -> 0 .. PollMax + 1] /\ res' \in [Threads -> BOOLEAN]
        /\ dev' \in [Threads -> 1 .. Devices]
    BY <1>1 DEF TypeOK
  <2>3. /\ pc' \in [Threads -> {"user", "start", "sleep", "read", "finish", "next"}]
        /\ kind' \in [Threads -> {"direct", "broadcast", "check"}]
        /\ answer' \in [Threads -> {"none", "ok", "fail"}]
    BY <1>1 DEF TypeOK
  <2>4. /\ {response2', ackResult', enable'} \subseteq BOOLEAN
        /\ due' \in {"any", "ack", "none"}
    BY <1>1 DEF TypeOK
  <2>5. /\ existed' \in [1 .. Devices -> {"no", "yes", "wrong"}]
        /\ status' \subseteq {"ok", "fail"}
        /\ sending' \in Threads \cup {"idle", "stale"}
    BY <1>1 DEF TypeOK
  <2> QED
    BY <2>1, <2>2, <2>3, <2>4, <2>5 DEF TypeOK
<1>4. Lone'
  BY <1>1 DEF TypeOK, Lone, Awake
<1>5. \A v \in Threads : Counting(v)'
  BY <1>1, <1>2 DEF TypeOK, Counting
<1>6. \A v \in Threads : Disturbs(v)'
  <2>1. \A u \in Threads : pc'[u] = "sleep" => u # t /\ pc[u] = "sleep"
    BY <1>1 DEF TypeOK
  <2>2. \A u \in Threads : pc'[u] = "sleep" => mixed'[u]
    BY <2>1
  <2> QED
    BY <2>2 DEF Disturbs
<1>7. \A v \in Threads : Ready(v)'
  BY <1>1, <1>2 DEF TypeOK, Lone, Awake, Ready
<1>8. \A v \in Threads : Own(v)'
  <2>1. \A v \in Threads : v # t /\ pc[v] = "sleep" => mixed'[v]
    BY <1>1, Zenon DEF TypeOK
  <2>2. \A v \in Threads : pc'[v] \in {"sleep", "read"} => v # t /\ pc[v] = "sleep"
    BY <1>1 DEF TypeOK, Lone, Awake
  <2> QED
    BY <2>1, <2>2 DEF Own
<1>9. \A v \in Threads : Read(v)'
  BY <1>1, <1>2 DEF TypeOK, Lone, Awake, Own, Read
<1>10. ResultTrue' /\ DevicesTrue'
  BY <1>1, <1>2 DEF TypeOK, Read, ResultTrue, DevicesTrue
<1> QED
  BY <1>3, <1>4, <1>5, <1>6, <1>7, <1>8, <1>9, <1>10 DEF IInv

LEMMA ChkDevsKeeps ==
  ASSUME IInv, NEW t \in Threads, ChkDevs(t)
  PROVE  IInv'
<1> USE CECTxAssumption
    DEF ChkDevs, Enter, Step, BklFree, SendFrame, ClearStatus, Looking, respVars, txVars, sendVars
<1>1. TypeOK /\ Lone /\ ResultTrue /\ DevicesTrue
  BY DEF IInv
<1>2. \A v \in Threads : Counting(v) /\ Disturbs(v) /\ Ready(v) /\ Own(v) /\ Read(v)
  BY DEF IInv
<1>3. TypeOK'
  <2>1. mixed' \in [Threads -> BOOLEAN]
    BY <1>1, Zenon DEF TypeOK
  <2>2. /\ cnt' \in [Threads -> 0 .. PollMax + 1] /\ res' \in [Threads -> BOOLEAN]
        /\ dev' \in [Threads -> 1 .. Devices]
    BY <1>1 DEF TypeOK
  <2>3. /\ pc' \in [Threads -> {"user", "start", "sleep", "read", "finish", "next"}]
        /\ kind' \in [Threads -> {"direct", "broadcast", "check"}]
        /\ answer' \in [Threads -> {"none", "ok", "fail"}]
    BY <1>1 DEF TypeOK
  <2>4. /\ {response2', ackResult', enable'} \subseteq BOOLEAN
        /\ due' \in {"any", "ack", "none"}
    BY <1>1 DEF TypeOK
  <2>5. /\ existed' \in [1 .. Devices -> {"no", "yes", "wrong"}]
        /\ status' \subseteq {"ok", "fail"}
        /\ sending' \in Threads \cup {"idle", "stale"}
    BY <1>1 DEF TypeOK
  <2> QED
    BY <2>1, <2>2, <2>3, <2>4, <2>5 DEF TypeOK
<1>4. Lone'
  BY <1>1 DEF TypeOK, Lone, Awake
<1>5. \A v \in Threads : Counting(v)'
  BY <1>1, <1>2 DEF TypeOK, Counting
<1>6. \A v \in Threads : Disturbs(v)'
  <2>1. \A u \in Threads : pc'[u] = "sleep" => u # t /\ pc[u] = "sleep"
    BY <1>1 DEF TypeOK
  <2>2. \A u \in Threads : pc'[u] = "sleep" => mixed'[u]
    BY <2>1
  <2> QED
    BY <2>2 DEF Disturbs
<1>7. \A v \in Threads : Ready(v)'
  BY <1>1, <1>2 DEF TypeOK, Lone, Awake, Ready
<1>8. \A v \in Threads : Own(v)'
  <2>1. \A v \in Threads : v # t /\ pc[v] = "sleep" => mixed'[v]
    BY <1>1, Zenon DEF TypeOK
  <2>2. \A v \in Threads : pc'[v] \in {"sleep", "read"} => v # t /\ pc[v] = "sleep"
    BY <1>1 DEF TypeOK, Lone, Awake
  <2> QED
    BY <2>1, <2>2 DEF Own
<1>9. \A v \in Threads : Read(v)'
  BY <1>1, <1>2 DEF TypeOK, Lone, Awake, Own, Read
<1>10. ResultTrue' /\ DevicesTrue'
  BY <1>1, <1>2 DEF TypeOK, Read, ResultTrue, DevicesTrue
<1> QED
  BY <1>3, <1>4, <1>5, <1>6, <1>7, <1>8, <1>9, <1>10 DEF IInv

LEMMA SetModeKeeps ==
  ASSUME IInv, NEW t \in Threads, SetMode(t)
  PROVE  IInv'
<1> USE CECTxAssumption
    DEF SetMode, BklFree, respVars, txVars, sendVars
<1>1. TypeOK /\ Lone /\ ResultTrue /\ DevicesTrue
  BY DEF IInv
<1>2. \A v \in Threads : Counting(v) /\ Disturbs(v) /\ Ready(v) /\ Own(v) /\ Read(v)
  BY DEF IInv
<1>3. TypeOK'
  BY <1>1, <1>2 DEF TypeOK, Counting
<1>4. Lone'
  BY <1>1 DEF TypeOK, Lone, Awake
<1>5. \A v \in Threads : Counting(v)'
  BY <1>1, <1>2 DEF TypeOK, Counting
<1>6. \A v \in Threads : Disturbs(v)'
  BY <1>1, <1>2 DEF TypeOK, Lone, Awake, Disturbs
<1>7. \A v \in Threads : Ready(v)'
  BY <1>1, <1>2 DEF TypeOK, Lone, Awake, Ready
<1>8. \A v \in Threads : Own(v)'
  BY <1>1, <1>2 DEF TypeOK, Lone, Awake, Disturbs, Ready, Own
<1>9. \A v \in Threads : Read(v)'
  BY <1>1, <1>2 DEF TypeOK, Lone, Awake, Own, Read
<1>10. ResultTrue' /\ DevicesTrue'
  BY <1>1, <1>2 DEF TypeOK, Read, ResultTrue, DevicesTrue
<1> QED
  BY <1>3, <1>4, <1>5, <1>6, <1>7, <1>8, <1>9, <1>10 DEF IInv

LEMMA StartFrameKeeps ==
  ASSUME IInv, NEW t \in Threads, StartFrame(t)
  PROVE  IInv'
<1> USE CECTxAssumption
    DEF StartFrame, Step, respVars, txVars, sendVars
<1>1. TypeOK /\ Lone /\ ResultTrue /\ DevicesTrue
  BY DEF IInv
<1>2. \A v \in Threads : Counting(v) /\ Disturbs(v) /\ Ready(v) /\ Own(v) /\ Read(v)
  BY DEF IInv
<1>3. TypeOK'
  BY <1>1, <1>2 DEF TypeOK, Counting
<1>4. Lone'
  BY <1>1 DEF TypeOK, Lone, Awake
<1>5. \A v \in Threads : Counting(v)'
  BY <1>1, <1>2 DEF TypeOK, Counting
<1>6. \A v \in Threads : Disturbs(v)'
  <2>1. \A v \in Threads : pc'[v] # "start"
    BY <1>1 DEF TypeOK, Lone, Awake
  <2> QED
    BY <2>1 DEF Disturbs
<1>7. \A v \in Threads : Ready(v)'
  BY <1>1, <1>2 DEF TypeOK, Lone, Awake, Ready
<1>8. \A v \in Threads : Own(v)'
  <2>1. ~mixed'[t] => sending = "idle" /\ ~mixed[t]
    BY <1>1, Zenon DEF TypeOK
  <2>2. Own(t)'
    BY <1>1, <1>2, <2>1 DEF TypeOK, Ready, Own
  <2>3. \A v \in Threads : v # t /\ pc'[v] \in {"sleep", "read"} => mixed[v] /\ mixed'[v]
    BY <1>1, <1>2 DEF TypeOK, Lone, Awake, Disturbs
  <2> QED
    BY <2>2, <2>3 DEF Own
<1>9. \A v \in Threads : Read(v)'
  BY <1>1, <1>2 DEF TypeOK, Lone, Awake, Own, Read
<1>10. ResultTrue' /\ DevicesTrue'
  BY <1>1, <1>2 DEF TypeOK, Read, ResultTrue, DevicesTrue
<1> QED
  BY <1>3, <1>4, <1>5, <1>6, <1>7, <1>8, <1>9, <1>10 DEF IInv

LEMMA PollKeeps ==
  ASSUME IInv, NEW t \in Threads, Poll(t)
  PROVE  IInv'
<1> USE CECTxAssumption
    DEF Poll, BklFree, PollEnds, respVars, txVars, sendVars
<1>1. TypeOK /\ Lone /\ ResultTrue /\ DevicesTrue
  BY DEF IInv
<1>2. \A v \in Threads : Counting(v) /\ Disturbs(v) /\ Ready(v) /\ Own(v) /\ Read(v)
  BY DEF IInv
<1>3. TypeOK'
  BY <1>1, <1>2 DEF TypeOK, Counting
<1>4. Lone'
  BY <1>1 DEF TypeOK, Lone, Awake
<1>5. \A v \in Threads : Counting(v)'
  BY <1>1, <1>2 DEF TypeOK, Counting
<1>6. \A v \in Threads : Disturbs(v)'
  BY <1>1, <1>2 DEF TypeOK, Lone, Awake, Disturbs
<1>7. \A v \in Threads : Ready(v)'
  BY <1>1, <1>2 DEF TypeOK, Lone, Awake, Ready
<1>8. \A v \in Threads : Own(v)'
  BY <1>1, <1>2 DEF TypeOK, Lone, Awake, Disturbs, Ready, Own
<1>9. \A v \in Threads : Read(v)'
  BY <1>1, <1>2 DEF TypeOK, Lone, Awake, Own, Read
<1>10. ResultTrue' /\ DevicesTrue'
  BY <1>1, <1>2 DEF TypeOK, Read, ResultTrue, DevicesTrue
<1> QED
  BY <1>3, <1>4, <1>5, <1>6, <1>7, <1>8, <1>9, <1>10 DEF IInv

LEMMA ReadStatusKeeps ==
  ASSUME IInv, NEW t \in Threads, ReadStatus(t)
  PROVE  IInv'
<1> USE CECTxAssumption
    DEF ReadStatus, Step, Success, respVars, txVars, sendVars
<1>1. TypeOK /\ Lone /\ ResultTrue /\ DevicesTrue
  BY DEF IInv
<1>2. \A v \in Threads : Counting(v) /\ Disturbs(v) /\ Ready(v) /\ Own(v) /\ Read(v)
  BY DEF IInv
<1>3. TypeOK'
  BY <1>1, <1>2 DEF TypeOK, Counting
<1>4. Lone'
  BY <1>1 DEF TypeOK, Lone, Awake
<1>5. \A v \in Threads : Counting(v)'
  BY <1>1, <1>2 DEF TypeOK, Counting
<1>6. \A v \in Threads : Disturbs(v)'
  BY <1>1, <1>2 DEF TypeOK, Lone, Awake, Disturbs
<1>7. \A v \in Threads : Ready(v)'
  BY <1>1, <1>2 DEF TypeOK, Lone, Awake, Ready
<1>8. \A v \in Threads : Own(v)'
  BY <1>1, <1>2 DEF TypeOK, Lone, Awake, Disturbs, Ready, Own
<1>9. \A v \in Threads : Read(v)'
  <2>1. res'[t] <=> "ok" \in status
    BY <1>1, Zenon DEF TypeOK
  <2> QED
    BY <1>1, <1>2, <2>1 DEF TypeOK, Lone, Awake, Own, Read
<1>10. ResultTrue' /\ DevicesTrue'
  BY <1>1, <1>2 DEF TypeOK, Read, ResultTrue, DevicesTrue
<1> QED
  BY <1>3, <1>4, <1>5, <1>6, <1>7, <1>8, <1>9, <1>10 DEF IInv

LEMMA TxFinishKeeps ==
  ASSUME IInv, NEW t \in Threads, Finish(t), TxResult(t)
  PROVE  IInv'
<1> USE CECTxAssumption
    DEF Finish, TxResult, Step, Looking, respVars, txVars, sendVars
<1>1. TypeOK /\ Lone /\ ResultTrue /\ DevicesTrue
  BY DEF IInv
<1>2. \A v \in Threads : Counting(v) /\ Disturbs(v) /\ Ready(v) /\ Own(v) /\ Read(v)
  BY DEF IInv
<1>3. TypeOK'
  <2>1. mixed' \in [Threads -> BOOLEAN]
    BY <1>1, Zenon DEF TypeOK
  <2>2. /\ cnt' \in [Threads -> 0 .. PollMax + 1] /\ res' \in [Threads -> BOOLEAN]
        /\ dev' \in [Threads -> 1 .. Devices]
    BY <1>1 DEF TypeOK
  <2>3. /\ pc' \in [Threads -> {"user", "start", "sleep", "read", "finish", "next"}]
        /\ kind' \in [Threads -> {"direct", "broadcast", "check"}]
        /\ answer' \in [Threads -> {"none", "ok", "fail"}]
    BY <1>1 DEF TypeOK
  <2>4. /\ {response2', ackResult', enable'} \subseteq BOOLEAN
        /\ due' \in {"any", "ack", "none"}
    BY <1>1 DEF TypeOK
  <2>5. /\ existed' \in [1 .. Devices -> {"no", "yes", "wrong"}]
        /\ status' \subseteq {"ok", "fail"}
        /\ sending' \in Threads \cup {"idle", "stale"}
    BY <1>1 DEF TypeOK
  <2> QED
    BY <2>1, <2>2, <2>3, <2>4, <2>5 DEF TypeOK
<1>4. Lone'
  BY <1>1 DEF TypeOK, Lone, Awake
<1>5. \A v \in Threads : Counting(v)'
  BY <1>1, <1>2 DEF TypeOK, Counting
<1>6. \A v \in Threads : Disturbs(v)'
  BY <1>1, <1>2 DEF TypeOK, Lone, Awake, Disturbs
<1>7. \A v \in Threads : Ready(v)'
  BY <1>1, <1>2 DEF TypeOK, Lone, Awake, Ready
<1>8. \A v \in Threads : Own(v)'
  <2>1. \A v \in Threads : v # t /\ pc[v] = "sleep" => mixed'[v]
    BY <1>1, Zenon DEF TypeOK
  <2>2. \A v \in Threads : pc'[v] \in {"sleep", "read"} => v # t /\ pc[v] = "sleep"
    BY <1>1 DEF TypeOK, Lone, Awake
  <2> QED
    BY <2>1, <2>2 DEF Own
<1>9. \A v \in Threads : Read(v)'
  BY <1>1, <1>2 DEF TypeOK, Lone, Awake, Own, Read
<1>10. ResultTrue' /\ DevicesTrue'
  BY <1>1, <1>2 DEF TypeOK, Read, ResultTrue, DevicesTrue
<1> QED
  BY <1>3, <1>4, <1>5, <1>6, <1>7, <1>8, <1>9, <1>10 DEF IInv

LEMMA ChkFinishKeeps ==
  ASSUME IInv, NEW t \in Threads, Finish(t), ChkResult(t)
  PROVE  IInv'
<1> USE CECTxAssumption
    DEF Finish, ChkResult, Step, Looking, respVars, txVars, sendVars
<1>1. TypeOK /\ Lone /\ ResultTrue /\ DevicesTrue
  BY DEF IInv
<1>2. \A v \in Threads : Counting(v) /\ Disturbs(v) /\ Ready(v) /\ Own(v) /\ Read(v)
  BY DEF IInv
<1>0. \E p \in {"user", "next"} : pc' = [pc EXCEPT ![t] = p]
  BY <1>1 DEF TypeOK
<1>3. TypeOK'
  <2>1. mixed' \in [Threads -> BOOLEAN]
    BY <1>1, Zenon DEF TypeOK
  <2>2. /\ cnt' \in [Threads -> 0 .. PollMax + 1] /\ res' \in [Threads -> BOOLEAN]
        /\ dev' \in [Threads -> 1 .. Devices]
    BY <1>1 DEF TypeOK
  <2>3. /\ pc' \in [Threads -> {"user", "start", "sleep", "read", "finish", "next"}]
        /\ kind' \in [Threads -> {"direct", "broadcast", "check"}]
        /\ answer' \in [Threads -> {"none", "ok", "fail"}]
    <3>1. pc' \in [Threads -> {"user", "start", "sleep", "read", "finish", "next"}]
      BY <1>0, <1>1 DEF TypeOK
    <3>2. /\ \E k \in {"check", "direct"} : kind' = [kind EXCEPT ![t] = k]
          /\ answer' = [answer EXCEPT ![t] = "none"]
      OBVIOUS
    <3> QED
      BY <1>1, <3>1, <3>2 DEF TypeOK
  <2>4. /\ {response2', ackResult', enable'} \subseteq BOOLEAN
        /\ due' \in {"any", "ack", "none"}
    BY <1>1 DEF TypeOK
  <2>5. /\ existed' \in [1 .. Devices -> {"no", "yes", "wrong"}]
        /\ status' \subseteq {"ok", "fail"}
        /\ sending' \in Threads \cup {"idle", "stale"}
    BY <1>1 DEF TypeOK
  <2> QED
    BY <2>1, <2>2, <2>3, <2>4, <2>5 DEF TypeOK
<1>4. Lone'
  BY <1>1, <1>0 DEF TypeOK, Lone, Awake
<1>5. \A v \in Threads : Counting(v)'
  BY <1>1, <1>2 DEF TypeOK, Counting
<1>6. \A v \in Threads : Disturbs(v)'
  BY <1>1, <1>2, <1>0 DEF TypeOK, Lone, Awake, Disturbs
<1>7. \A v \in Threads : Ready(v)'
  BY <1>1, <1>2 DEF TypeOK, Lone, Awake, Ready
<1>8. \A v \in Threads : Own(v)'
  <2>1. \A v \in Threads : v # t /\ pc[v] = "sleep" => mixed'[v]
    BY <1>1, Zenon DEF TypeOK
  <2>2. \A v \in Threads : pc'[v] \in {"sleep", "read"} => v # t /\ pc[v] = "sleep"
    BY <1>1, <1>0 DEF TypeOK, Lone, Awake
  <2> QED
    BY <2>1, <2>2 DEF Own
<1>9. \A v \in Threads : Read(v)'
  BY <1>1, <1>2 DEF TypeOK, Lone, Awake, Own, Read
<1>10. ResultTrue' /\ DevicesTrue'
  BY <1>1, <1>2 DEF TypeOK, Read, ResultTrue, DevicesTrue
<1> QED
  BY <1>3, <1>4, <1>5, <1>6, <1>7, <1>8, <1>9, <1>10 DEF IInv

LEMMA NextDeviceKeeps ==
  ASSUME IInv, NEW t \in Threads, NextDevice(t)
  PROVE  IInv'
<1> USE CECTxAssumption
    DEF NextDevice, Step, SendFrame, ClearStatus, Looking, respVars, txVars, sendVars
<1>1. TypeOK /\ Lone /\ ResultTrue /\ DevicesTrue
  BY DEF IInv
<1>2. \A v \in Threads : Counting(v) /\ Disturbs(v) /\ Ready(v) /\ Own(v) /\ Read(v)
  BY DEF IInv
<1>3. TypeOK'
  <2>1. mixed' \in [Threads -> BOOLEAN]
    BY <1>1, Zenon DEF TypeOK
  <2>2. /\ cnt' \in [Threads -> 0 .. PollMax + 1] /\ res' \in [Threads -> BOOLEAN]
        /\ dev' \in [Threads -> 1 .. Devices]
    BY <1>1 DEF TypeOK
  <2>3. /\ pc' \in [Threads -> {"user", "start", "sleep", "read", "finish", "next"}]
        /\ kind' \in [Threads -> {"direct", "broadcast", "check"}]
        /\ answer' \in [Threads -> {"none", "ok", "fail"}]
    BY <1>1 DEF TypeOK
  <2>4. /\ {response2', ackResult', enable'} \subseteq BOOLEAN
        /\ due' \in {"any", "ack", "none"}
    BY <1>1 DEF TypeOK
  <2>5. /\ existed' \in [1 .. Devices -> {"no", "yes", "wrong"}]
        /\ status' \subseteq {"ok", "fail"}
        /\ sending' \in Threads \cup {"idle", "stale"}
    BY <1>1 DEF TypeOK
  <2> QED
    BY <2>1, <2>2, <2>3, <2>4, <2>5 DEF TypeOK
<1>4. Lone'
  BY <1>1 DEF TypeOK, Lone, Awake
<1>5. \A v \in Threads : Counting(v)'
  BY <1>1, <1>2 DEF TypeOK, Counting
<1>6. \A v \in Threads : Disturbs(v)'
  BY <1>1, <1>2 DEF TypeOK, Lone, Awake, Disturbs
<1>7. \A v \in Threads : Ready(v)'
  BY <1>1, <1>2 DEF TypeOK, Lone, Awake, Ready
<1>8. \A v \in Threads : Own(v)'
  <2>1. \A v \in Threads : v # t /\ pc[v] = "sleep" => mixed'[v]
    BY <1>1, Zenon DEF TypeOK
  <2>2. \A v \in Threads : pc'[v] \in {"sleep", "read"} => v # t /\ pc[v] = "sleep"
    BY <1>1 DEF TypeOK, Lone, Awake
  <2> QED
    BY <2>1, <2>2 DEF Own
<1>9. \A v \in Threads : Read(v)'
  BY <1>1, <1>2 DEF TypeOK, Lone, Awake, Own, Read
<1>10. ResultTrue' /\ DevicesTrue'
  BY <1>1, <1>2 DEF TypeOK, Read, ResultTrue, DevicesTrue
<1> QED
  BY <1>3, <1>4, <1>5, <1>6, <1>7, <1>8, <1>9, <1>10 DEF IInv

LEMMA GetResultKeeps ==
  ASSUME IInv, NEW t \in Threads, GetResult(t)
  PROVE  IInv'
<1> USE CECTxAssumption
    DEF GetResult, BklFree, respVars, txVars, sendVars
<1>1. TypeOK /\ Lone /\ ResultTrue /\ DevicesTrue
  BY DEF IInv
<1>2. \A v \in Threads : Counting(v) /\ Disturbs(v) /\ Ready(v) /\ Own(v) /\ Read(v)
  BY DEF IInv
<1>3. TypeOK'
  BY <1>1, <1>2 DEF TypeOK, Counting
<1>4. Lone'
  BY <1>1 DEF TypeOK, Lone, Awake
<1>5. \A v \in Threads : Counting(v)'
  BY <1>1, <1>2 DEF TypeOK, Counting
<1>6. \A v \in Threads : Disturbs(v)'
  BY <1>1, <1>2 DEF TypeOK, Lone, Awake, Disturbs
<1>7. \A v \in Threads : Ready(v)'
  BY <1>1, <1>2 DEF TypeOK, Lone, Awake, Ready
<1>8. \A v \in Threads : Own(v)'
  BY <1>1, <1>2 DEF TypeOK, Lone, Awake, Disturbs, Ready, Own
<1>9. \A v \in Threads : Read(v)'
  BY <1>1, <1>2 DEF TypeOK, Lone, Awake, Own, Read
<1>10. ResultTrue' /\ DevicesTrue'
  BY <1>1, <1>2 DEF TypeOK, Read, ResultTrue, DevicesTrue
<1> QED
  BY <1>3, <1>4, <1>5, <1>6, <1>7, <1>8, <1>9, <1>10 DEF IInv

LEMMA NextIInv ==
  ASSUME IInv, [Next]_vars
  PROVE  IInv'
<1>1. CASE Answer
  BY <1>1, AnswerKeeps
<1>2. ASSUME NEW t \in Threads, MDrv_CEC_Init(t) PROVE IInv'
  BY <1>2, InitialiseKeeps
<1>3. ASSUME NEW t \in Threads, TxApi(t) PROVE IInv'
  BY <1>3, TxApiKeeps
<1>4. ASSUME NEW t \in Threads, ChkDevs(t) PROVE IInv'
  BY <1>4, ChkDevsKeeps
<1>5. ASSUME NEW t \in Threads, Sending(t) PROVE IInv'
  <2>1. CASE StartFrame(t)
    BY <2>1, StartFrameKeeps
  <2>2. CASE Poll(t)
    BY <2>2, PollKeeps
  <2>3. CASE ReadStatus(t)
    BY <2>3, ReadStatusKeeps
  <2>4. CASE Finish(t)
    <3>1. TxResult(t) \/ ChkResult(t)
      BY <2>4 DEF Finish
    <3> QED
      BY <2>4, <3>1, TxFinishKeeps, ChkFinishKeeps
  <2>5. CASE NextDevice(t)
    BY <2>5, NextDeviceKeeps
  <2> QED
    BY <1>5, <2>1, <2>2, <2>3, <2>4, <2>5 DEF Sending
<1>6. ASSUME NEW t \in Threads, SetMode(t) PROVE IInv'
  BY <1>6, SetModeKeeps
<1>7. ASSUME NEW t \in Threads, GetResult(t) PROVE IInv'
  BY <1>7, GetResultKeeps
<1>8. CASE UNCHANGED vars
  BY <1>8
  DEF IInv, TypeOK, Lone, Awake, Counting, Disturbs, Ready, Own, Read, ResultTrue,
      DevicesTrue, vars, respVars, txVars, sendVars
<1> QED
  BY <1>1, <1>2, <1>3, <1>4, <1>5, <1>6, <1>7, <1>8 DEF Next

-----------------------------------------------------------------------------
(* Theorems.                                                                *)

\* The invariant of the two kinds of send: the big kernel lock, the loop of
\* _MDrv_CecSendFrame, and what the status bits say of its frame.
THEOREM Inductive == Spec => []IInv
<1>1. Init => IInv
  BY InitIInv
<1>2. IInv /\ [Next]_vars => IInv'
  BY NextIInv
<1> QED
  BY <1>1, <1>2, PTL DEF Spec

\* Every variable keeps its type; the loop of _MDrv_CecSendFrame looks PollMax + 1
\* times at most.
THEOREM TypeCorrect == Spec => []TypeOK
<1>1. IInv => TypeOK
  BY DEF IInv
<1> QED
  BY <1>1, Inductive, PTL

\* MDrv_CEC_GetResult fetches the answer to the frame it names, for any number of
\* threads that send and of frames given up.
THEOREM ResultsTrue == Spec => []ResultTrue
<1>1. IInv => ResultTrue
  BY DEF IInv
<1> QED
  BY <1>1, Inductive, PTL

\* MDrv_CEC_ChkDevs finds no device that did not answer.
THEOREM DevicesFound == Spec => []DevicesTrue
<1>1. IInv => DevicesTrue
  BY DEF IInv
<1> QED
  BY <1>1, Inductive, PTL
=============================================================================
