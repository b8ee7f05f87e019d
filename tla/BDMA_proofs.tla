----------------------------- MODULE BDMA_proofs -----------------------------
(***************************************************************************)
(* Theorems about BDMA, for every set of callers and every WaitTime: its   *)
(* safety invariants hold.  Channel 0 is the only one ever used, and the   *)
(* big kernel lock makes a call one step up to its first nap; what other   *)
(* callers can do to it falls into its naps, where "hit" tells of it.      *)
(***************************************************************************)
EXTENDS BDMA, TLAPS

-----------------------------------------------------------------------------
(* The inductive invariant.                                                 *)

\* One thread at most holds the big kernel lock.
Lone == \A t, u \in Threads : ~Asleep(t) /\ ~Asleep(u) => t = u

\* Only a running transfer can be stopping, and DONE or RESULT is not set while
\* one runs.
EngineTells ==
  /\ stopping[0] => Busy(0)
  /\ done[0] \/ found[0] => ~Busy(0)

\* From its Stop to its start a call has the channel for itself: what is left of
\* an earlier transfer is stopping, and who sleeps on it has been hit.
Stopped(t) ==
  pc[t] \in {"clear", "start"} =>
    /\ Busy(0) => stopping[0]
    /\ \A u \in Threads : pc[u] = "sleep" => hit[u]

Cleared(t) == pc[t] = "start" => ~done[0] /\ ~found[0]

\* The result is stored last, and the kind of a call limits its transfers.
InProgress(t) ==
  /\ pc[t] # "user" => ret[t] = "none"
  /\ job[t] = "copy" => stage[t] = "copy"
  /\ pc[t] \in {"look", "sleep"} => left[t] # 0

\* A call that nobody hit waits for its own transfer, or that has ended.
Mine(t) ==
  pc[t] \in {"look", "sleep"} /\ ~hit[t] =>
    \/ run[0] = Transfer(t, stage[t]) /\ ~stopping[0]
    \/ ~Busy(0) /\ (stage[t] = "copy" => dst[t] = "new")

\* A call that checks its destination runs nothing else, and the CRC of its
\* source is in the register only if the destination has the same data.
Checking(t) ==
  stage[t] = "crcDst" =>
    /\ run[0].by = t => run[0].kind = "crcDst"
    /\ pc[t] \in {"look", "sleep"} /\ cmd1[0] = SrcCrc(t) => dst[t] = "new"

Results == OkIsDone /\ OkIsQuiet /\ VerifiedCopy

IInv ==
  /\ TypeOK
  /\ OneChannel
  /\ Lone
  /\ EngineTells
  /\ \A t \in Threads :
       Stopped(t) /\ Cleared(t) /\ InProgress(t) /\ Mine(t) /\ Checking(t)
  /\ Results

-----------------------------------------------------------------------------
(* Lemmas: the initial states.                                              *)

LEMMA InitIInv == ASSUME Init PROVE IInv
  BY BDMAAssumption
  DEF Init, IInv, TypeOK, OneChannel, Lone, EngineTells, Stopped, Cleared, InProgress,
      Mine, Checking, Results, OkIsDone, OkIsQuiet, VerifiedCopy, Asleep, Busy, Queued,
      Channels, TransferSet, CrcSet, Transfer, Crc, None, Fail, Seed, SrcCrc, Kinds

-----------------------------------------------------------------------------
(* Lemmas: what a call may become when one of its transfers has returned.   *)

LEMMA ReturnedShape ==
  ASSUME IInv, NEW t \in Threads, NEW r \in {"ok", "fail", "timeout"}, Returned(t, r)
  PROVE  /\ job' = job
         /\ chan' = chan
         /\ \E p \in {"user", "free"} : pc' = [pc EXCEPT ![t] = p]
         /\ \E s \in Kinds : stage' = [stage EXCEPT ![t] = s]
         /\ \E v \in CrcSet : val' = [val EXCEPT ![t] = v]
         /\ \E o \in {"none", "ok", "match", "fail", "timeout"} :
              ret' = [ret EXCEPT ![t] = o]
         /\ pc'[t] = "free" => ret' = ret
         /\ pc'[t] = "user" => val' = val /\ stage' = stage
         /\ job[t] = "copy" => stage'[t] = "copy"
         /\ stage'[t] = "crcDst" => stage[t] = "crcDst" \/ r = "ok"
         /\ ret'[t] = "ok" /\ pc'[t] = "user" =>
              \/ r = "ok" /\ stage[t] = "copy" /\ job[t] # "verify"
              \/ /\ stage[t] = "crcDst" /\ job[t] # "copy"
                 /\ val[t] = IF r = "ok" THEN cmd1[0] ELSE Fail
<1> USE DEF Kinds
<1>1. /\ chan[t] = 0 /\ cmd1[0] \in CrcSet /\ Fail \in CrcSet
      /\ chan \in [Threads -> Channels] /\ stage[t] \in Kinds
      /\ pc \in [Threads -> {"user", "free", "nap", "stop", "clear", "start",
                             "look", "sleep"}]
      /\ val \in [Threads -> CrcSet] /\ stage \in [Threads -> Kinds]
      /\ job[t] = "copy" => stage[t] = "copy"
      /\ ret \in [Threads -> {"none", "ok", "match", "fail", "timeout"}]
  BY DEF IInv, TypeOK, OneChannel, Channels, InProgress, CrcSet, Fail, Crc
<1>2. chan = [chan EXCEPT ![t] = 0]
  BY <1>1
<1>3. /\ val = [val EXCEPT ![t] = val[t]] /\ val[t] \in CrcSet
      /\ stage = [stage EXCEPT ![t] = stage[t]]
      /\ ret = [ret EXCEPT ![t] = ret[t]]
      /\ ret[t] \in {"none", "ok", "match", "fail", "timeout"}
  BY <1>1
<1>4. CASE stage[t] = "crcSrc"
  <2>1. /\ job' = job /\ ret' = ret /\ chan' = chan
        /\ pc' = [pc EXCEPT ![t] = "free"] /\ stage' = [stage EXCEPT ![t] = "copy"]
        /\ val' = [val EXCEPT ![t] = IF r = "ok" THEN cmd1[0] ELSE Fail]
    BY <1>1, <1>2, <1>4 DEF Returned, Continue
  <2>2. (IF r = "ok" THEN cmd1[0] ELSE Fail) \in CrcSet
    BY <1>1
  <2>3. pc'[t] = "free" /\ stage'[t] = "copy"
    BY <1>1, <2>1
  <2> QED
    BY <1>3, <1>4, <2>1, <2>2, <2>3
<1>5. CASE stage[t] = "copy" /\ job[t] = "verify" /\ r = "ok"
  <2>1. /\ job' = job /\ ret' = ret /\ chan' = chan /\ val' = val
        /\ pc' = [pc EXCEPT ![t] = "free"] /\ stage' = [stage EXCEPT ![t] = "crcDst"]
    BY <1>1, <1>2, <1>5 DEF Returned, Continue
  <2>2. pc'[t] = "free" /\ stage'[t] = "crcDst"
    BY <1>1, <2>1
  <2> QED
    BY <1>3, <1>5, <2>1, <2>2
<1>6. CASE stage[t] = "crcDst"
  BY <1>1, <1>2, <1>3, <1>6 DEF Returned, Return, SameCrc
<1>7. CASE stage[t] = "search"
  BY <1>1, <1>2, <1>3, <1>7 DEF Returned, Return
<1>8. CASE stage[t] = "copy" /\ ~(job[t] = "verify" /\ r = "ok")
  BY <1>1, <1>2, <1>3, <1>8 DEF Returned, Return
<1> QED
  BY <1>1, <1>4, <1>5, <1>6, <1>7, <1>8

-----------------------------------------------------------------------------
(* Lemmas: each step keeps the invariant.                                   *)

LEMMA CompleteKeeps ==
  ASSUME IInv, NEW c \in Channels, Complete(c)
  PROVE  IInv'
<1> USE BDMAAssumption DEF Channels, Busy, Queued, Asleep, Complete, Effect, callVars
<1>1. (TypeOK)'
  BY DEF IInv, TypeOK, TransferSet, CrcSet, Transfer, Crc, None, Seed, SrcCrc, Kinds
<1>2. (OneChannel)'
  BY DEF IInv, OneChannel, TypeOK, None, Transfer
<1>3. (Lone)'
  BY DEF IInv, Lone, BklFree, OneChannel, TypeOK
<1>4. (EngineTells)'
  BY DEF IInv, EngineTells, TypeOK, OneChannel, None, Transfer, Stopped, Cleared
<1>5. (\A u \in Threads : Stopped(u))'
  BY DEF IInv, Stopped, TypeOK, OneChannel, Lone, EngineTells, BklFree, None, Transfer
<1>6. (\A u \in Threads : Cleared(u))'
  BY DEF IInv, Cleared, Stopped, TypeOK, OneChannel, Lone, BklFree, EngineTells
<1>7. (\A u \in Threads : InProgress(u))'
  BY DEF IInv, InProgress, TypeOK, OneChannel
<1>8. (\A u \in Threads : Mine(u))'
  BY DEF IInv, Mine, TypeOK, OneChannel, Lone, Stopped, EngineTells, BklFree,
         Transfer, None, Kinds, TransferSet
<1>9. (\A u \in Threads : Checking(u))'
  BY DEF IInv, Checking, TypeOK, OneChannel, Lone, EngineTells, Stopped, Transfer,
         None, Seed, SrcCrc, Crc, Kinds, TransferSet
<1>10. (OkIsDone)'
  BY DEF IInv, Results, OkIsDone, OkIsQuiet, Mine, TypeOK, OneChannel, EngineTells,
         InProgress, Transfer, None, TransferSet
<1>11. (OkIsQuiet)'
  BY DEF IInv, Results, OkIsQuiet, OneChannel, TypeOK, EngineTells, InProgress,
         Checking, Transfer, None, TransferSet
<1>12. (VerifiedCopy)'
  BY DEF IInv, Results, VerifiedCopy, OkIsQuiet, Checking, TypeOK, OneChannel,
         InProgress, Transfer, None, TransferSet, SrcCrc, Crc, Fail
<1> QED
  BY <1>1, <1>2, <1>3, <1>4, <1>5, <1>6, <1>7, <1>8, <1>9, <1>10, <1>11, <1>12
  DEF IInv, Results

LEMMA StopEndsKeeps ==
  ASSUME IInv, NEW c \in Channels, StopEnds(c)
  PROVE  IInv'
<1> USE BDMAAssumption DEF Channels, Busy, Queued, Asleep, StopEnds, callVars
<1>1. (TypeOK)'
  BY DEF IInv, TypeOK, TransferSet, CrcSet, Transfer, Crc, None, Seed, SrcCrc, Kinds
<1>2. (OneChannel)'
  BY DEF IInv, OneChannel, TypeOK, None, Transfer
<1>3. (Lone)'
  BY DEF IInv, Lone, BklFree, OneChannel, TypeOK
<1>4. (EngineTells)'
  BY DEF IInv, EngineTells, TypeOK, OneChannel, None, Transfer, Stopped, Cleared
<1>5. (\A u \in Threads : Stopped(u))'
  BY DEF IInv, Stopped, TypeOK, OneChannel, Lone, EngineTells, BklFree, None, Transfer
<1>6. (\A u \in Threads : Cleared(u))'
  BY DEF IInv, Cleared, Stopped, TypeOK, OneChannel, Lone, BklFree, EngineTells
<1>7. (\A u \in Threads : InProgress(u))'
  BY DEF IInv, InProgress, TypeOK, OneChannel
<1>8. (\A u \in Threads : Mine(u))'
  BY DEF IInv, Mine, TypeOK, OneChannel, Lone, Stopped, EngineTells, BklFree,
         Transfer, None, Kinds, TransferSet
<1>9. (\A u \in Threads : Checking(u))'
  BY DEF IInv, Checking, TypeOK, OneChannel, Lone, EngineTells, Stopped, Transfer,
         None, Seed, SrcCrc, Crc, Kinds, TransferSet
<1>10. (OkIsDone)'
  BY DEF IInv, Results, OkIsDone, OkIsQuiet, Mine, TypeOK, OneChannel, EngineTells,
         InProgress, Transfer, None, TransferSet
<1>11. (OkIsQuiet)'
  BY DEF IInv, Results, OkIsQuiet, OneChannel, TypeOK, EngineTells, InProgress,
         Checking, Transfer, None, TransferSet
<1>12. (VerifiedCopy)'
  BY DEF IInv, Results, VerifiedCopy, OkIsQuiet, Checking, TypeOK, OneChannel,
         InProgress, Transfer, None, TransferSet, SrcCrc, Crc, Fail
<1> QED
  BY <1>1, <1>2, <1>3, <1>4, <1>5, <1>6, <1>7, <1>8, <1>9, <1>10, <1>11, <1>12
  DEF IInv, Results

LEMMA CallKeeps ==
  ASSUME IInv, NEW t \in Threads, Call(t)
  PROVE  IInv'
<1> USE BDMAAssumption DEF Channels, Busy, Queued, Asleep, Call, Step
<1>1. (TypeOK)'
  <2>1. run' \in [Channels -> TransferSet]
    <3> SUFFICES ASSUME NEW c \in Channels
                 PROVE  (IF run[c].by = t THEN [run[c] EXCEPT !.by = "stale"] ELSE run[c])
                          \in TransferSet
      OBVIOUS
    <3>1. run[c] \in TransferSet
      BY DEF IInv, TypeOK
    <3> QED
      BY <3>1 DEF TransferSet
  <2>2. /\ WaitTime \in 0 .. WaitTime /\ Fail \in CrcSet
        /\ {"crcSrc", "copy", "search"} \subseteq Kinds
    BY DEF CrcSet, Fail, Crc, Kinds
  <2> QED
    BY <2>1, <2>2 DEF IInv, TypeOK
<1>2. (OneChannel)'
  BY DEF IInv, OneChannel, TypeOK, None, Transfer
<1>3. (Lone)'
  BY DEF IInv, Lone, BklFree, OneChannel, TypeOK
<1>4. (EngineTells)'
  BY DEF IInv, EngineTells, TypeOK, OneChannel, None, Transfer, Stopped, Cleared
<1>5. (\A u \in Threads : Stopped(u))'
  BY DEF IInv, Stopped, TypeOK, OneChannel, Lone, EngineTells, BklFree, None, Transfer
<1>6. (\A u \in Threads : Cleared(u))'
  BY DEF IInv, Cleared, Stopped, TypeOK, OneChannel, Lone, BklFree, EngineTells
<1>7. (\A u \in Threads : InProgress(u))'
  BY DEF IInv, InProgress, TypeOK, OneChannel
<1>8. (\A u \in Threads : Mine(u))'
  BY DEF IInv, Mine, TypeOK, OneChannel, Lone, Stopped, EngineTells, BklFree,
         Transfer, None, Kinds, TransferSet
<1>9. (\A u \in Threads : Checking(u))'
  BY DEF IInv, Checking, TypeOK, OneChannel, Lone, EngineTells, Stopped, Transfer,
         None, Seed, SrcCrc, Crc, Kinds, TransferSet
<1>10. (OkIsDone)'
  BY DEF IInv, Results, OkIsDone, OkIsQuiet, Mine, TypeOK, OneChannel, EngineTells,
         InProgress, Transfer, None, TransferSet
<1>11. (OkIsQuiet)'
  BY DEF IInv, Results, OkIsQuiet, OneChannel, TypeOK, EngineTells, InProgress,
         Checking, Transfer, None, TransferSet
<1>12. (VerifiedCopy)'
  BY DEF IInv, Results, VerifiedCopy, OkIsQuiet, Checking, TypeOK, OneChannel,
         InProgress, Transfer, None, TransferSet, SrcCrc, Crc, Fail
<1> QED
  BY <1>1, <1>2, <1>3, <1>4, <1>5, <1>6, <1>7, <1>8, <1>9, <1>10, <1>11, <1>12
  DEF IInv, Results

LEMMA Get_FreeChKeeps ==
  ASSUME IInv, NEW t \in Threads, Get_FreeCh(t)
  PROVE  IInv'
<1> USE BDMAAssumption DEF Channels, Busy, Queued, Asleep, Get_FreeCh, Step, engVars
<1>1. (TypeOK)'
  BY DEF IInv, TypeOK, TransferSet, CrcSet, Transfer, Crc, None, Seed, SrcCrc, Kinds
<1>2. (OneChannel)'
  BY DEF IInv, OneChannel, TypeOK, None, Transfer
<1>3. (Lone)'
  BY DEF IInv, Lone, BklFree, OneChannel, TypeOK
<1>4. (EngineTells)'
  BY DEF IInv, EngineTells, TypeOK, OneChannel, None, Transfer, Stopped, Cleared
<1>5. (\A u \in Threads : Stopped(u))'
  BY DEF IInv, Stopped, TypeOK, OneChannel, Lone, EngineTells, BklFree, None, Transfer
<1>6. (\A u \in Threads : Cleared(u))'
  BY DEF IInv, Cleared, Stopped, TypeOK, OneChannel, Lone, BklFree, EngineTells
<1>7. (\A u \in Threads : InProgress(u))'
  BY DEF IInv, InProgress, TypeOK, OneChannel
<1>8. (\A u \in Threads : Mine(u))'
  BY DEF IInv, Mine, TypeOK, OneChannel, Lone, Stopped, EngineTells, BklFree,
         Transfer, None, Kinds, TransferSet
<1>9. (\A u \in Threads : Checking(u))'
  BY DEF IInv, Checking, TypeOK, OneChannel, Lone, EngineTells, Stopped, Transfer,
         None, Seed, SrcCrc, Crc, Kinds, TransferSet
<1>10. (OkIsDone)'
  BY DEF IInv, Results, OkIsDone, OkIsQuiet, Mine, TypeOK, OneChannel, EngineTells,
         InProgress, Transfer, None, TransferSet
<1>11. (OkIsQuiet)'
  BY DEF IInv, Results, OkIsQuiet, OneChannel, TypeOK, EngineTells, InProgress,
         Checking, Transfer, None, TransferSet
<1>12. (VerifiedCopy)'
  BY DEF IInv, Results, VerifiedCopy, OkIsQuiet, Checking, TypeOK, OneChannel,
         InProgress, Transfer, None, TransferSet, SrcCrc, Crc, Fail
<1> QED
  BY <1>1, <1>2, <1>3, <1>4, <1>5, <1>6, <1>7, <1>8, <1>9, <1>10, <1>11, <1>12
  DEF IInv, Results

LEMMA StopKeeps ==
  ASSUME IInv, NEW t \in Threads, Stop(t)
  PROVE  IInv'
<1> USE BDMAAssumption DEF Channels, Busy, Queued, Asleep, Stop, Step, callVars
<1>a. PICK slow \in BOOLEAN :
        /\ slow => Busy(0)
        /\ run' = IF slow THEN run ELSE [run EXCEPT ![0] = None]
        /\ stopping' = [stopping EXCEPT ![0] = slow]
  BY DEF IInv, OneChannel
<1>1. (TypeOK)'
  <2>1. None \in TransferSet
    BY DEF None, Transfer, TransferSet, Kinds
  <2>2. dst' \in [Threads -> {"old", "part", "new"}]
    BY DEF IInv, TypeOK
  <2>3. /\ run' \in [Channels -> TransferSet] /\ next' \in [Channels -> TransferSet]
        /\ stopping' \in [Channels -> BOOLEAN]
    BY <1>a, <2>1 DEF IInv, TypeOK
  <2>4. hit' \in [Threads -> BOOLEAN]
    BY DEF IInv, TypeOK
  <2> QED
    BY <2>2, <2>3, <2>4 DEF IInv, TypeOK
<1>2. (OneChannel)'
  BY DEF IInv, OneChannel, TypeOK, None, Transfer
<1>3. (Lone)'
  BY DEF IInv, Lone, BklFree, OneChannel, TypeOK
<1>4. (EngineTells)'
  BY <1>a DEF IInv, EngineTells, TypeOK, OneChannel, None, Transfer, Stopped, Cleared
<1>5. (\A u \in Threads : Stopped(u))'
  <2>1. chan[t] = 0 /\ \A u \in Threads : chan[u] = 0
    BY DEF IInv, OneChannel
  <2>2. \A u \in Threads : pc'[u] = "sleep" => hit'[u]
    BY <2>1 DEF IInv, TypeOK
  <2>3. Busy(0)' => stopping'[0]
    BY <1>a DEF IInv, TypeOK
  <2> QED
    BY <2>2, <2>3 DEF Stopped
<1>6. (\A u \in Threads : Cleared(u))'
  BY DEF IInv, Cleared, Stopped, TypeOK, OneChannel, Lone, BklFree, EngineTells
<1>7. (\A u \in Threads : InProgress(u))'
  BY DEF IInv, InProgress, TypeOK, OneChannel
<1>8. (\A u \in Threads : Mine(u))'
  <2> SUFFICES ASSUME NEW u \in Threads, pc'[u] \in {"look", "sleep"}, ~hit'[u]
               PROVE  FALSE
    BY DEF Mine
  <2>1. u # t /\ pc[u] \in {"look", "sleep"}
    BY DEF IInv, TypeOK
  <2>2. pc[u] = "sleep"
    BY <2>1 DEF IInv, Lone
  <2> QED
    BY <2>2 DEF IInv, TypeOK, OneChannel
<1>9. (\A u \in Threads : Checking(u))'
  BY DEF IInv, Checking, TypeOK, OneChannel, Lone, EngineTells, Stopped, Transfer,
         None, Seed, SrcCrc, Crc, Kinds, TransferSet
<1>10. (OkIsDone)'
  BY DEF IInv, Results, OkIsDone, OkIsQuiet, Mine, TypeOK, OneChannel, EngineTells,
         InProgress, Transfer, None, TransferSet
<1>11. (OkIsQuiet)'
  BY DEF IInv, Results, OkIsQuiet, OneChannel, TypeOK, EngineTells, InProgress,
         Checking, Transfer, None, TransferSet
<1>12. (VerifiedCopy)'
  BY DEF IInv, Results, VerifiedCopy, OkIsQuiet, Checking, TypeOK, OneChannel,
         InProgress, Transfer, None, TransferSet, SrcCrc, Crc, Fail
<1> QED
  BY <1>1, <1>2, <1>3, <1>4, <1>5, <1>6, <1>7, <1>8, <1>9, <1>10, <1>11, <1>12
  DEF IInv, Results

LEMMA Clear_StatusKeeps ==
  ASSUME IInv, NEW t \in Threads, Clear_Status(t)
  PROVE  IInv'
<1> USE BDMAAssumption DEF Channels, Busy, Queued, Asleep, Clear_Status, Step, callVars
<1>1. (TypeOK)'
  BY DEF IInv, TypeOK, TransferSet, CrcSet, Transfer, Crc, None, Seed, SrcCrc, Kinds
<1>2. (OneChannel)'
  BY DEF IInv, OneChannel, TypeOK, None, Transfer
<1>3. (Lone)'
  BY DEF IInv, Lone, BklFree, OneChannel, TypeOK
<1>4. (EngineTells)'
  BY DEF IInv, EngineTells, TypeOK, OneChannel, None, Transfer, Stopped, Cleared
<1>5. (\A u \in Threads : Stopped(u))'
  BY DEF IInv, Stopped, TypeOK, OneChannel, Lone, EngineTells, BklFree, None, Transfer
<1>6. (\A u \in Threads : Cleared(u))'
  BY DEF IInv, Cleared, Stopped, TypeOK, OneChannel, Lone, BklFree, EngineTells
<1>7. (\A u \in Threads : InProgress(u))'
  BY DEF IInv, InProgress, TypeOK, OneChannel
<1>8. (\A u \in Threads : Mine(u))'
  BY DEF IInv, Mine, TypeOK, OneChannel, Lone, Stopped, EngineTells, BklFree,
         Transfer, None, Kinds, TransferSet
<1>9. (\A u \in Threads : Checking(u))'
  BY DEF IInv, Checking, TypeOK, OneChannel, Lone, EngineTells, Stopped, Transfer,
         None, Seed, SrcCrc, Crc, Kinds, TransferSet
<1>10. (OkIsDone)'
  BY DEF IInv, Results, OkIsDone, OkIsQuiet, Mine, TypeOK, OneChannel, EngineTells,
         InProgress, Transfer, None, TransferSet
<1>11. (OkIsQuiet)'
  BY DEF IInv, Results, OkIsQuiet, OneChannel, TypeOK, EngineTells, InProgress,
         Checking, Transfer, None, TransferSet
<1>12. (VerifiedCopy)'
  BY DEF IInv, Results, VerifiedCopy, OkIsQuiet, Checking, TypeOK, OneChannel,
         InProgress, Transfer, None, TransferSet, SrcCrc, Crc, Fail
<1> QED
  BY <1>1, <1>2, <1>3, <1>4, <1>5, <1>6, <1>7, <1>8, <1>9, <1>10, <1>11, <1>12
  DEF IInv, Results

LEMMA TriggerKeeps ==
  ASSUME IInv, NEW t \in Threads, Start(t), MayStart(chan[t])
  PROVE  IInv'
<1> USE BDMAAssumption DEF Channels, Busy, Queued, Asleep, Start, MayStart, TrigOn,
                           callVars
<1>1. (TypeOK)'
  <2>1. /\ Transfer(t, stage[t]) \in TransferSet /\ Seed \in CrcSet
        /\ WaitTime \in 0 .. WaitTime
    BY DEF IInv, TypeOK, Transfer, TransferSet, Seed, Crc, CrcSet
  <2>2. /\ run' = [run EXCEPT ![chan[t]] = Transfer(t, stage[t])] /\ next' = next
        /\ chan[t] = 0
    BY DEF IInv, OneChannel
  <2>3. run' \in [Channels -> TransferSet] /\ next' \in [Channels -> TransferSet]
    BY <2>1, <2>2 DEF IInv, TypeOK
  <2>4. cmd1' \in [Channels -> CrcSet] /\ left' \in [Threads -> 0 .. WaitTime]
    BY <2>1 DEF IInv, TypeOK
  <2> QED
    BY <2>3, <2>4 DEF IInv, TypeOK
<1>2. (OneChannel)'
  BY DEF IInv, OneChannel, TypeOK, None, Transfer
<1>3. (Lone)'
  BY DEF IInv, Lone, BklFree, OneChannel, TypeOK
<1>4. (EngineTells)'
  BY DEF IInv, EngineTells, TypeOK, OneChannel, None, Transfer, Stopped, Cleared
<1>5. (\A u \in Threads : Stopped(u))'
  BY DEF IInv, Stopped, TypeOK, OneChannel, Lone, EngineTells, BklFree, None, Transfer
<1>6. (\A u \in Threads : Cleared(u))'
  BY DEF IInv, Cleared, Stopped, TypeOK, OneChannel, Lone, BklFree, EngineTells
<1>7. (\A u \in Threads : InProgress(u))'
  BY DEF IInv, InProgress, TypeOK, OneChannel
<1>8. (\A u \in Threads : Mine(u))'
  BY DEF IInv, Mine, TypeOK, OneChannel, Lone, Stopped, EngineTells, BklFree,
         Transfer, None, Kinds, TransferSet
<1>9. (\A u \in Threads : Checking(u))'
  BY DEF IInv, Checking, TypeOK, OneChannel, Lone, EngineTells, Stopped, Transfer,
         None, Seed, SrcCrc, Crc, Kinds, TransferSet
<1>10. (OkIsDone)'
  BY DEF IInv, Results, OkIsDone, OkIsQuiet, Mine, TypeOK, OneChannel, EngineTells,
         InProgress, Transfer, None, TransferSet
<1>11. (OkIsQuiet)'
  BY DEF IInv, Results, OkIsQuiet, OneChannel, TypeOK, EngineTells, InProgress,
         Checking, Transfer, None, TransferSet
<1>12. (VerifiedCopy)'
  BY DEF IInv, Results, VerifiedCopy, OkIsQuiet, Checking, TypeOK, OneChannel,
         InProgress, Transfer, None, TransferSet, SrcCrc, Crc, Fail
<1> QED
  BY <1>1, <1>2, <1>3, <1>4, <1>5, <1>6, <1>7, <1>8, <1>9, <1>10, <1>11, <1>12
  DEF IInv, Results

LEMMA NapKeeps ==
  ASSUME IInv, NEW t \in Threads, Look(t), ~Is_Done(t)
  PROVE  IInv'
<1> USE BDMAAssumption DEF Channels, Busy, Queued, Asleep, Look, engVars
<1>1. (TypeOK)'
  BY DEF IInv, TypeOK, TransferSet, CrcSet, Transfer, Crc, None, Seed, SrcCrc, Kinds
<1>2. (OneChannel)'
  BY DEF IInv, OneChannel, TypeOK, None, Transfer
<1>3. (Lone)'
  BY DEF IInv, Lone, BklFree, OneChannel, TypeOK
<1>4. (EngineTells)'
  BY DEF IInv, EngineTells, TypeOK, OneChannel, None, Transfer, Stopped, Cleared
<1>5. (\A u \in Threads : Stopped(u))'
  BY DEF IInv, Stopped, TypeOK, OneChannel, Lone, EngineTells, BklFree, None, Transfer
<1>6. (\A u \in Threads : Cleared(u))'
  BY DEF IInv, Cleared, Stopped, TypeOK, OneChannel, Lone, BklFree, EngineTells
<1>7. (\A u \in Threads : InProgress(u))'
  BY DEF IInv, InProgress, TypeOK, OneChannel
<1>8. (\A u \in Threads : Mine(u))'
  BY DEF IInv, Mine, TypeOK, OneChannel, Lone, Stopped, EngineTells, BklFree,
         Transfer, None, Kinds, TransferSet
<1>9. (\A u \in Threads : Checking(u))'
  BY DEF IInv, Checking, TypeOK, OneChannel, Lone, EngineTells, Stopped, Transfer,
         None, Seed, SrcCrc, Crc, Kinds, TransferSet
<1>10. (OkIsDone)'
  BY DEF IInv, Results, OkIsDone, OkIsQuiet, Mine, TypeOK, OneChannel, EngineTells,
         InProgress, Transfer, None, TransferSet
<1>11. (OkIsQuiet)'
  BY DEF IInv, Results, OkIsQuiet, OneChannel, TypeOK, EngineTells, InProgress,
         Checking, Transfer, None, TransferSet
<1>12. (VerifiedCopy)'
  BY DEF IInv, Results, VerifiedCopy, OkIsQuiet, Checking, TypeOK, OneChannel,
         InProgress, Transfer, None, TransferSet, SrcCrc, Crc, Fail
<1> QED
  BY <1>1, <1>2, <1>3, <1>4, <1>5, <1>6, <1>7, <1>8, <1>9, <1>10, <1>11, <1>12
  DEF IInv, Results

LEMMA LookAgainKeeps ==
  ASSUME IInv, NEW t \in Threads, Wake(t), ~GivesUp(t)
  PROVE  IInv'
<1> USE BDMAAssumption DEF Channels, Busy, Queued, Asleep, Wake, engVars, GivesUp,
                           CountDown
<1>1. (TypeOK)'
  <2>1. left[t] - 1 \in 0 .. WaitTime
    BY DEF IInv, TypeOK, InProgress
  <2>2. left' \in [Threads -> 0 .. WaitTime]
    BY <2>1 DEF IInv, TypeOK
  <2> QED
    BY <2>2 DEF IInv, TypeOK
<1>2. (OneChannel)'
  BY DEF IInv, OneChannel, TypeOK, None, Transfer
<1>3. (Lone)'
  BY DEF IInv, Lone, BklFree, OneChannel, TypeOK
<1>4. (EngineTells)'
  BY DEF IInv, EngineTells, TypeOK, OneChannel, None, Transfer, Stopped, Cleared
<1>5. (\A u \in Threads : Stopped(u))'
  BY DEF IInv, Stopped, TypeOK, OneChannel, Lone, EngineTells, BklFree, None, Transfer
<1>6. (\A u \in Threads : Cleared(u))'
  BY DEF IInv, Cleared, Stopped, TypeOK, OneChannel, Lone, BklFree, EngineTells
<1>7. (\A u \in Threads : InProgress(u))'
  BY DEF IInv, InProgress, TypeOK, OneChannel
<1>8. (\A u \in Threads : Mine(u))'
  BY DEF IInv, Mine, TypeOK, OneChannel, Lone, Stopped, EngineTells, BklFree,
         Transfer, None, Kinds, TransferSet
<1>9. (\A u \in Threads : Checking(u))'
  BY DEF IInv, Checking, TypeOK, OneChannel, Lone, EngineTells, Stopped, Transfer,
         None, Seed, SrcCrc, Crc, Kinds, TransferSet
<1>10. (OkIsDone)'
  BY DEF IInv, Results, OkIsDone, OkIsQuiet, Mine, TypeOK, OneChannel, EngineTells,
         InProgress, Transfer, None, TransferSet
<1>11. (OkIsQuiet)'
  BY DEF IInv, Results, OkIsQuiet, OneChannel, TypeOK, EngineTells, InProgress,
         Checking, Transfer, None, TransferSet
<1>12. (VerifiedCopy)'
  BY DEF IInv, Results, VerifiedCopy, OkIsQuiet, Checking, TypeOK, OneChannel,
         InProgress, Transfer, None, TransferSet, SrcCrc, Crc, Fail
<1> QED
  BY <1>1, <1>2, <1>3, <1>4, <1>5, <1>6, <1>7, <1>8, <1>9, <1>10, <1>11, <1>12
  DEF IInv, Results

LEMMA ReturnedKeeps ==
  ASSUME IInv, NEW t \in Threads, NEW r \in {"ok", "fail", "timeout"}, Returned(t, r),
         UNCHANGED <<run, next, stopping, done, found, dst, hit>>,
         cmd1' \in {cmd1, [cmd1 EXCEPT ![0] = Seed]},
         left' \in [Threads -> 0 .. WaitTime],
         \A u \in Threads : u # t => left'[u] = left[u],
         pc[t] # "user", BklFree \/ ~Asleep(t),
         r = "ok" => /\ ~Busy(0) /\ pc[t] = "look"
                     /\ ~hit[t] /\ stage[t] = "copy" => dst[t] = "new"
  PROVE  IInv'
<1> USE BDMAAssumption DEF Channels, Busy, Queued, Asleep
<1>a. /\ job' = job /\ chan' = chan
      /\ pc' \in {[pc EXCEPT ![t] = "user"], [pc EXCEPT ![t] = "free"]}
      /\ \E s \in Kinds : stage' = [stage EXCEPT ![t] = s]
      /\ \E v \in CrcSet : val' = [val EXCEPT ![t] = v]
      /\ \E o \in {"none", "ok", "match", "fail", "timeout"} : ret' = [ret EXCEPT ![t] = o]
  BY ReturnedShape
<1>b. /\ pc'[t] = "free" => ret' = ret
      /\ pc'[t] = "user" => val' = val /\ stage' = stage
      /\ job[t] = "copy" => stage'[t] = "copy"
      /\ stage'[t] = "crcDst" => stage[t] = "crcDst" \/ r = "ok"
  BY ReturnedShape
<1>c. ret'[t] = "ok" /\ pc'[t] = "user" =>
        \/ r = "ok" /\ stage[t] = "copy" /\ job[t] # "verify"
        \/ /\ stage[t] = "crcDst" /\ job[t] # "copy"
           /\ val[t] = IF r = "ok" THEN cmd1[0] ELSE Fail
  BY ReturnedShape
<1>1. (TypeOK)'
  BY <1>a, <1>b, <1>c DEF IInv, TypeOK, TransferSet, CrcSet, Transfer, Crc, None,
                          Seed, SrcCrc, Kinds
<1>2. (OneChannel)'
  BY <1>a, <1>b, <1>c DEF IInv, OneChannel, TypeOK, None, Transfer
<1>3. (Lone)'
  BY <1>a, <1>b, <1>c DEF IInv, Lone, BklFree, OneChannel, TypeOK
<1>4. (EngineTells)'
  BY <1>a, <1>b, <1>c DEF IInv, EngineTells, TypeOK, OneChannel, None, Transfer,
                          Stopped, Cleared
<1>5. (\A u \in Threads : Stopped(u))'
  BY <1>a, <1>b, <1>c DEF IInv, Stopped, TypeOK, OneChannel, Lone, EngineTells,
                          BklFree, None, Transfer
<1>6. (\A u \in Threads : Cleared(u))'
  BY <1>a, <1>b, <1>c DEF IInv, Cleared, Stopped, TypeOK, OneChannel, Lone, BklFree,
                          EngineTells
<1>7. (\A u \in Threads : InProgress(u))'
  BY <1>a, <1>b, <1>c DEF IInv, InProgress, TypeOK, OneChannel
<1>8. (\A u \in Threads : Mine(u))'
  BY <1>a, <1>b, <1>c DEF IInv, Mine, TypeOK, OneChannel, Lone, Stopped,
                          EngineTells, BklFree, Transfer, None, Kinds, TransferSet
<1>9. (\A u \in Threads : Checking(u))'
  BY <1>a, <1>b, <1>c DEF IInv, Checking, TypeOK, OneChannel, Lone, EngineTells,
                          Stopped, Transfer, None, Seed, SrcCrc, Crc, Kinds,
                          TransferSet
<1>10. (OkIsDone)'
  BY <1>a, <1>b, <1>c DEF IInv, Results, OkIsDone, OkIsQuiet, Mine, TypeOK,
                          OneChannel, EngineTells, InProgress, Transfer, None,
                          TransferSet
<1>11. (OkIsQuiet)'
  BY <1>a, <1>b, <1>c DEF IInv, Results, OkIsQuiet, OneChannel, TypeOK, EngineTells,
                          InProgress, Checking, Transfer, None, TransferSet
<1>12. (VerifiedCopy)'
  BY <1>a, <1>b, <1>c DEF IInv, Results, VerifiedCopy, OkIsQuiet, Checking, TypeOK,
                          OneChannel, InProgress, Transfer, None, TransferSet,
                          SrcCrc, Crc, Fail
<1> QED
  BY <1>1, <1>2, <1>3, <1>4, <1>5, <1>6, <1>7, <1>8, <1>9, <1>10, <1>11, <1>12
  DEF IInv, Results

LEMMA StartKeeps == ASSUME IInv, NEW t \in Threads, Start(t) PROVE IInv'
<1>1. CASE MayStart(chan[t])
  BY <1>1, TriggerKeeps
<1>2. CASE ~MayStart(chan[t])
  <2>1. /\ Returned(t, "fail") /\ pc[t] = "start" /\ chan[t] = 0
        /\ UNCHANGED <<run, next, stopping, done, found, dst, hit>>
        /\ cmd1' = [cmd1 EXCEPT ![chan[t]] = Seed]
        /\ left' = [left EXCEPT ![t] = WaitTime]
    BY <1>2 DEF Start, IInv, OneChannel
  <2>2. left' \in [Threads -> 0 .. WaitTime]
    BY <2>1, BDMAAssumption DEF IInv, TypeOK
  <2>3. \A u \in Threads : u # t => left'[u] = left[u]
    BY <2>1 DEF IInv, TypeOK
  <2> QED
    BY <2>1, <2>2, <2>3, ReturnedKeeps DEF Asleep
<1> QED
  BY <1>1, <1>2

LEMMA LookKeeps == ASSUME IInv, NEW t \in Threads, Look(t) PROVE IInv'
<1>1. CASE Is_Done(t)
  <2>1. /\ Returned(t, "ok") /\ pc[t] = "look" /\ chan[t] = 0
        /\ UNCHANGED <<run, next, stopping, done, found, cmd1, left, dst, hit>>
    BY <1>1 DEF Look, IInv, OneChannel, engVars
  <2>2. left \in [Threads -> 0 .. WaitTime]
    BY DEF IInv, TypeOK
  <2>3. ~Busy(0)
    BY <1>1, <2>1 DEF IInv, Is_Done, EngineTells
  <2>4. run[0] # Transfer(t, stage[t])
    BY <2>3, BDMAAssumption DEF Busy, None, Transfer
  <2>5. ~hit[t] /\ stage[t] = "copy" => dst[t] = "new"
    BY <2>1, <2>4 DEF IInv, Mine
  <2> QED
    BY <2>1, <2>2, <2>3, <2>5, ReturnedKeeps DEF Asleep
<1>2. CASE ~Is_Done(t)
  BY <1>2, NapKeeps
<1> QED
  BY <1>1, <1>2

LEMMA WakeKeeps == ASSUME IInv, NEW t \in Threads, Wake(t) PROVE IInv'
<1>1. CASE GivesUp(t)
  <2>1. /\ Returned(t, "timeout") /\ pc[t] = "sleep" /\ BklFree
        /\ UNCHANGED <<run, next, stopping, done, found, cmd1, dst, hit>>
        /\ left' = [left EXCEPT ![t] = @ - 1] /\ left[t] = 1
    BY <1>1 DEF Wake, engVars, Timeout, CountDown, GivesUp
  <2>2. /\ left' \in [Threads -> 0 .. WaitTime]
        /\ \A u \in Threads : u # t => left'[u] = left[u]
    BY <2>1, BDMAAssumption DEF IInv, TypeOK
  <2> QED
    BY <2>1, <2>2, ReturnedKeeps
<1>2. CASE ~GivesUp(t)
  BY <1>2, LookAgainKeeps
<1> QED
  BY <1>1, <1>2

LEMMA NextIInv == ASSUME IInv, [Next]_vars PROVE IInv'
<1>1. CASE Engine
  BY <1>1, CompleteKeeps, StopEndsKeeps DEF Engine
<1>2. ASSUME NEW t \in Threads, Call(t) \/ InCall(t) \/ Wake(t) PROVE IInv'
  BY <1>2, CallKeeps, Get_FreeChKeeps, StopKeeps, Clear_StatusKeeps, StartKeeps,
     LookKeeps, WakeKeeps DEF InCall
<1>3. CASE UNCHANGED vars
  BY <1>3
  DEF vars, engVars, callVars, IInv, TypeOK, OneChannel, Lone, EngineTells, Stopped,
      Cleared, InProgress, Mine, Checking, Results, OkIsDone, OkIsQuiet, VerifiedCopy,
      Asleep, Busy, Queued
<1> QED
  BY <1>1, <1>2, <1>3 DEF Next

-----------------------------------------------------------------------------
(* Theorems.                                                                *)

\* The inductive invariant holds in every behaviour of the driver.
THEOREM Inductive == Spec => []IInv
<1>1. Init => IInv
  BY InitIInv
<1>2. IInv /\ [Next]_vars => IInv'
  BY NextIInv
<1> QED
  BY <1>1, <1>2, PTL DEF Spec

\* Every variable keeps its type; no count of naps goes below 0.
THEOREM TypeCorrect == Spec => []TypeOK
<1>1. IInv => TypeOK
  BY DEF IInv
<1> QED
  BY <1>1, Inductive, PTL

\* Whatever the callers do, the second channel is never used and nothing is queued.
THEOREM SecondChannelIdle == Spec => []OneChannel
<1>1. IInv => OneChannel
  BY DEF IInv
<1> QED
  BY <1>1, Inductive, PTL

\* E_BDMA_OK of a copy that no other caller hit in its sleep is true.
THEOREM OkTrue == Spec => []OkIsDone
<1>1. IInv => OkIsDone
  BY DEF IInv, Results
<1> QED
  BY <1>1, Inductive, PTL

\* After E_BDMA_OK the engine no longer writes to the caller's buffer.
THEOREM OkQuiet == Spec => []OkIsQuiet
<1>1. IInv => OkIsQuiet
  BY DEF IInv, Results
<1> QED
  BY <1>1, Inductive, PTL

\* A copy whose first CRC is its source's is checked, whoever disturbs it.
THEOREM Verified == Spec => []VerifiedCopy
<1>1. IInv => VerifiedCopy
  BY DEF IInv, Results
<1> QED
  BY <1>1, Inductive, PTL

-----------------------------------------------------------------------------
(* The refinement of CopyService, which needs to know of each destination   *)
(* whether it has been written.                                             *)

\* The transfer that writes a destination is the one of the call's copy.
Writing(t) ==
  run[0] = Transfer(t, "copy") =>
    /\ stage[t] = "copy" /\ pc[t] \in {"look", "sleep", "user"}
    /\ dst[t] = IF stopping[0] THEN "part" ELSE "old"

\* Before its copy is started a call has the old data in its destination, and no
\* CRC before the one of its source has come.
Unwritten(t) ==
  /\ stage[t] = "crcSrc" => val[t] = Fail
  /\ stage[t] = "crcSrc" \/ (stage[t] = "copy" /\ pc[t] \in {"free", "stop", "clear", "start"})
       => dst[t] = "old"

\* The CRC of the destination is taken after a copy.
CopiedFirst(t) == stage[t] = "crcDst" => dst[t] = "new" \/ hit[t]

Steady == \A t \in Threads : Writing(t) /\ Unwritten(t) /\ CopiedFirst(t)

serviceVars == <<ret, Calling, dst, hit, Certain>>

LEMMA InitServes == ASSUME Init PROVE Steady /\ CS!ServiceInit
<1>1. ASSUME NEW t \in Threads PROVE Writing(t) /\ Unwritten(t) /\ CopiedFirst(t)
  <2>1. run[0] # Transfer(t, "copy")
    BY BDMAAssumption DEF Init, Channels, Transfer, None
  <2>2. dst[t] = "old" /\ stage[t] = "copy"
    BY DEF Init
  <2> QED
    BY <2>1, <2>2 DEF Writing, Unwritten, CopiedFirst
<1>2. CS!ServiceInit
  BY DEF Init, CS!ServiceInit, Calling, Certain
<1> QED
  BY <1>1, <1>2 DEF Steady

\* A caller that is only certain of more, or nothing that callers see.
LEMMA Stutters ==
  ASSUME UNCHANGED <<ret, dst, hit, job, val>>,
         \A u \in Threads : pc'[u] # "user" <=> pc[u] # "user"
  PROVE  UNCHANGED serviceVars
  BY DEF serviceVars, Calling, Certain

LEMMA CompleteServes ==
  ASSUME IInv, Steady, NEW c \in Channels, Complete(c)
  PROVE  Steady' /\ [CS!ServiceNext]_serviceVars
<1> USE DEF Channels, callVars
<1>1. /\ c = 0 /\ Busy(0) /\ ~stopping[0] /\ next[0] = None
      /\ run' = [run EXCEPT ![0] = None]
      /\ UNCHANGED <<stopping, pc, job, stage, chan, left, val, ret, hit>>
  BY DEF Complete, IInv, OneChannel, Busy, Queued
<1>2. run'[0] = None /\ \A t \in Threads : run'[0] # Transfer(t, "copy")
  BY <1>1, BDMAAssumption DEF IInv, TypeOK, None, Transfer
<1>3. CASE run[0].kind = "copy" /\ run[0].by \in Threads
  <2>1. PICK t \in Threads : t = run[0].by
    BY <1>3
  <2>2. run[0] = Transfer(t, "copy")
    BY <1>3, <2>1 DEF IInv, TypeOK, TransferSet, Transfer
  <2>3. dst[t] = "old" /\ ret[t] # "ok"
    BY <1>1, <2>2 DEF Steady, Writing, IInv, Results, OkIsQuiet
  <2>4. dst' = [dst EXCEPT ![t] = "new"]
    BY <1>1, <1>3, <2>1 DEF Complete, Effect
  <2>5. stage[t] = "copy" /\ pc[t] \in {"look", "sleep", "user"}
    BY <2>2 DEF Steady, Writing
  <2>6. Steady'
    BY <1>1, <1>2, <2>4, <2>5 DEF Steady, Writing, Unwritten, CopiedFirst, IInv, TypeOK
  <2>7. CS!Copied(t)
    BY <1>1, <2>3, <2>4 DEF CS!Copied, CS!Write, Calling, Certain
  <2> QED
    BY <2>6, <2>7 DEF CS!ServiceNext
<1>4. CASE ~(run[0].kind = "copy" /\ run[0].by \in Threads)
  <2>1. dst' = dst
    BY <1>1, <1>4 DEF Complete, Effect
  <2>2. Steady'
    BY <1>1, <1>2, <2>1 DEF Steady, Writing, Unwritten, CopiedFirst
  <2> QED
    BY <1>1, <2>1, <2>2, Stutters
<1> QED
  BY <1>3, <1>4

LEMMA StopEndsServes ==
  ASSUME IInv, Steady, NEW c \in Channels, StopEnds(c)
  PROVE  Steady' /\ [CS!ServiceNext]_serviceVars
<1> USE DEF Channels, callVars
<1>1. /\ c = 0 /\ next[0] = None /\ run' = [run EXCEPT ![0] = None]
      /\ UNCHANGED <<pc, job, stage, chan, left, val, ret, dst, hit>>
  BY DEF StopEnds, IInv, OneChannel, Busy, Queued
<1>2. \A t \in Threads : run'[0] # Transfer(t, "copy")
  BY <1>1, BDMAAssumption DEF IInv, TypeOK, None, Transfer
<1>3. Steady'
  BY <1>1, <1>2 DEF Steady, Writing, Unwritten, CopiedFirst
<1> QED
  BY <1>1, <1>3, Stutters

LEMMA CallServes ==
  ASSUME IInv, Steady, NEW t \in Threads, Call(t)
  PROVE  Steady' /\ [CS!ServiceNext]_serviceVars
<1> USE DEF Channels, Step
<1>1. /\ pc[t] = "user" /\ pc' = [pc EXCEPT ![t] = "free"]
      /\ ret' = [ret EXCEPT ![t] = "none"] /\ dst' = [dst EXCEPT ![t] = "old"]
      /\ hit' = [hit EXCEPT ![t] = FALSE] /\ val' = [val EXCEPT ![t] = Fail]
      /\ stopping' = stopping
      /\ run'[0] = IF run[0].by = t THEN [run[0] EXCEPT !.by = "stale"] ELSE run[0]
  BY DEF Call
<1>2. PICK j \in {"copy", "verify", "search"} :
        /\ job' = [job EXCEPT ![t] = j]
        /\ stage' = [stage EXCEPT ![t] = IF j = "verify" THEN "crcSrc" ELSE j]
  BY DEF Call
<1>3. run'[0] # Transfer(t, "copy")
  <2>1. run[0] \in TransferSet /\ t # "stale"
    BY BDMAAssumption DEF IInv, TypeOK
  <2> QED
    BY <1>1, <2>1 DEF TransferSet, Transfer
<1>4. \A u \in Threads : u # t /\ run'[0] = Transfer(u, "copy") => run[0] = Transfer(u, "copy")
  <2>1. run[0] \in TransferSet /\ "stale" \notin Threads
    BY BDMAAssumption DEF IInv, TypeOK
  <2> QED
    BY <1>1, <2>1 DEF TransferSet, Transfer
<1>5. Steady'
  <2>1. \A u \in Threads : Writing(u)'
    BY <1>1, <1>2, <1>3, <1>4 DEF Steady, Writing, IInv, TypeOK
  <2>2. \A u \in Threads : Unwritten(u)'
    BY <1>1, <1>2 DEF Steady, Unwritten, IInv, TypeOK
  <2>3. \A u \in Threads : CopiedFirst(u)'
    BY <1>1, <1>2 DEF Steady, CopiedFirst, IInv, TypeOK
  <2> QED
    BY <2>1, <2>2, <2>3 DEF Steady
<1>6. CS!Begin(t)
  <2>1. Calling' = [Calling EXCEPT ![t] = TRUE] /\ ~Calling[t]
    BY <1>1 DEF Calling, IInv, TypeOK
  <2>2. Fail # SrcCrc(t)
    BY BDMAAssumption DEF Fail, SrcCrc, Crc
  <2>3. Certain' = [Certain EXCEPT ![t] = FALSE]
    BY <1>1, <1>2, <2>2 DEF Certain, IInv, TypeOK
  <2> QED
    BY <1>1, <2>1, <2>3 DEF CS!Begin
<1> QED
  BY <1>5, <1>6 DEF CS!ServiceNext

\* A step of a call that keeps its stage, and starts and ends no transfer.
LEMMA QuietServes ==
  ASSUME IInv, Steady, NEW t \in Threads,
         UNCHANGED <<run, stopping, job, stage, val, ret, dst, hit>>,
         NEW p, pc' = [pc EXCEPT ![t] = p],
         \/ pc[t] \in {"free", "stop", "clear"} /\ p \in {"nap", "stop", "clear", "start"}
         \/ pc[t] \in {"look", "sleep"} /\ p \in {"look", "sleep"}
  PROVE  Steady' /\ [CS!ServiceNext]_serviceVars
<1>1. pc'[t] = p /\ \A u \in Threads : u # t => pc'[u] = pc[u]
  BY DEF IInv, TypeOK
<1>2. UNCHANGED serviceVars
  BY <1>1, Stutters
<1>3. ASSUME NEW u \in Threads PROVE Writing(u)' /\ Unwritten(u)' /\ CopiedFirst(u)'
  BY <1>1 DEF Steady, Writing, Unwritten, CopiedFirst
<1> QED
  BY <1>2, <1>3 DEF Steady

LEMMA StopServes ==
  ASSUME IInv, Steady, NEW t \in Threads, Stop(t)
  PROVE  Steady' /\ [CS!ServiceNext]_serviceVars
<1> USE DEF Channels, Step, callVars
<1> DEFINE S == {u \in Threads : pc[u] = "sleep" /\ chan[u] = chan[t]}
<1>1. /\ chan[t] = 0 /\ pc[t] = "stop" /\ pc' = [pc EXCEPT ![t] = "clear"]
      /\ UNCHANGED <<job, stage, val, ret>>
      /\ run'[0] \in {run[0], None} /\ (run'[0] # None => stopping'[0])
      /\ hit' = [u \in Threads |-> hit[u] \/ u \in S]
  BY DEF Stop, IInv, OneChannel, TypeOK, Busy
<1>2. \A u \in Threads : run'[0] = Transfer(u, "copy") =>
        run[0] = Transfer(u, "copy") /\ stopping'[0]
  BY <1>1, BDMAAssumption DEF None, Transfer
<1>3. UNCHANGED Calling
  BY <1>1 DEF Calling, IInv, TypeOK
<1>4. CS!Interfere(S) /\ Steady'
  <2>1. CASE run[0].kind = "copy" /\ run[0].by \in Threads
    <3>1. PICK v \in Threads : v = run[0].by
      BY <2>1
    <3>2. run[0] = Transfer(v, "copy")
      BY <2>1, <3>1 DEF IInv, TypeOK, TransferSet, Transfer
    <3>3. dst' = [dst EXCEPT ![v] = "part"]
      BY <1>1, <2>1, <3>1 DEF Stop
    <3>4. /\ dst[v] = IF stopping[0] THEN "part" ELSE "old"
          /\ stage[v] = "copy" /\ pc[v] \in {"look", "sleep", "user"} /\ ret[v] # "ok"
      BY <3>2 DEF Steady, Writing, IInv, Results, OkIsQuiet, Channels
    <3>5. UNCHANGED dst \/ CS!Write(v, "part")
      BY <3>3, <3>4 DEF CS!Write, IInv, TypeOK
    <3>6. CS!Interfere(S)
      BY <1>1, <1>3, <3>5 DEF CS!Interfere, Calling, Certain
    <3>7. \A u \in Threads : run[0] = Transfer(u, "copy") => u = v
      BY <3>1 DEF Transfer
    <3>8. ASSUME NEW u \in Threads PROVE Writing(u)' /\ Unwritten(u)' /\ CopiedFirst(u)'
      <4>1. CASE u = v
        BY <1>1, <1>2, <3>3, <3>4, <4>1 DEF Writing, Unwritten, CopiedFirst, IInv, TypeOK
      <4>2. CASE u # v
        BY <1>1, <1>2, <3>3, <3>7, <4>2
        DEF Steady, Writing, Unwritten, CopiedFirst, IInv, TypeOK
      <4> QED
        BY <4>1, <4>2
    <3> QED
      BY <3>6, <3>8 DEF Steady
  <2>2. CASE ~(run[0].kind = "copy" /\ run[0].by \in Threads)
    <3>1. dst' = dst
      BY <1>1, <2>2 DEF Stop
    <3>2. \A u \in Threads : run[0] # Transfer(u, "copy")
      BY <2>2 DEF Transfer
    <3>3. CS!Interfere(S)
      BY <1>1, <1>3, <3>1 DEF CS!Interfere, Calling, Certain
    <3>4. ASSUME NEW u \in Threads PROVE Writing(u)' /\ Unwritten(u)' /\ CopiedFirst(u)'
      BY <1>1, <1>2, <3>1, <3>2
      DEF Steady, Writing, Unwritten, CopiedFirst, IInv, TypeOK
    <3> QED
      BY <3>3, <3>4 DEF Steady
  <2> QED
    BY <2>1, <2>2
<1>5. S \in SUBSET Threads
  OBVIOUS
<1> QED
  BY <1>4, <1>5 DEF CS!ServiceNext

\* The start of a transfer; the one of the copy finds the old data.
LEMMA TriggerServes ==
  ASSUME IInv, Steady, NEW t \in Threads, Start(t), MayStart(chan[t])
  PROVE  Steady' /\ [CS!ServiceNext]_serviceVars
<1> USE DEF Channels
<1>1. /\ chan[t] = 0 /\ pc[t] = "start" /\ ~Busy(0)
      /\ run' = [run EXCEPT ![0] = Transfer(t, stage[t])]
      /\ pc' = [pc EXCEPT ![t] = "look"]
      /\ UNCHANGED <<job, stage, val, ret, stopping, dst, hit>>
  BY DEF Start, MayStart, TrigOn, IInv, OneChannel
<1>2. ~stopping[0]
  BY <1>1 DEF IInv, EngineTells
<1>3. pc'[t] = "look" /\ \A u \in Threads : u # t => pc'[u] = pc[u]
  BY <1>1 DEF IInv, TypeOK
<1>4. \A u \in Threads : run'[0] = Transfer(u, "copy") => u = t /\ stage[t] = "copy"
  BY <1>1 DEF IInv, TypeOK, Transfer
<1>5. ASSUME NEW u \in Threads PROVE Writing(u)' /\ Unwritten(u)' /\ CopiedFirst(u)'
  <2>1. Writing(u)'
    BY <1>1, <1>2, <1>3, <1>4 DEF Steady, Writing, Unwritten
  <2>2. Unwritten(u)' /\ CopiedFirst(u)'
    BY <1>1, <1>3 DEF Steady, Unwritten, CopiedFirst
  <2> QED
    BY <2>1, <2>2
<1>6. UNCHANGED serviceVars
  BY <1>1, <1>3, Stutters
<1> QED
  BY <1>5, <1>6 DEF Steady

\* The end of a transfer as its thread sees it: the next one of the call, or a
\* result, which is "ok" only for a copy.
LEMMA ReturnedServes ==
  ASSUME IInv, Steady, NEW t \in Threads, NEW r \in {"ok", "fail", "timeout"},
         Returned(t, r), UNCHANGED <<run, stopping, dst, hit>>, pc[t] # "user",
         r = "ok" => /\ ~Busy(0) /\ pc[t] = "look"
                     /\ ~hit[t] /\ stage[t] = "copy" => dst[t] = "new"
  PROVE  Steady' /\ [CS!ServiceNext]_serviceVars
<1>1. /\ chan[t] = 0 /\ cmd1[0] \in CrcSet /\ stage[t] \in Kinds
      /\ job[t] = "copy" => stage[t] = "copy"
  BY DEF IInv, TypeOK, OneChannel, Channels, InProgress
<1>2. Fail # SrcCrc(t)
  BY BDMAAssumption DEF Fail, SrcCrc, Crc
<1>3. CASE stage[t] = "crcSrc"
  <2>1. /\ UNCHANGED <<job, ret>> /\ pc' = [pc EXCEPT ![t] = "free"]
        /\ stage' = [stage EXCEPT ![t] = "copy"]
        /\ \E v \in CrcSet : val' = [val EXCEPT ![t] = v]
    BY <1>1, <1>3 DEF Returned, Continue, CrcSet, Fail, Crc
  <2>2. run[0] # Transfer(t, "copy") /\ dst[t] = "old" /\ val[t] = Fail
    BY <1>3 DEF Steady, Writing, Unwritten
  <2>3. ASSUME NEW u \in Threads PROVE Writing(u)' /\ Unwritten(u)' /\ CopiedFirst(u)'
    BY <2>1, <2>2 DEF Steady, Writing, Unwritten, CopiedFirst, IInv, TypeOK
  <2>4. UNCHANGED Calling /\ Calling[t]
    BY <2>1 DEF Calling, IInv, TypeOK
  <2>5. /\ \A u \in Threads : u # t => job'[u] = job[u] /\ val'[u] = val[u]
        /\ val[t] # SrcCrc(t)
    BY <1>2, <2>1, <2>2 DEF IInv, TypeOK
  <2>6. Certain' = Certain \/ Certain' = [Certain EXCEPT ![t] = TRUE]
    <3>1. \A u \in Threads : u # t =>
            ((job'[u] = "verify" /\ val'[u] = SrcCrc(u))
              <=> (job[u] = "verify" /\ val[u] = SrcCrc(u)))
      BY <2>5
    <3>2. CASE job'[t] = "verify" /\ val'[t] = SrcCrc(t)
      BY <3>1, <3>2 DEF Certain
    <3>3. CASE ~(job'[t] = "verify" /\ val'[t] = SrcCrc(t))
      BY <2>5, <3>1, <3>3 DEF Certain
    <3> QED
      BY <3>2, <3>3
  <2>7. CASE Certain' = Certain
    BY <2>1, <2>3, <2>4, <2>7 DEF serviceVars, Steady
  <2>8. CASE Certain' = [Certain EXCEPT ![t] = TRUE]
    <3>1. CS!Ascertain(t)
      BY <2>1, <2>4, <2>8 DEF CS!Ascertain
    <3> QED
      BY <2>3, <3>1 DEF CS!ServiceNext, Steady
  <2> QED
    BY <2>6, <2>7, <2>8
<1>4. CASE stage[t] = "copy" /\ job[t] = "verify" /\ r = "ok"
  <2>1. /\ UNCHANGED <<job, ret, val>> /\ pc' = [pc EXCEPT ![t] = "free"]
        /\ stage' = [stage EXCEPT ![t] = "crcDst"]
    BY <1>4 DEF Returned, Continue
  <2>2. (dst[t] = "new" \/ hit[t]) /\ run[0] # Transfer(t, "copy")
    BY <1>4, BDMAAssumption DEF Busy, None, Transfer, IInv, TypeOK
  <2>3. ASSUME NEW u \in Threads PROVE Writing(u)' /\ Unwritten(u)' /\ CopiedFirst(u)'
    BY <2>1, <2>2 DEF Steady, Writing, Unwritten, CopiedFirst, IInv, TypeOK
  <2>4. \A u \in Threads : pc'[u] # "user" <=> pc[u] # "user"
    BY <2>1 DEF IInv, TypeOK
  <2> QED
    BY <2>1, <2>3, <2>4, Stutters DEF Steady
<1>5. CASE stage[t] # "crcSrc" /\ ~(stage[t] = "copy" /\ job[t] = "verify" /\ r = "ok")
  <2>1. PICK o \in {"ok", "match", "fail", "timeout"} :
          /\ Return(t, o)
          /\ o = "ok" => \/ r = "ok" /\ stage[t] = "copy" /\ job[t] # "verify"
                         \/ stage[t] = "crcDst" /\ val[t] = IF r = "ok" THEN cmd1[0] ELSE Fail
    BY <1>1, <1>5 DEF Returned, SameCrc, Kinds
  <2>2. /\ UNCHANGED <<job, stage, val>> /\ pc' = [pc EXCEPT ![t] = "user"]
        /\ ret' = [ret EXCEPT ![t] = o]
    BY <2>1 DEF Return
  <2>3. ASSUME NEW u \in Threads PROVE Writing(u)' /\ Unwritten(u)' /\ CopiedFirst(u)'
    BY <1>5, <2>2 DEF Steady, Writing, Unwritten, CopiedFirst, IInv, TypeOK
  <2>4. o = "ok" => dst[t] = "new" \/ (hit[t] /\ ~Certain[t])
    <3>1. CASE r = "ok" /\ stage[t] = "copy" /\ job[t] # "verify"
      BY <3>1 DEF Certain, IInv, TypeOK
    <3>2. CASE stage[t] = "crcDst" /\ r = "ok" /\ val[t] = cmd1[0]
      BY <3>2 DEF Steady, CopiedFirst, IInv, TypeOK, Checking, Certain
    <3>3. CASE stage[t] = "crcDst" /\ val[t] = Fail
      BY <1>2, <3>3 DEF Steady, CopiedFirst, Certain
    <3> QED
      BY <2>1, <3>1, <3>2, <3>3
  <2>5. Calling' = [Calling EXCEPT ![t] = FALSE] /\ Calling[t] /\ UNCHANGED Certain
    BY <2>2 DEF Calling, Certain, IInv, TypeOK
  <2>6. CS!Finish(t, o)
    BY <2>2, <2>4, <2>5 DEF CS!Finish
  <2> QED
    BY <2>3, <2>6 DEF CS!ServiceNext, Steady
<1> QED
  BY <1>3, <1>4, <1>5

LEMMA StartServes ==
  ASSUME IInv, Steady, NEW t \in Threads, Start(t)
  PROVE  Steady' /\ [CS!ServiceNext]_serviceVars
<1>1. CASE MayStart(chan[t])
  BY <1>1, TriggerServes
<1>2. CASE ~MayStart(chan[t])
  <2>1. /\ Returned(t, "fail") /\ pc[t] = "start"
        /\ UNCHANGED <<run, stopping, dst, hit>>
    BY <1>2 DEF Start
  <2> QED
    BY <2>1, ReturnedServes
<1> QED
  BY <1>1, <1>2

LEMMA LookServes ==
  ASSUME IInv, Steady, NEW t \in Threads, Look(t)
  PROVE  Steady' /\ [CS!ServiceNext]_serviceVars
<1>1. CASE Is_Done(t)
  <2>1. /\ Returned(t, "ok") /\ pc[t] = "look" /\ chan[t] = 0
        /\ UNCHANGED <<run, stopping, dst, hit>>
    BY <1>1 DEF Look, IInv, OneChannel, engVars
  <2>2. ~Busy(0)
    BY <1>1, <2>1 DEF IInv, Is_Done, EngineTells
  <2>3. run[0] # Transfer(t, stage[t])
    BY <2>2, BDMAAssumption DEF Busy, None, Transfer
  <2>4. ~hit[t] /\ stage[t] = "copy" => dst[t] = "new"
    BY <2>1, <2>3 DEF IInv, Mine
  <2> QED
    BY <2>1, <2>2, <2>4, ReturnedServes
<1>2. CASE ~Is_Done(t)
  BY <1>2, QuietServes DEF Look, engVars
<1> QED
  BY <1>1, <1>2

LEMMA WakeServes ==
  ASSUME IInv, Steady, NEW t \in Threads, Wake(t)
  PROVE  Steady' /\ [CS!ServiceNext]_serviceVars
<1>1. CASE GivesUp(t)
  <2>1. /\ Returned(t, "timeout") /\ pc[t] = "sleep"
        /\ UNCHANGED <<run, stopping, dst, hit>>
    BY <1>1 DEF Wake, engVars, Timeout
  <2> QED
    BY <2>1, ReturnedServes
<1>2. CASE ~GivesUp(t)
  BY <1>2, QuietServes DEF Wake, engVars
<1> QED
  BY <1>1, <1>2

LEMMA NextServes ==
  ASSUME IInv, Steady, [Next]_vars
  PROVE  Steady' /\ [CS!ServiceNext]_serviceVars
<1>1. CASE Engine
  BY <1>1, CompleteServes, StopEndsServes DEF Engine
<1>2. ASSUME NEW t \in Threads, Call(t) \/ InCall(t) \/ Wake(t)
      PROVE  Steady' /\ [CS!ServiceNext]_serviceVars
  <2>1. CASE Get_FreeCh(t)
    <3>1. /\ UNCHANGED <<run, stopping, job, stage, val, ret, dst, hit>>
          /\ \E p \in {"nap", "stop"} : pc' = [pc EXCEPT ![t] = p]
          /\ pc[t] = "free"
      BY <2>1 DEF Get_FreeCh, Step, engVars
    <3> QED
      BY <3>1, QuietServes
  <2>2. CASE Clear_Status(t)
    BY <2>2, QuietServes DEF Clear_Status, Step, callVars
  <2> QED
    BY <1>2, <2>1, <2>2, CallServes, StopServes, StartServes, LookServes, WakeServes
    DEF InCall
<1>3. CASE UNCHANGED vars
  <2>1. UNCHANGED <<run, stopping, pc, job, stage, val, ret, dst, hit>>
    BY <1>3 DEF vars, engVars, callVars
  <2> QED
    BY <2>1, Stutters DEF Steady, Writing, Unwritten, CopiedFirst
<1> QED
  BY <1>1, <1>2, <1>3 DEF Next

\* However the callers of MDrv_BDMA_CopyHnd and the search disturb each other, a
\* destination is written once, and E_BDMA_OK means that it has been.
THEOREM RefinesService == Spec => ServesCopies
<1>1. Init => Steady /\ CS!ServiceInit
  BY InitServes
<1>2. IInv /\ Steady /\ [Next]_vars => Steady' /\ [CS!ServiceNext]_serviceVars
  BY NextServes
<1>3. IInv /\ Steady /\ [Next]_vars =>
        Steady' /\ [CS!ServiceNext]_<<ret, Calling, dst, hit, Certain>>
  BY <1>2 DEF serviceVars
<1> QED
  BY <1>1, <1>3, Inductive, PTL DEF Spec, ServesCopies, CS!ServiceSpec

=============================================================================
