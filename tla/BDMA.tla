-------------------------------- MODULE BDMA --------------------------------
(***************************************************************************)
(* The BDMA driver.  A call takes a channel, stops what runs on it, clears *)
(* its status, programs and starts its own transfer and polls for DONE,    *)
(* asleep in msleep between two looks.  A copy with CRC check is three     *)
(* such transfers: CRC of the source, copy, CRC of the destination.        *)
(*                                                                         *)
(* ioctl handlers hold the big kernel lock except in msleep; the engine    *)
(* steps at any time, takes any time for a transfer, and may take time to  *)
(* stop one.  A stopped transfer does not raise DONE.  Callers copy        *)
(* different data, and a CRC tells different data apart.                   *)
(***************************************************************************)
EXTENDS Naturals

CONSTANTS
  Threads,    \* the callers
  WaitTime    \* BDMA_WAIT_TIME: naps of a loop before it gives up

ASSUME BDMAAssumption ==
  /\ WaitTime \in Nat \ {0}
  /\ {"nobody", "stale"} \cap Threads = {}

Channels == {0, 1}                                  \* E_BDMA_CH0, E_BDMA_CH1

VARIABLES
  \* one value per channel of the engine
  run, next,      \* the transfer that runs (BUSY) and the one behind it (QUEUED)
  stopping,       \* the one that runs has been told to stop
  done, found,    \* DONE and RESULT of the status register
  cmd1,           \* the command register that holds the result of a CRC
  \* one value per thread
  pc,
  job, stage,     \* what was called, and which of its transfers is on
  chan, left,     \* u8Ch and u32Delay
  val, ret,       \* u32CRCVal and the result of the last call
  dst,            \* history: the destination of the call: "old", "part" or "new"
  hit             \* history: another thread took the channel during the call

engVars  == <<run, next, stopping, done, found, cmd1>>
callVars == <<job, stage, chan, left, val, ret>>
vars == <<engVars, pc, callVars, dst, hit>>

Kinds == {"crcSrc", "copy", "crcDst", "search"}

\* A transfer and the thread it is for, "stale" once the call has ended.
Transfer(t, kind) == [by |-> t, kind |-> kind]
None == Transfer("nobody", "copy")

\* Values of a CRC: of which data, or 0xFFFFFFFF (Fail), or the seed.
Crc(t, data) == [of |-> t, data |-> data]
Fail == Crc("nobody", "fail")
Seed == Crc("nobody", "seed")
SrcCrc(t) == Crc(t, "new")

Init ==
  /\ run = [c \in Channels |-> None] /\ next = [c \in Channels |-> None]
  /\ stopping = [c \in Channels |-> FALSE]
  /\ done = [c \in Channels |-> FALSE] /\ found = [c \in Channels |-> FALSE]
  /\ cmd1 = [c \in Channels |-> Seed]
  /\ pc = [t \in Threads |-> "user"]
  /\ job = [t \in Threads |-> "copy"] /\ stage = [t \in Threads |-> "copy"]
  /\ chan = [t \in Threads |-> 0] /\ left = [t \in Threads |-> WaitTime]
  /\ val = [t \in Threads |-> Fail] /\ ret = [t \in Threads |-> "none"]
  /\ dst = [t \in Threads |-> "old"] /\ hit = [t \in Threads |-> FALSE]

-----------------------------------------------------------------------------
(* The engine.                                                              *)

Busy(c)   == run[c] # None
Queued(c) == next[c] # None

\* What a transfer to its end does to the CRC register and to the destination.
Effect(c) ==
  LET r == run[c] IN
  /\ cmd1' = CASE r.kind = "crcSrc" -> [cmd1 EXCEPT ![c] = SrcCrc(r.by)]
               [] r.kind = "crcDst" /\ r.by \in Threads ->
                    [cmd1 EXCEPT ![c] = Crc(r.by, dst[r.by])]
               [] OTHER -> cmd1
  /\ dst' = IF r.kind = "copy" /\ r.by \in Threads
              THEN [dst EXCEPT ![r.by] = "new"] ELSE dst

\* A transfer ends; a search raises RESULT at a match, with or without DONE.
Complete(c) ==
  /\ Busy(c) /\ ~stopping[c]
  /\ Effect(c)
  /\ \E match \in {FALSE, run[c].kind = "search"}, end \in BOOLEAN :
       /\ match \/ end
       /\ found' = [found EXCEPT ![c] = @ \/ match]
       /\ done' = [done EXCEPT ![c] = @ \/ end]
  /\ run' = [run EXCEPT ![c] = next[c]] /\ next' = [next EXCEPT ![c] = None]
  /\ UNCHANGED <<stopping, pc, callVars, hit>>

\* The transfer told to stop has stopped.
StopEnds(c) ==
  /\ Busy(c) /\ stopping[c]
  /\ run' = [run EXCEPT ![c] = next[c]] /\ next' = [next EXCEPT ![c] = None]
  /\ stopping' = [stopping EXCEPT ![c] = FALSE]
  /\ UNCHANGED <<done, found, cmd1, pc, callVars, dst, hit>>

-----------------------------------------------------------------------------
(* A call up to the start of its transfer: nobody else runs meanwhile.      *)

Asleep(t) == pc[t] \in {"user", "nap", "sleep"}
BklFree == \A t \in Threads : Asleep(t)

Step(t, from, to) ==
  /\ pc[t] = from
  /\ pc' = [pc EXCEPT ![t] = to]

\* The ioctls and their kernel entry points; a fill is a copy here.  What is
\* still running for the thread's last call is nobody's from now on.
Call(t) ==
  /\ BklFree
  /\ Step(t, "user", "free")
  /\ \E j \in {"copy", "verify", "search"} :
       /\ job' = [job EXCEPT ![t] = j]
       /\ stage' = [stage EXCEPT ![t] = IF j = "verify" THEN "crcSrc" ELSE j]
  /\ chan' = [chan EXCEPT ![t] = 0] /\ left' = [left EXCEPT ![t] = WaitTime]
  /\ val' = [val EXCEPT ![t] = Fail] /\ ret' = [ret EXCEPT ![t] = "none"]
  /\ dst' = [dst EXCEPT ![t] = "old"] /\ hit' = [hit EXCEPT ![t] = FALSE]
  /\ run' = [c \in Channels |->
               IF run[c].by = t THEN [run[c] EXCEPT !.by = "stale"] ELSE run[c]]
  /\ UNCHANGED <<next, stopping, done, found, cmd1>>

\* _MDrv_BDMA_Get_FreeCh takes a channel with nothing queued, and otherwise
\* naps and looks at the other one.  Its way out of the nap is left out: OneChannel
\* shows that no thread gets there.
Get_FreeCh(t) ==
  /\ Step(t, "free", IF Queued(chan[t]) THEN "nap" ELSE "stop")
  /\ chan' = IF Queued(chan[t]) THEN [chan EXCEPT ![t] = 1 - @] ELSE chan
  /\ UNCHANGED <<engVars, job, stage, left, val, ret, dst, hit>>

\* MDrv_BDMA_Stop, whoever the transfer belongs to.
Stop(t) ==
  LET c == chan[t] IN
  /\ Step(t, "stop", "clear")
  /\ next' = [next EXCEPT ![c] = None]
  /\ \E slow \in {FALSE, Busy(c)} :
       /\ run' = IF slow THEN run ELSE [run EXCEPT ![c] = None]
       /\ stopping' = [stopping EXCEPT ![c] = slow]
  /\ dst' = IF run[c].kind = "copy" /\ run[c].by \in Threads
              THEN [dst EXCEPT ![run[c].by] = "part"] ELSE dst
  /\ hit' = [u \in Threads |-> hit[u] \/ (pc[u] = "sleep" /\ chan[u] = c)]
  /\ UNCHANGED <<done, found, cmd1, callVars>>

\* (mutant) the status of the last transfer is not cleared.
ClearNothing(t) ==
  /\ Step(t, "clear", "start")
  /\ UNCHANGED <<engVars, callVars, dst, hit>>

Clear_Status(t) ==
  /\ Step(t, "clear", "start")
  /\ done' = [done EXCEPT ![chan[t]] = FALSE]
  /\ found' = [found EXCEPT ![chan[t]] = FALSE]
  /\ UNCHANGED <<run, next, stopping, cmd1, callVars, dst, hit>>

-----------------------------------------------------------------------------
(* The end of a transfer, and of a call, as its thread sees it.             *)

\* (mutant) the two CRCs are not compared.
SameCrcAlways(t, crc) == TRUE

\* The comparison of MDrv_BDMA_CopyHnd.
SameCrc(t, crc) == crc = val[t]

Return(t, r) ==
  /\ pc' = [pc EXCEPT ![t] = "user"]
  /\ ret' = [ret EXCEPT ![t] = r]
  /\ UNCHANGED <<job, stage, chan, val>>

Continue(t, s) ==
  /\ pc' = [pc EXCEPT ![t] = "free"]
  /\ stage' = [stage EXCEPT ![t] = s] /\ chan' = [chan EXCEPT ![t] = 0]
  /\ UNCHANGED <<job, ret>>

\* _MDrv_BDMA_CmnHnd has returned r.  A CRC that failed is 0xFFFFFFFF, and the
\* copy goes on.
Returned(t, r) ==
  LET crc == IF r = "ok" THEN cmd1[chan[t]] ELSE Fail IN
  CASE stage[t] = "crcSrc" ->
         /\ val' = [val EXCEPT ![t] = crc]
         /\ Continue(t, "copy")
    [] stage[t] = "copy" /\ job[t] = "verify" /\ r = "ok" ->
         /\ Continue(t, "crcDst")
         /\ UNCHANGED val
    [] stage[t] = "crcDst" ->
         Return(t, IF SameCrc(t, crc) THEN "ok" ELSE "fail")
    [] stage[t] = "search" ->
         Return(t, IF r = "ok" /\ found[chan[t]] THEN "match" ELSE "fail")
    [] OTHER -> Return(t, r)

\* (mutant) a channel is triggered whatever it does.
MayStartAlways(c) == TRUE

MayStart(c) == ~Queued(c) /\ ~Busy(c)

\* MHal_BDMA_TrigOn.
TrigOn(t) ==
  LET c == chan[t]
      new == Transfer(t, stage[t]) IN
  /\ run' = IF Busy(c) THEN run ELSE [run EXCEPT ![c] = new]
  /\ next' = IF Busy(c) THEN [next EXCEPT ![c] = new] ELSE next
  /\ pc' = [pc EXCEPT ![t] = "look"]

\* The registers, then _MDrv_BDMA_Start and the entry of _MDrv_BDMA_WaitDone.
Start(t) ==
  /\ pc[t] = "start"
  /\ cmd1' = [cmd1 EXCEPT ![chan[t]] = Seed]
  /\ left' = [left EXCEPT ![t] = WaitTime]
  /\ \/ /\ MayStart(chan[t])
        /\ TrigOn(t)
        /\ UNCHANGED <<job, stage, chan, val, ret>>
     \/ /\ ~MayStart(chan[t])
        /\ Returned(t, "fail")
        /\ UNCHANGED <<run, next>>
  /\ UNCHANGED <<stopping, done, found, dst, hit>>

Is_Done(t) == done[chan[t]] \/ (stage[t] = "search" /\ found[chan[t]])

\* _MDrv_BDMA_WaitDone: a look, then msleep, which drops the big kernel lock.
Look(t) ==
  /\ pc[t] = "look"
  /\ \/ /\ Is_Done(t)
        /\ Returned(t, "ok")
     \/ /\ ~Is_Done(t)
        /\ pc' = [pc EXCEPT ![t] = "sleep"]
        /\ UNCHANGED <<job, stage, chan, val, ret>>
  /\ UNCHANGED <<engVars, left, dst, hit>>

\* (mutant) the naps are not counted.
CountDownNever(t) == UNCHANGED left

CountDown(t) == left' = [left EXCEPT ![t] = @ - 1]

\* (mutant) a loop that gave up is taken for success.
TimeoutOk == "ok"

Timeout == "timeout"

GivesUp(t) == left[t] = 1

\* msleep is over; after the last nap there is no other look.
Wake(t) ==
  /\ pc[t] = "sleep" /\ BklFree
  /\ CountDown(t)
  /\ \/ /\ GivesUp(t)
        /\ Returned(t, Timeout)
     \/ /\ ~GivesUp(t)
        /\ pc' = [pc EXCEPT ![t] = "look"]
        /\ UNCHANGED <<job, stage, chan, val, ret>>
  /\ UNCHANGED <<engVars, dst, hit>>

-----------------------------------------------------------------------------
Engine == \E c \in Channels : Complete(c) \/ StopEnds(c)

InCall(t) ==
  Get_FreeCh(t) \/ Stop(t) \/ Clear_Status(t) \/ Start(t) \/ Look(t)

Next ==
  \/ Engine
  \/ \E t \in Threads : Call(t) \/ InCall(t) \/ Wake(t)

Spec == Init /\ [][Next]_vars

\* The scheduler runs a thread that has the big kernel lock, and gives the lock
\* sooner or later to one that waits for it after its nap.  The engine may hang.
FairSpec ==
  /\ Spec
  /\ \A t \in Threads : WF_vars(InCall(t)) /\ SF_vars(Wake(t))

-----------------------------------------------------------------------------
(* Properties.                                                              *)

TransferSet == [by : Threads \cup {"nobody", "stale"}, kind : Kinds]
CrcSet == [of : Threads \cup {"nobody", "stale"},
           data : {"old", "part", "new", "fail", "seed"}]

\* Every variable keeps its type; the count of naps does not wrap below 0.
TypeOK ==
  /\ run \in [Channels -> TransferSet] /\ next \in [Channels -> TransferSet]
  /\ stopping \in [Channels -> BOOLEAN]
  /\ done \in [Channels -> BOOLEAN] /\ found \in [Channels -> BOOLEAN]
  /\ cmd1 \in [Channels -> CrcSet]
  /\ pc \in [Threads -> {"user", "free", "nap", "stop", "clear", "start",
                         "look", "sleep"}]
  /\ job \in [Threads -> {"copy", "verify", "search"}]
  /\ stage \in [Threads -> Kinds]
  /\ chan \in [Threads -> Channels]
  /\ left \in [Threads -> 0 .. WaitTime]
  /\ val \in [Threads -> CrcSet]
  /\ ret \in [Threads -> {"none", "ok", "match", "fail", "timeout"}]
  /\ dst \in [Threads -> {"old", "part", "new"}]
  /\ hit \in [Threads -> BOOLEAN]

\* _MDrv_BDMA_Get_FreeCh looks for a channel with nothing queued, and
\* _MDrv_BDMA_Start queues nothing: every caller takes channel 0, channel 1 is
\* never used, and the loop of Get_FreeCh never goes round (mdrv_bdma.c:150).
OneChannel ==
  /\ \A c \in Channels : ~Queued(c)
  /\ ~Busy(1) /\ \A t \in Threads : chan[t] = 0 /\ pc[t] # "nap"

\* A copy that says E_BDMA_OK has copied, although an earlier transfer of the
\* channel, given up by its caller, may have ended at any moment; unless another
\* thread took the channel while this one slept (mdrv_bdma.c:255).  ServesCopies
\* says as much of the call's last step.
OkIsDone ==
  \A t \in Threads :
    ret[t] = "ok" /\ job[t] = "copy" /\ ~hit[t] => dst[t] = "new"

\* When a call has said E_BDMA_OK the engine writes no more to its destination,
\* even if the DONE that it saw was the one of another caller's transfer: the
\* caller may free the buffer (mdrv_bdma.c:230).
OkIsQuiet ==
  \A t \in Threads : ret[t] = "ok" =>
    \A c \in Channels : Transfer(t, "copy") \notin {run[c], next[c]}

\* A copy with CRC check whose first CRC was the one of its source says
\* E_BDMA_OK only if it has copied, however often other callers stopped its
\* transfers and left their results in the registers (mdrv_bdma.c:641).
VerifiedCopy ==
  \A t \in Threads :
    ret[t] = "ok" /\ job[t] = "verify" /\ val[t] = SrcCrc(t) => dst[t] = "new"

\* Whether a copy with CRC check has the CRC of its source, and who is in a call.
Certain == [t \in Threads |-> job[t] = "verify" /\ val[t] = SrcCrc(t)]
Calling == [t \in Threads |-> pc[t] # "user"]

CS == INSTANCE CopyService WITH
        Callers <- Threads, Results <- {"ok", "match", "fail", "timeout"},
        result <- ret, busy <- Calling, data <- dst, disturbed <- hit,
        certain <- Certain

\* The channel, the stops and the timeouts together implement CopyService: a
\* destination is written by one transfer of its call, or by what is left of it
\* after a failure, never after E_BDMA_OK, and nobody's stop or late end of a
\* transfer makes an old or half-written destination pass for a copy.
ServesCopies == CS!ServiceSpec

\* Every call returns, even if the engine hangs and other callers keep calling
\* (mdrv_bdma.c:236).
CallReturns == \A t \in Threads : pc[t] # "user" ~> pc[t] = "user"

=============================================================================
