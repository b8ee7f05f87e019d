------------------------------ MODULE TTX_proofs ------------------------------
(***************************************************************************)
(* Theorems about TTX, for every set of threads, size of the ring, split   *)
(* of the count, group of interrupts and bound on the mappings: no packet  *)
(* is lost without _u32Overflow but by a burst of more than MaxComing, one *)
(* thread at most waits, and the handler never uses a freed buffer.        *)
(***************************************************************************)
EXTENDS TTX, FiniteSetTheorems, TLAPS

-----------------------------------------------------------------------------
(* The inductive invariant.                                                 *)

\* The way from g to p around the ring.
Dist(p, g) == IF p >= g THEN p - g ELSE p - g + Unit

\* As long as the handler is installed the buffer is there.
HasBuffer ==
  /\ ready => params
  /\ HandlerHasBuffer

\* A thread on the wait queue has not got past schedule, and once it has set the
\* guard nobody else enters the queue.
Waits ==
  /\ \A t \in sleepers :
       pc[t] \in {"guard", "schedule", "asleep"} /\ (pc[t] # "guard" => guard = 1)
  /\ \A t, u \in sleepers : t = u

\* _u32PrevTTXPacketCount is a count, and while there is something to read
\* _u32PutAdr is the slot of that packet.
PrevTells ==
  ~odd /\ prev # Unset =>
    prev \in 1 .. Unit /\ (wq = "idle" /\ get # put => put = prev - 1)

\* What a work half done, or a thread in _MDrv_TTX_Reset, has cleared so far.
WorkTells ==
  ~odd =>
    /\ wq \in {"put", "ovf"} => due = Unset /\ get = 0
    /\ wq = "ovf" => put = 0

ResetTells == (\E t \in Threads : pc[t] = "reset") => due = Unset

\* The packets due are those in the ring and those that came since the tasklet
\* looked last; due stops counting above Unit.
Left == Dist(put, get) + 1 + Dist(count, prev)

DueTells ==
  ~odd /\ ~overflow /\ due >= 0 /\ wq = "idle" =>
    /\ prev \in 1 .. Unit /\ count \in 1 .. Unit /\ put = prev - 1
    /\ due = IF Left > Unit + 1 THEN Unit + 1 ELSE Left
    /\ bh # "idle" => at \in 1 .. Unit /\ Dist(at, prev) <= Dist(count, prev)

IInv ==
  /\ TypeOK
  /\ HasBuffer
  /\ Waits
  /\ IndexInRing
  /\ PrevTells
  /\ WorkTells
  /\ ResetTells
  /\ DueTells

-----------------------------------------------------------------------------
(* Arithmetic.                                                              *)

\* Modulo the ring, a difference of two slots or counts is the way around it.
LEMMA DistIsMod ==
  ASSUME NEW p \in Int, NEW g \in Int, p - g < Unit, g - p < Unit
  PROVE  (p - g) % Unit = Dist(p, g) /\ Dist(p, g) \in 0 .. Unit - 1
<1>1. CASE p >= g
  BY <1>1, TTXAssumption DEF Dist
<1>2. CASE p < g
  <2>1. p - g + Unit \in 0 .. Unit - 1
    BY <1>2, TTXAssumption
  <2>2. (p - g) % Unit = p - g + Unit
    BY <1>2, <2>1, TTXAssumption
  <2> QED
    BY <1>2, <2>1, <2>2, TTXAssumption DEF Dist
<1> QED
  BY <1>1, <1>2

\* The next slot, and the next count.
LEMMA NextSlot ==
  ASSUME NEW i \in 0 .. Unit - 1
  PROVE  (i + 1) % Unit = IF i = Unit - 1 THEN 0 ELSE i + 1
<1>1. CASE i = Unit - 1
  BY <1>1, TTXAssumption
<1>2. CASE i # Unit - 1
  BY <1>2, TTXAssumption
<1> QED
  BY <1>1, <1>2

LEMMA NextCount ==
  ASSUME NEW c \in 0 .. Unit
  PROVE  (c % Unit) + 1 = IF c = Unit THEN 1 ELSE c + 1
<1>1. CASE c = Unit
  BY <1>1, TTXAssumption
<1>2. CASE c # Unit
  BY <1>2, TTXAssumption
<1> QED
  BY <1>1, <1>2

\* A count put together from halves of two counts is one the two registers hold.
LEMMA HalvesType ==
  ASSUME NEW a \in 0 .. Unit, NEW b \in 0 .. Unit
  PROVE  (a % LowBase) + LowBase * (b \div LowBase) \in 0 .. MaxCount
<1> DEFINE q == b \div LowBase
           m == Unit \div LowBase
           r == a % LowBase
<1>1. r \in 0 .. LowBase - 1
  BY TTXAssumption
<1>2. q \in Nat /\ m \in Nat
  BY TTXAssumption
<1>3. LowBase * q <= b /\ Unit < LowBase * m + LowBase
  BY TTXAssumption
<1>4. q <= m
  <2> HIDE DEF q, m
  <2>1. SUFFICES ASSUME q >= m + 1 PROVE FALSE
    BY <1>2
  <2>2. LowBase * q >= LowBase * (m + 1)
    BY <1>2, <2>1, TTXAssumption
  <2>3. LowBase * (m + 1) = LowBase * m + LowBase
    BY <1>2, TTXAssumption
  <2>4. LowBase * q \in Nat /\ LowBase * m \in Nat
    BY <1>2, TTXAssumption
  <2> QED
    BY <1>3, <2>2, <2>3, <2>4, TTXAssumption
<1>5. LowBase * q <= LowBase * m
  <2> HIDE DEF q, m
  <2> QED
    BY <1>2, <1>4, TTXAssumption
<1>6. LowBase * q \in Nat /\ LowBase * m \in Nat
  <2> HIDE DEF q, m
  <2> QED
    BY <1>2, TTXAssumption
<1>7. MaxCount = LowBase * m + LowBase - 1
  BY DEF MaxCount
<1>8. r + LowBase * q \in 0 .. MaxCount
  <2> HIDE DEF q, m, r
  <2> QED
    BY <1>1, <1>5, <1>6, <1>7, TTXAssumption
<1> QED
  BY <1>8

-----------------------------------------------------------------------------
(* Lemmas: the initial states.                                              *)

LEMMA MaxCountType == MaxCount \in Nat /\ MaxCount >= Unit
<1> DEFINE m == Unit \div LowBase
<1>1. m \in Nat /\ Unit < LowBase * m + LowBase
  BY TTXAssumption
<1>2. MaxCount = LowBase * m + LowBase - 1
  BY DEF MaxCount
<1>3. LowBase * m \in Nat
  <2> HIDE DEF m
  <2> QED
    BY <1>1, TTXAssumption
<1> QED
  <2> HIDE DEF m
  <2> QED
    BY <1>1, <1>2, <1>3, TTXAssumption

LEMMA InitIInv == ASSUME Init PROVE IInv
<1> USE TTXAssumption DEF Init, Unset, Burst
<1>1. TypeOK
  <2>1. {bOpen, params, ready, stop, overflow, ttx, sched, fresh, work, odd} \subseteq BOOLEAN
    BY Zenon
  <2>2. /\ count \in 0 .. Unit /\ last \in 0 .. Unit /\ at \in 0 .. Unit
        /\ get \in 0 .. Unit - 1 /\ vbi \in 0 .. Group - 1 /\ mapped \in 0 .. MaxMaps
        /\ guard \in 0 .. 1 /\ due \in -2 .. Unit + 1
    OBVIOUS
  <2>3. prev \in -1 .. MaxCount /\ put \in 0 .. MaxCount
    BY MaxCountType
  <2> QED
    BY <2>1, <2>2, <2>3 DEF TypeOK
<1>2. HasBuffer /\ Waits
  BY DEF HasBuffer, HandlerHasBuffer, Waits
<1>3. IndexInRing /\ PrevTells /\ WorkTells /\ ResetTells /\ DueTells
  BY DEF IndexInRing, PrevTells, WorkTells, ResetTells, DueTells
<1> QED
  BY <1>1, <1>2, <1>3 DEF IInv

-----------------------------------------------------------------------------
(* Lemmas: each step keeps the invariant.                                   *)

LEMMA PacketKeeps ==
  ASSUME IInv, Packet
  PROVE  IInv'
<1> USE TTXAssumption DEF Packet,
        devVars, ringVars, bhVars, workVars, waitVars, Unset, Burst
<1>1. TypeOK /\ HasBuffer /\ Waits /\ IndexInRing /\ PrevTells /\ WorkTells
      /\ ResetTells /\ DueTells
  BY DEF IInv
<1>2. TypeOK'
  <2>1. {bOpen', params', ready', stop', overflow', ttx', sched', fresh', work', odd'}
          \subseteq BOOLEAN
    BY <1>1 DEF TypeOK
  <2>2. /\ count' \in 0 .. Unit /\ last' \in 0 .. Unit /\ prev' \in -1 .. MaxCount
        /\ get' \in 0 .. Unit - 1 /\ put' \in 0 .. MaxCount /\ at' \in 0 .. Unit
    BY <1>1, MaxCountType, NextCount DEF TypeOK
  <2>3. /\ vbi' \in 0 .. Group - 1 /\ mapped' \in 0 .. MaxMaps /\ guard' \in 0 .. 1
        /\ due' \in -2 .. Unit + 1
    BY <1>1 DEF TypeOK
  <2>4. /\ bh' \in {"idle", "high", "low"} /\ wq' \in {"idle", "prev", "get", "put", "ovf"}
        /\ sleepers' \subseteq Threads
        /\ pc' \in [Threads -> {"user", "reset", "guard", "schedule", "asleep"}]
        /\ oops' \in {"none", "interrupt", "tasklet", "work", "ioctl"}
    BY <1>1 DEF TypeOK
  <2> QED
    BY <2>1, <2>2, <2>3, <2>4 DEF TypeOK
<1>3. HasBuffer'
  BY <1>1 DEF TypeOK, HasBuffer, HandlerHasBuffer, Lull, Quiet
<1>4. Waits'
  BY <1>1 DEF TypeOK, Waits, Lull
<1>5. IndexInRing' /\ PrevTells' /\ WorkTells' /\ ResetTells' /\ DueTells'
  <2>1. /\ count' = IF count = Unit THEN 1 ELSE count + 1
        /\ odd' = (odd \/ count' = prev)
    BY <1>1, NextCount DEF TypeOK
  <2>2. IndexInRing' /\ PrevTells' /\ WorkTells'
    BY <1>1, <2>1 DEF TypeOK, IndexInRing, PrevTells, WorkTells
  <2>3. ResetTells'
    BY <1>1 DEF TypeOK, ResetTells
  <2>4. DueTells'
    <3> SUFFICES ASSUME ~odd', ~overflow, due' >= 0, wq = "idle" PROVE DueTells'
      BY DEF DueTells
    <3>1. /\ ~odd /\ count' # prev /\ due >= 0
          /\ due' = IF due \in 0 .. Unit THEN due + 1 ELSE due
      <4>1. ~odd /\ count' # prev
        BY <2>1, Zenon
      <4>2. due' = IF due \in 0 .. Unit THEN due + 1 ELSE due
        OBVIOUS
      <4> QED
        BY <1>1, <4>1, <4>2 DEF TypeOK
    <3>2. /\ prev \in 1 .. Unit /\ count \in 1 .. Unit /\ put = prev - 1
          /\ due = IF Left > Unit + 1 THEN Unit + 1 ELSE Left
          /\ bh # "idle" => at \in 1 .. Unit /\ Dist(at, prev) <= Dist(count, prev)
      BY <1>1, <3>1 DEF DueTells
    <3>3. Dist(count', prev) = Dist(count, prev) + 1 /\ Dist(count, prev) \in Nat
      BY <2>1, <3>1, <3>2 DEF Dist
    <3>4. Dist(put, get) \in Nat
      BY <1>1, <3>2 DEF TypeOK, Dist
    <3>5. Left \in Nat /\ Left >= 1 /\ Left' = Left + 1
      BY <3>3, <3>4 DEF Left
    <3>6. due' = IF Left' > Unit + 1 THEN Unit + 1 ELSE Left'
      BY <3>1, <3>2, <3>5
    <3>7. bh # "idle" => Dist(at, prev) \in Int
      BY <3>2 DEF Dist
    <3>8. count' \in 1 .. Unit
      BY <2>1, <3>2
    <3> QED
      BY <3>2, <3>3, <3>6, <3>7, <3>8 DEF DueTells
  <2> QED
    BY <2>2, <2>3, <2>4
<1> QED
  BY <1>2, <1>3, <1>4, <1>5 DEF IInv

LEMMA GarbageKeeps ==
  ASSUME IInv, MDrv_TTX_Interrupt, InterruptGarbage
  PROVE  IInv'
<1> USE TTXAssumption DEF MDrv_TTX_Interrupt, InterruptGarbage,
        devVars, ringVars, bhVars, workVars, waitVars, Unset, Burst
<1>1. TypeOK /\ HasBuffer /\ Waits /\ IndexInRing /\ PrevTells /\ WorkTells
      /\ ResetTells /\ DueTells
  BY DEF IInv
<1>2. TypeOK'
  <2>1. {bOpen', params', ready', stop', overflow', ttx', sched', fresh', work', odd'}
          \subseteq BOOLEAN
    BY <1>1 DEF TypeOK
  <2>2. /\ count' \in 0 .. Unit /\ last' \in 0 .. Unit /\ prev' \in -1 .. MaxCount
        /\ get' \in 0 .. Unit - 1 /\ put' \in 0 .. MaxCount /\ at' \in 0 .. Unit
    BY <1>1, MaxCountType DEF TypeOK
  <2>3. /\ vbi' \in 0 .. Group - 1 /\ mapped' \in 0 .. MaxMaps /\ guard' \in 0 .. 1
        /\ due' \in -2 .. Unit + 1
    BY <1>1 DEF TypeOK
  <2>4. /\ bh' \in {"idle", "high", "low"} /\ wq' \in {"idle", "prev", "get", "put", "ovf"}
        /\ sleepers' \subseteq Threads
        /\ pc' \in [Threads -> {"user", "reset", "guard", "schedule", "asleep"}]
        /\ oops' \in {"none", "interrupt", "tasklet", "work", "ioctl"}
    BY <1>1 DEF TypeOK
  <2> QED
    BY <2>1, <2>2, <2>3, <2>4 DEF TypeOK
<1>3. HasBuffer'
  BY <1>1 DEF TypeOK, HasBuffer, HandlerHasBuffer, Lull, Quiet
<1>4. Waits'
  BY <1>1 DEF TypeOK, Waits, Lull
<1>5. IndexInRing' /\ PrevTells' /\ WorkTells' /\ ResetTells' /\ DueTells'
  BY <1>1
  DEF TypeOK, IndexInRing, PrevTells, WorkTells, ResetTells, DueTells, Left, Lull
<1> QED
  BY <1>2, <1>3, <1>4, <1>5 DEF IInv

LEMMA PacketsKeeps ==
  ASSUME IInv, MDrv_TTX_Interrupt, InterruptPackets
  PROVE  IInv'
<1> USE TTXAssumption DEF MDrv_TTX_Interrupt, InterruptPackets, MDrv_Wakeup,
        devVars, ringVars, bhVars, workVars, waitVars, Unset, Burst
<1>1. TypeOK /\ HasBuffer /\ Waits /\ IndexInRing /\ PrevTells /\ WorkTells
      /\ ResetTells /\ DueTells
  BY DEF IInv
<1>2. TypeOK'
  <2>1. {bOpen', params', ready', stop', overflow', ttx', sched', fresh', work', odd'}
          \subseteq BOOLEAN
    BY <1>1 DEF TypeOK
  <2>2. /\ count' \in 0 .. Unit /\ last' \in 0 .. Unit /\ prev' \in -1 .. MaxCount
        /\ get' \in 0 .. Unit - 1 /\ put' \in 0 .. MaxCount /\ at' \in 0 .. Unit
    BY <1>1, MaxCountType DEF TypeOK
  <2>3. /\ vbi' \in 0 .. Group - 1 /\ mapped' \in 0 .. MaxMaps /\ guard' \in 0 .. 1
        /\ due' \in -2 .. Unit + 1
    BY <1>1 DEF TypeOK
  <2>4. /\ bh' \in {"idle", "high", "low"} /\ wq' \in {"idle", "prev", "get", "put", "ovf"}
        /\ sleepers' \subseteq Threads
        /\ pc' \in [Threads -> {"user", "reset", "guard", "schedule", "asleep"}]
        /\ oops' \in {"none", "interrupt", "tasklet", "work", "ioctl"}
    BY <1>1 DEF TypeOK
  <2> QED
    BY <2>1, <2>2, <2>3, <2>4 DEF TypeOK
<1>3. HasBuffer'
  BY <1>1 DEF TypeOK, HasBuffer, HandlerHasBuffer, Lull, Quiet
<1>4. Waits'
  BY <1>1 DEF TypeOK, Waits, Lull
<1>5. IndexInRing' /\ PrevTells' /\ WorkTells' /\ ResetTells' /\ DueTells'
  BY <1>1
  DEF TypeOK, IndexInRing, PrevTells, WorkTells, ResetTells, DueTells, Left, Lull
<1> QED
  BY <1>2, <1>3, <1>4, <1>5 DEF IInv

LEMMA NoneKeeps ==
  ASSUME IInv, MDrv_TTX_Interrupt, InterruptNone
  PROVE  IInv'
<1> USE TTXAssumption DEF MDrv_TTX_Interrupt, InterruptNone,
        devVars, ringVars, bhVars, workVars, waitVars, Unset, Burst
<1>1. TypeOK /\ HasBuffer /\ Waits /\ IndexInRing /\ PrevTells /\ WorkTells
      /\ ResetTells /\ DueTells
  BY DEF IInv
<1>2. TypeOK'
  <2>1. {bOpen', params', ready', stop', overflow', ttx', sched', fresh', work', odd'}
          \subseteq BOOLEAN
    BY <1>1 DEF TypeOK
  <2>2. /\ count' \in 0 .. Unit /\ last' \in 0 .. Unit /\ prev' \in -1 .. MaxCount
        /\ get' \in 0 .. Unit - 1 /\ put' \in 0 .. MaxCount /\ at' \in 0 .. Unit
    BY <1>1, MaxCountType DEF TypeOK
  <2>3. /\ vbi' \in 0 .. Group - 1 /\ mapped' \in 0 .. MaxMaps /\ guard' \in 0 .. 1
        /\ due' \in -2 .. Unit + 1
    BY <1>1 DEF TypeOK
  <2>4. /\ bh' \in {"idle", "high", "low"} /\ wq' \in {"idle", "prev", "get", "put", "ovf"}
        /\ sleepers' \subseteq Threads
        /\ pc' \in [Threads -> {"user", "reset", "guard", "schedule", "asleep"}]
        /\ oops' \in {"none", "interrupt", "tasklet", "work", "ioctl"}
    BY <1>1 DEF TypeOK
  <2> QED
    BY <2>1, <2>2, <2>3, <2>4 DEF TypeOK
<1>3. HasBuffer'
  BY <1>1 DEF TypeOK, HasBuffer, HandlerHasBuffer, Lull, Quiet
<1>4. Waits'
  BY <1>1 DEF TypeOK, Waits, Lull
<1>5. IndexInRing' /\ PrevTells' /\ WorkTells' /\ ResetTells' /\ DueTells'
  BY <1>1
  DEF TypeOK, IndexInRing, PrevTells, WorkTells, ResetTells, DueTells, Left, Lull
<1> QED
  BY <1>2, <1>3, <1>4, <1>5 DEF IInv

LEMMA ElapseKeeps ==
  ASSUME IInv, Elapse
  PROVE  IInv'
<1> USE TTXAssumption DEF Elapse,
        devVars, ringVars, bhVars, workVars, waitVars, Unset, Burst
<1>1. TypeOK /\ HasBuffer /\ Waits /\ IndexInRing /\ PrevTells /\ WorkTells
      /\ ResetTells /\ DueTells
  BY DEF IInv
<1>2. TypeOK'
  <2>1. {bOpen', params', ready', stop', overflow', ttx', sched', fresh', work', odd'}
          \subseteq BOOLEAN
    BY <1>1 DEF TypeOK
  <2>2. /\ count' \in 0 .. Unit /\ last' \in 0 .. Unit /\ prev' \in -1 .. MaxCount
        /\ get' \in 0 .. Unit - 1 /\ put' \in 0 .. MaxCount /\ at' \in 0 .. Unit
    BY <1>1, MaxCountType DEF TypeOK
  <2>3. /\ vbi' \in 0 .. Group - 1 /\ mapped' \in 0 .. MaxMaps /\ guard' \in 0 .. 1
        /\ due' \in -2 .. Unit + 1
    BY <1>1 DEF TypeOK
  <2>4. /\ bh' \in {"idle", "high", "low"} /\ wq' \in {"idle", "prev", "get", "put", "ovf"}
        /\ sleepers' \subseteq Threads
        /\ pc' \in [Threads -> {"user", "reset", "guard", "schedule", "asleep"}]
        /\ oops' \in {"none", "interrupt", "tasklet", "work", "ioctl"}
    BY <1>1 DEF TypeOK
  <2> QED
    BY <2>1, <2>2, <2>3, <2>4 DEF TypeOK
<1>3. HasBuffer'
  BY <1>1 DEF TypeOK, HasBuffer, HandlerHasBuffer, Lull, Quiet
<1>4. Waits'
  BY <1>1 DEF TypeOK, Waits, Lull
<1>5. IndexInRing' /\ PrevTells' /\ WorkTells' /\ ResetTells' /\ DueTells'
  BY <1>1
  DEF TypeOK, IndexInRing, PrevTells, WorkTells, ResetTells, DueTells, Left, Lull
<1> QED
  BY <1>2, <1>3, <1>4, <1>5 DEF IInv

LEMMA BhFirstKeeps ==
  ASSUME IInv, BhFirst
  PROVE  IInv'
<1> USE TTXAssumption DEF BhFirst,
        devVars, ringVars, bhVars, workVars, waitVars, Unset, Burst
<1>1. TypeOK /\ HasBuffer /\ Waits /\ IndexInRing /\ PrevTells /\ WorkTells
      /\ ResetTells /\ DueTells
  BY DEF IInv
<1>2. TypeOK'
  <2>1. {bOpen', params', ready', stop', overflow', ttx', sched', fresh', work', odd'}
          \subseteq BOOLEAN
    BY <1>1 DEF TypeOK
  <2>2. /\ count' \in 0 .. Unit /\ last' \in 0 .. Unit /\ prev' \in -1 .. MaxCount
        /\ get' \in 0 .. Unit - 1 /\ put' \in 0 .. MaxCount /\ at' \in 0 .. Unit
    BY <1>1, MaxCountType DEF TypeOK
  <2>3. /\ vbi' \in 0 .. Group - 1 /\ mapped' \in 0 .. MaxMaps /\ guard' \in 0 .. 1
        /\ due' \in -2 .. Unit + 1
    BY <1>1 DEF TypeOK
  <2>4. /\ bh' \in {"idle", "high", "low"} /\ wq' \in {"idle", "prev", "get", "put", "ovf"}
        /\ sleepers' \subseteq Threads
        /\ pc' \in [Threads -> {"user", "reset", "guard", "schedule", "asleep"}]
        /\ oops' \in {"none", "interrupt", "tasklet", "work", "ioctl"}
    BY <1>1 DEF TypeOK
  <2> QED
    BY <2>1, <2>2, <2>3, <2>4 DEF TypeOK
<1>3. HasBuffer'
  BY <1>1 DEF TypeOK, HasBuffer, HandlerHasBuffer, Lull, Quiet
<1>4. Waits'
  BY <1>1 DEF TypeOK, Waits, Lull
<1>5. IndexInRing' /\ PrevTells' /\ WorkTells' /\ ResetTells' /\ DueTells'
  BY <1>1
  DEF TypeOK, IndexInRing, PrevTells, WorkTells, ResetTells, DueTells, Left, Lull, Dist
<1> QED
  BY <1>2, <1>3, <1>4, <1>5 DEF IInv

LEMMA BhQuitKeeps ==
  ASSUME IInv, BhSecond, NEW cur \in 0 .. MaxCount,
         cur = IF bh = "high" THEN (at % LowBase) + LowBase * (count \div LowBase)
               ELSE (count % LowBase) + LowBase * (at \div LowBase),
         odd' = (odd \/ wq # "idle" \/ Torn(cur)), BhQuit(cur)
  PROVE  IInv'
<1> USE TTXAssumption DEF 
        devVars, ringVars, bhVars, workVars, waitVars, Unset, Burst
<1>0. /\ bh # "idle" /\ bh' = "idle" /\ at' = 0 /\ cur \in Int
      /\ odd' = (odd \/ wq # "idle" \/ Torn(cur))
      /\ UNCHANGED <<count, bOpen, params, ready, stop, mapped, last, vbi, sched, fresh,
                     work, wq, guard, sleepers, pc>>
      /\ cur = 0 \/ (Coming(cur) = 0 /\ prev' = cur)
      /\ cur = 0 => prev' = prev
      /\ due' = IF odd' THEN Unset ELSE due
      /\ UNCHANGED <<get, put, overflow, ttx, oops>>
  BY MaxCountType DEF BhSecond, BhQuit
<1>1. TypeOK /\ HasBuffer /\ Waits /\ IndexInRing /\ PrevTells /\ WorkTells
      /\ ResetTells /\ DueTells
  BY DEF IInv
<1>2. TypeOK'
  <2>1. {bOpen', params', ready', stop', overflow', ttx', sched', fresh', work', odd'}
          \subseteq BOOLEAN
    BY <1>1, <1>0 DEF TypeOK
  <2>2. /\ count' \in 0 .. Unit /\ last' \in 0 .. Unit /\ prev' \in -1 .. MaxCount
        /\ get' \in 0 .. Unit - 1 /\ put' \in 0 .. MaxCount /\ at' \in 0 .. Unit
    BY <1>1, <1>0, MaxCountType DEF TypeOK
  <2>3. /\ vbi' \in 0 .. Group - 1 /\ mapped' \in 0 .. MaxMaps /\ guard' \in 0 .. 1
        /\ due' \in -2 .. Unit + 1
    BY <1>1, <1>0 DEF TypeOK
  <2>4. /\ bh' \in {"idle", "high", "low"} /\ wq' \in {"idle", "prev", "get", "put", "ovf"}
        /\ sleepers' \subseteq Threads
        /\ pc' \in [Threads -> {"user", "reset", "guard", "schedule", "asleep"}]
        /\ oops' \in {"none", "interrupt", "tasklet", "work", "ioctl"}
    BY <1>1, <1>0 DEF TypeOK
  <2> QED
    BY <2>1, <2>2, <2>3, <2>4 DEF TypeOK
<1>3. HasBuffer'
  BY <1>1, <1>0 DEF TypeOK, HasBuffer, HandlerHasBuffer, Lull, Quiet
<1>4. Waits'
  BY <1>1, <1>0 DEF TypeOK, Waits, Lull
<1>5. IndexInRing' /\ PrevTells' /\ WorkTells' /\ ResetTells' /\ DueTells'
  <2>1. IndexInRing' /\ WorkTells'
    BY <1>1, <1>0 DEF TypeOK, IndexInRing, WorkTells
  <2>2. ResetTells'
    BY <1>1, <1>0 DEF ResetTells
  <2>3. ~odd' => prev' = prev \/ (prev = Unset /\ cur = 0)
    <3>1. ~odd' => ~odd /\ ~(cur > Unit)
      BY <1>0, Zenon DEF Torn
    <3> QED
      BY <1>1, <1>0, <3>1 DEF PrevTells, Coming, TypeOK
  <2>4. PrevTells'
    BY <1>1, <1>0, <2>3 DEF PrevTells, TypeOK
  <2>5. DueTells'
    BY <1>1, <1>0, <2>3 DEF DueTells, Left, TypeOK
  <2> QED
    BY <2>1, <2>2, <2>4, <2>5
<1> QED
  BY <1>2, <1>3, <1>4, <1>5 DEF IInv

LEMMA BhPutKeeps ==
  ASSUME IInv, BhSecond, NEW cur \in 0 .. MaxCount,
         cur = IF bh = "high" THEN (at % LowBase) + LowBase * (count \div LowBase)
               ELSE (count % LowBase) + LowBase * (at \div LowBase),
         odd' = (odd \/ wq # "idle" \/ Torn(cur)), BhPut(cur)
  PROVE  IInv'
<1> USE TTXAssumption DEF 
        devVars, ringVars, bhVars, workVars, waitVars, Unset, Burst
<1>0. /\ bh # "idle" /\ bh' = "idle" /\ at' = 0 /\ cur \in Int
      /\ odd' = (odd \/ wq # "idle" \/ Torn(cur))
      /\ UNCHANGED <<count, bOpen, params, ready, stop, mapped, last, vbi, sched, fresh,
                     work, wq, guard, sleepers, pc>>
      /\ cur # 0 /\ put' = cur - 1 /\ prev' = cur /\ ttx' = TRUE
      /\ oops' = IF params THEN oops ELSE "tasklet"
      /\ get' = IF Coming(cur) > MaxComing THEN 0 ELSE get
      /\ overflow' = (overflow \/ Overrun(get', IF Coming(cur) > MaxComing THEN 0 ELSE put,
                                          Coming(cur)))
      /\ due' = IF overflow' \/ odd' THEN Unset
                ELSE IF Coming(cur) > MaxComing /\ due # Unset THEN Burst ELSE due
  BY MaxCountType DEF BhSecond, BhPut, PutAdr
<1>1. TypeOK /\ HasBuffer /\ Waits /\ IndexInRing /\ PrevTells /\ WorkTells
      /\ ResetTells /\ DueTells
  BY DEF IInv
<1>2. TypeOK'
  <2>1. {bOpen', params', ready', stop', overflow', ttx', sched', fresh', work', odd'}
          \subseteq BOOLEAN
    BY <1>1, <1>0 DEF TypeOK
  <2>2. /\ count' \in 0 .. Unit /\ last' \in 0 .. Unit /\ prev' \in -1 .. MaxCount
        /\ get' \in 0 .. Unit - 1 /\ put' \in 0 .. MaxCount /\ at' \in 0 .. Unit
    BY <1>1, <1>0, MaxCountType DEF TypeOK
  <2>3. /\ vbi' \in 0 .. Group - 1 /\ mapped' \in 0 .. MaxMaps /\ guard' \in 0 .. 1
        /\ due' \in -2 .. Unit + 1
    BY <1>1, <1>0 DEF TypeOK
  <2>4. /\ bh' \in {"idle", "high", "low"} /\ wq' \in {"idle", "prev", "get", "put", "ovf"}
        /\ sleepers' \subseteq Threads
        /\ pc' \in [Threads -> {"user", "reset", "guard", "schedule", "asleep"}]
        /\ oops' \in {"none", "interrupt", "tasklet", "work", "ioctl"}
    BY <1>1, <1>0 DEF TypeOK
  <2> QED
    BY <2>1, <2>2, <2>3, <2>4 DEF TypeOK
<1>3. HasBuffer'
  BY <1>1, <1>0 DEF TypeOK, HasBuffer, HandlerHasBuffer, Lull, Quiet
<1>4. Waits'
  BY <1>1, <1>0 DEF TypeOK, Waits, Lull
<1>5. IndexInRing' /\ PrevTells' /\ WorkTells' /\ ResetTells' /\ DueTells'
  <2> DEFINE n == Coming(cur)
  <2>0. ~odd' => ~odd /\ wq = "idle" /\ ~(cur > Unit)
    BY <1>0, Zenon DEF Torn
  <2>1. /\ IndexInRing' /\ PrevTells' /\ WorkTells'
    BY <1>1, <1>0, <2>0 DEF TypeOK, IndexInRing, PrevTells, WorkTells
  <2>2. ResetTells'
    BY <1>1, <1>0 DEF ResetTells
  <2>3. DueTells'
    <3> SUFFICES ASSUME ~odd', ~overflow', due' >= 0, wq = "idle" PROVE DueTells'
      BY <1>0 DEF DueTells
    <3>1. /\ ~odd /\ ~overflow /\ due >= 0 /\ due' = due /\ get' = get
          /\ ~Torn(cur) /\ ~Overrun(get, put, n)
      <4>1. ~odd /\ ~Torn(cur) /\ ~overflow
        BY <1>0, Zenon
      <4>2. due' = IF n > MaxComing /\ due # Unset THEN Burst ELSE due
        BY <1>0, Zenon
      <4>3. ~(n > MaxComing) /\ due' = due
        BY <4>2
      <4>4. get' = get /\ ~Overrun(get, put, n)
        BY <1>0, <4>3, Zenon
      <4> QED
        BY <4>1, <4>3, <4>4
    <3>2. /\ prev \in 1 .. Unit /\ count \in 1 .. Unit /\ put = prev - 1
          /\ due = IF Left > Unit + 1 THEN Unit + 1 ELSE Left
          /\ at \in 1 .. Unit /\ Dist(at, prev) <= Dist(count, prev)
      BY <1>0, <1>1, <3>1 DEF DueTells
    <3>3. cur \in 1 .. Unit /\ Dist(cur, at) <= Dist(count, at)
      <4>1. cur \in 1 .. Unit
        BY <1>0, <3>1 DEF Torn
      <4>2. (cur - at) % Unit = Dist(cur, at) /\ (count - at) % Unit = Dist(count, at)
        <5>1. /\ cur \in Int /\ at \in Int /\ count \in Int
              /\ cur - at < Unit /\ at - cur < Unit
              /\ count - at < Unit /\ at - count < Unit
          BY <3>2, <4>1
        <5> QED
          BY <5>1, DistIsMod
      <4>3. Dist(cur, at) \in Int /\ Dist(count, at) \in Int
        BY <3>2, <4>1 DEF Dist
      <4> QED
        BY <3>1, <4>1, <4>2, <4>3 DEF Torn
    <3>4. n = Dist(cur, prev) /\ n \in 0 .. Unit - 1
      BY <3>2, <3>3 DEF Coming, Dist, Unset
    <3>5. Dist(count, prev) = n + Dist(count, cur) /\ Dist(count, cur) \in Nat
      BY <3>2, <3>3, <3>4 DEF Dist
    <3>6. Dist(cur - 1, get) = Dist(put, get) + n /\ Dist(put, get) \in Nat
      <4>1. get \in 0 .. Unit - 1
        BY <1>1 DEF TypeOK
      <4>2. Dist(put, get) + n < Unit
        BY <3>1, <3>2, <3>4, <4>1 DEF Overrun, Dist
      <4> HIDE DEF n
      <4> QED
        BY <3>2, <3>3, <3>4, <4>1, <4>2 DEF Dist
    <3>7. Left' = Left
      <4> HIDE DEF n
      <4> QED
        BY <1>0, <3>1, <3>4, <3>5, <3>6 DEF Left
    <3> QED
      BY <1>0, <3>1, <3>2, <3>3, <3>7 DEF DueTells
  <2> QED
    BY <2>1, <2>2, <2>3
<1> QED
  BY <1>2, <1>3, <1>4, <1>5 DEF IInv

LEMMA WorkClearKeeps ==
  ASSUME IInv, WorkClear
  PROVE  IInv'
<1> USE TTXAssumption DEF WorkClear,
        devVars, ringVars, bhVars, workVars, waitVars, Unset, Burst
<1>1. TypeOK /\ HasBuffer /\ Waits /\ IndexInRing /\ PrevTells /\ WorkTells
      /\ ResetTells /\ DueTells
  BY DEF IInv
<1>2. TypeOK'
  <2>1. {bOpen', params', ready', stop', overflow', ttx', sched', fresh', work', odd'}
          \subseteq BOOLEAN
    BY <1>1 DEF TypeOK
  <2>2. /\ count' \in 0 .. Unit /\ last' \in 0 .. Unit /\ prev' \in -1 .. MaxCount
        /\ get' \in 0 .. Unit - 1 /\ put' \in 0 .. MaxCount /\ at' \in 0 .. Unit
    BY <1>1, MaxCountType DEF TypeOK
  <2>3. /\ vbi' \in 0 .. Group - 1 /\ mapped' \in 0 .. MaxMaps /\ guard' \in 0 .. 1
        /\ due' \in -2 .. Unit + 1
    BY <1>1 DEF TypeOK
  <2>4. /\ bh' \in {"idle", "high", "low"} /\ wq' \in {"idle", "prev", "get", "put", "ovf"}
        /\ sleepers' \subseteq Threads
        /\ pc' \in [Threads -> {"user", "reset", "guard", "schedule", "asleep"}]
        /\ oops' \in {"none", "interrupt", "tasklet", "work", "ioctl"}
    BY <1>1 DEF TypeOK
  <2> QED
    BY <2>1, <2>2, <2>3, <2>4 DEF TypeOK
<1>3. HasBuffer'
  BY <1>1 DEF TypeOK, HasBuffer, HandlerHasBuffer, Lull, Quiet
<1>4. Waits'
  BY <1>1 DEF TypeOK, Waits, Lull
<1>5. IndexInRing' /\ PrevTells' /\ WorkTells' /\ ResetTells' /\ DueTells'
  BY <1>1
  DEF TypeOK, IndexInRing, PrevTells, WorkTells, ResetTells, DueTells, Left, Lull
<1> QED
  BY <1>2, <1>3, <1>4, <1>5 DEF IInv

LEMMA WorkResetKeeps ==
  ASSUME IInv, WorkReset
  PROVE  IInv'
<1> USE TTXAssumption DEF WorkReset, WorkStep,
        devVars, ringVars, bhVars, workVars, waitVars, Unset, Burst
<1>1. TypeOK /\ HasBuffer /\ Waits /\ IndexInRing /\ PrevTells /\ WorkTells
      /\ ResetTells /\ DueTells
  BY DEF IInv
<1>2. TypeOK'
  <2>1. {bOpen', params', ready', stop', overflow', ttx', sched', fresh', work', odd'}
          \subseteq BOOLEAN
    BY <1>1 DEF TypeOK
  <2>2. /\ count' \in 0 .. Unit /\ last' \in 0 .. Unit /\ prev' \in -1 .. MaxCount
        /\ get' \in 0 .. Unit - 1 /\ put' \in 0 .. MaxCount /\ at' \in 0 .. Unit
    BY <1>1, MaxCountType DEF TypeOK
  <2>3. /\ vbi' \in 0 .. Group - 1 /\ mapped' \in 0 .. MaxMaps /\ guard' \in 0 .. 1
        /\ due' \in -2 .. Unit + 1
    BY <1>1 DEF TypeOK
  <2>4. /\ bh' \in {"idle", "high", "low"} /\ wq' \in {"idle", "prev", "get", "put", "ovf"}
        /\ sleepers' \subseteq Threads
        /\ pc' \in [Threads -> {"user", "reset", "guard", "schedule", "asleep"}]
        /\ oops' \in {"none", "interrupt", "tasklet", "work", "ioctl"}
    BY <1>1 DEF TypeOK
  <2> QED
    BY <2>1, <2>2, <2>3, <2>4 DEF TypeOK
<1>3. HasBuffer'
  BY <1>1 DEF TypeOK, HasBuffer, HandlerHasBuffer, Lull, Quiet
<1>4. Waits'
  BY <1>1 DEF TypeOK, Waits, Lull
<1>5. IndexInRing' /\ PrevTells' /\ WorkTells' /\ ResetTells' /\ DueTells'
  BY <1>1
  DEF TypeOK, IndexInRing, PrevTells, WorkTells, ResetTells, DueTells, Left, Lull
<1> QED
  BY <1>2, <1>3, <1>4, <1>5 DEF IInv

LEMMA OpenKeeps ==
  ASSUME IInv, Open
  PROVE  IInv'
<1> USE TTXAssumption DEF Open, UnchangedByIoctl,
        devVars, ringVars, bhVars, workVars, waitVars, Unset, Burst
<1>1. TypeOK /\ HasBuffer /\ Waits /\ IndexInRing /\ PrevTells /\ WorkTells
      /\ ResetTells /\ DueTells
  BY DEF IInv
<1>2. TypeOK'
  <2>1. {bOpen', params', ready', stop', overflow', ttx', sched', fresh', work', odd'}
          \subseteq BOOLEAN
    BY <1>1 DEF TypeOK
  <2>2. /\ count' \in 0 .. Unit /\ last' \in 0 .. Unit /\ prev' \in -1 .. MaxCount
        /\ get' \in 0 .. Unit - 1 /\ put' \in 0 .. MaxCount /\ at' \in 0 .. Unit
    BY <1>1, MaxCountType DEF TypeOK
  <2>3. /\ vbi' \in 0 .. Group - 1 /\ mapped' \in 0 .. MaxMaps /\ guard' \in 0 .. 1
        /\ due' \in -2 .. Unit + 1
    BY <1>1 DEF TypeOK
  <2>4. /\ bh' \in {"idle", "high", "low"} /\ wq' \in {"idle", "prev", "get", "put", "ovf"}
        /\ sleepers' \subseteq Threads
        /\ pc' \in [Threads -> {"user", "reset", "guard", "schedule", "asleep"}]
        /\ oops' \in {"none", "interrupt", "tasklet", "work", "ioctl"}
    BY <1>1 DEF TypeOK
  <2> QED
    BY <2>1, <2>2, <2>3, <2>4 DEF TypeOK
<1>3. HasBuffer'
  BY <1>1 DEF TypeOK, HasBuffer, HandlerHasBuffer, Lull, Quiet
<1>4. Waits'
  BY <1>1 DEF TypeOK, Waits, Lull
<1>5. IndexInRing' /\ PrevTells' /\ WorkTells' /\ ResetTells' /\ DueTells'
  BY <1>1
  DEF TypeOK, IndexInRing, PrevTells, WorkTells, ResetTells, DueTells, Left, Lull
<1> QED
  BY <1>2, <1>3, <1>4, <1>5 DEF IInv

LEMMA CloseKeeps ==
  ASSUME IInv, Close
  PROVE  IInv'
<1> USE TTXAssumption DEF Close, FreeBuffer, UnchangedByIoctl,
        devVars, ringVars, bhVars, workVars, waitVars, Unset, Burst
<1>1. TypeOK /\ HasBuffer /\ Waits /\ IndexInRing /\ PrevTells /\ WorkTells
      /\ ResetTells /\ DueTells
  BY DEF IInv
<1>2. TypeOK'
  <2>1. {bOpen', params', ready', stop', overflow', ttx', sched', fresh', work', odd'}
          \subseteq BOOLEAN
    BY <1>1 DEF TypeOK
  <2>2. /\ count' \in 0 .. Unit /\ last' \in 0 .. Unit /\ prev' \in -1 .. MaxCount
        /\ get' \in 0 .. Unit - 1 /\ put' \in 0 .. MaxCount /\ at' \in 0 .. Unit
    BY <1>1, MaxCountType DEF TypeOK
  <2>3. /\ vbi' \in 0 .. Group - 1 /\ mapped' \in 0 .. MaxMaps /\ guard' \in 0 .. 1
        /\ due' \in -2 .. Unit + 1
    BY <1>1 DEF TypeOK
  <2>4. /\ bh' \in {"idle", "high", "low"} /\ wq' \in {"idle", "prev", "get", "put", "ovf"}
        /\ sleepers' \subseteq Threads
        /\ pc' \in [Threads -> {"user", "reset", "guard", "schedule", "asleep"}]
        /\ oops' \in {"none", "interrupt", "tasklet", "work", "ioctl"}
    BY <1>1 DEF TypeOK
  <2> QED
    BY <2>1, <2>2, <2>3, <2>4 DEF TypeOK
<1>3. HasBuffer'
  BY <1>1 DEF TypeOK, HasBuffer, HandlerHasBuffer, Lull, Quiet
<1>4. Waits'
  BY <1>1 DEF TypeOK, Waits, Lull
<1>5. IndexInRing' /\ PrevTells' /\ WorkTells' /\ ResetTells' /\ DueTells'
  BY <1>1
  DEF TypeOK, IndexInRing, PrevTells, WorkTells, ResetTells, DueTells, Left, Lull
<1> QED
  BY <1>2, <1>3, <1>4, <1>5 DEF IInv

LEMMA TTXInitKeeps ==
  ASSUME IInv, NEW t \in Threads, TTXInit(t)
  PROVE  IInv'
<1> USE TTXAssumption DEF TTXInit, Ioctl, UnchangedByIoctl,
        devVars, ringVars, bhVars, workVars, waitVars, Unset, Burst
<1>1. TypeOK /\ HasBuffer /\ Waits /\ IndexInRing /\ PrevTells /\ WorkTells
      /\ ResetTells /\ DueTells
  BY DEF IInv
<1>2. TypeOK'
  <2>1. {bOpen', params', ready', stop', overflow', ttx', sched', fresh', work', odd'}
          \subseteq BOOLEAN
    BY <1>1 DEF TypeOK
  <2>2. /\ count' \in 0 .. Unit /\ last' \in 0 .. Unit /\ prev' \in -1 .. MaxCount
        /\ get' \in 0 .. Unit - 1 /\ put' \in 0 .. MaxCount /\ at' \in 0 .. Unit
    BY <1>1, MaxCountType DEF TypeOK
  <2>3. /\ vbi' \in 0 .. Group - 1 /\ mapped' \in 0 .. MaxMaps /\ guard' \in 0 .. 1
        /\ due' \in -2 .. Unit + 1
    BY <1>1 DEF TypeOK
  <2>4. /\ bh' \in {"idle", "high", "low"} /\ wq' \in {"idle", "prev", "get", "put", "ovf"}
        /\ sleepers' \subseteq Threads
        /\ pc' \in [Threads -> {"user", "reset", "guard", "schedule", "asleep"}]
        /\ oops' \in {"none", "interrupt", "tasklet", "work", "ioctl"}
    BY <1>1 DEF TypeOK
  <2> QED
    BY <2>1, <2>2, <2>3, <2>4 DEF TypeOK
<1>3. HasBuffer'
  BY <1>1 DEF TypeOK, HasBuffer, HandlerHasBuffer, Lull, Quiet
<1>4. Waits'
  BY <1>1 DEF TypeOK, Waits, Lull
<1>5. IndexInRing' /\ PrevTells' /\ WorkTells' /\ ResetTells' /\ DueTells'
  BY <1>1
  DEF TypeOK, IndexInRing, PrevTells, WorkTells, ResetTells, DueTells, Left, Lull
<1> QED
  BY <1>2, <1>3, <1>4, <1>5 DEF IInv

LEMMA TTXReleaseKeeps ==
  ASSUME IInv, NEW t \in Threads, TTXRelease(t)
  PROVE  IInv'
<1> USE TTXAssumption DEF TTXRelease, Ioctl, FreeBuffer, UnchangedByIoctl,
        devVars, ringVars, bhVars, workVars, waitVars, Unset, Burst
<1>1. TypeOK /\ HasBuffer /\ Waits /\ IndexInRing /\ PrevTells /\ WorkTells
      /\ ResetTells /\ DueTells
  BY DEF IInv
<1>2. TypeOK'
  <2>1. {bOpen', params', ready', stop', overflow', ttx', sched', fresh', work', odd'}
          \subseteq BOOLEAN
    BY <1>1 DEF TypeOK
  <2>2. /\ count' \in 0 .. Unit /\ last' \in 0 .. Unit /\ prev' \in -1 .. MaxCount
        /\ get' \in 0 .. Unit - 1 /\ put' \in 0 .. MaxCount /\ at' \in 0 .. Unit
    BY <1>1, MaxCountType DEF TypeOK
  <2>3. /\ vbi' \in 0 .. Group - 1 /\ mapped' \in 0 .. MaxMaps /\ guard' \in 0 .. 1
        /\ due' \in -2 .. Unit + 1
    BY <1>1 DEF TypeOK
  <2>4. /\ bh' \in {"idle", "high", "low"} /\ wq' \in {"idle", "prev", "get", "put", "ovf"}
        /\ sleepers' \subseteq Threads
        /\ pc' \in [Threads -> {"user", "reset", "guard", "schedule", "asleep"}]
        /\ oops' \in {"none", "interrupt", "tasklet", "work", "ioctl"}
    BY <1>1 DEF TypeOK
  <2> QED
    BY <2>1, <2>2, <2>3, <2>4 DEF TypeOK
<1>3. HasBuffer'
  BY <1>1 DEF TypeOK, HasBuffer, HandlerHasBuffer, Lull, Quiet
<1>4. Waits'
  BY <1>1 DEF TypeOK, Waits, Lull
<1>5. IndexInRing' /\ PrevTells' /\ WorkTells' /\ ResetTells' /\ DueTells'
  BY <1>1
  DEF TypeOK, IndexInRing, PrevTells, WorkTells, ResetTells, DueTells, Left, Lull
<1> QED
  BY <1>2, <1>3, <1>4, <1>5 DEF IInv

LEMMA EnableInterruptKeeps ==
  ASSUME IInv, NEW t \in Threads, MHal_TTX_EnableInterrupt(t)
  PROVE  IInv'
<1> USE TTXAssumption DEF MHal_TTX_EnableInterrupt, Ioctl, UnchangedByIoctl,
        devVars, ringVars, bhVars, workVars, waitVars, Unset, Burst
<1>1. TypeOK /\ HasBuffer /\ Waits /\ IndexInRing /\ PrevTells /\ WorkTells
      /\ ResetTells /\ DueTells
  BY DEF IInv
<1>2. TypeOK'
  <2>1. {bOpen', params', ready', stop', overflow', ttx', sched', fresh', work', odd'}
          \subseteq BOOLEAN
    BY <1>1 DEF TypeOK
  <2>2. /\ count' \in 0 .. Unit /\ last' \in 0 .. Unit /\ prev' \in -1 .. MaxCount
        /\ get' \in 0 .. Unit - 1 /\ put' \in 0 .. MaxCount /\ at' \in 0 .. Unit
    BY <1>1, MaxCountType DEF TypeOK
  <2>3. /\ vbi' \in 0 .. Group - 1 /\ mapped' \in 0 .. MaxMaps /\ guard' \in 0 .. 1
        /\ due' \in -2 .. Unit + 1
    BY <1>1 DEF TypeOK
  <2>4. /\ bh' \in {"idle", "high", "low"} /\ wq' \in {"idle", "prev", "get", "put", "ovf"}
        /\ sleepers' \subseteq Threads
        /\ pc' \in [Threads -> {"user", "reset", "guard", "schedule", "asleep"}]
        /\ oops' \in {"none", "interrupt", "tasklet", "work", "ioctl"}
    BY <1>1 DEF TypeOK
  <2> QED
    BY <2>1, <2>2, <2>3, <2>4 DEF TypeOK
<1>3. HasBuffer'
  BY <1>1 DEF TypeOK, HasBuffer, HandlerHasBuffer, Lull, Quiet
<1>4. Waits'
  BY <1>1 DEF TypeOK, Waits, Lull
<1>5. IndexInRing' /\ PrevTells' /\ WorkTells' /\ ResetTells' /\ DueTells'
  BY <1>1
  DEF TypeOK, IndexInRing, PrevTells, WorkTells, ResetTells, DueTells, Left, Lull
<1> QED
  BY <1>2, <1>3, <1>4, <1>5 DEF IInv

LEMMA ResetKeeps ==
  ASSUME IInv, NEW t \in Threads, Reset(t)
  PROVE  IInv'
<1> USE TTXAssumption DEF Reset, Ioctl, UnchangedByIoctl,
        devVars, ringVars, bhVars, workVars, waitVars, Unset, Burst
<1>1. TypeOK /\ HasBuffer /\ Waits /\ IndexInRing /\ PrevTells /\ WorkTells
      /\ ResetTells /\ DueTells
  BY DEF IInv
<1>2. TypeOK'
  <2>1. {bOpen', params', ready', stop', overflow', ttx', sched', fresh', work', odd'}
          \subseteq BOOLEAN
    BY <1>1 DEF TypeOK
  <2>2. /\ count' \in 0 .. Unit /\ last' \in 0 .. Unit /\ prev' \in -1 .. MaxCount
        /\ get' \in 0 .. Unit - 1 /\ put' \in 0 .. MaxCount /\ at' \in 0 .. Unit
    BY <1>1, MaxCountType DEF TypeOK
  <2>3. /\ vbi' \in 0 .. Group - 1 /\ mapped' \in 0 .. MaxMaps /\ guard' \in 0 .. 1
        /\ due' \in -2 .. Unit + 1
    BY <1>1 DEF TypeOK
  <2>4. /\ bh' \in {"idle", "high", "low"} /\ wq' \in {"idle", "prev", "get", "put", "ovf"}
        /\ sleepers' \subseteq Threads
        /\ pc' \in [Threads -> {"user", "reset", "guard", "schedule", "asleep"}]
        /\ oops' \in {"none", "interrupt", "tasklet", "work", "ioctl"}
    BY <1>1 DEF TypeOK
  <2> QED
    BY <2>1, <2>2, <2>3, <2>4 DEF TypeOK
<1>3. HasBuffer'
  BY <1>1 DEF TypeOK, HasBuffer, HandlerHasBuffer, Lull, Quiet
<1>4. Waits'
  BY <1>1 DEF TypeOK, Waits, Lull
<1>5. IndexInRing' /\ PrevTells' /\ WorkTells' /\ ResetTells' /\ DueTells'
  BY <1>1
  DEF TypeOK, IndexInRing, PrevTells, WorkTells, ResetTells, DueTells, Left, Lull
<1> QED
  BY <1>2, <1>3, <1>4, <1>5 DEF IInv

LEMMA ResetPrevKeeps ==
  ASSUME IInv, NEW t \in Threads, ResetPrev(t)
  PROVE  IInv'
<1> USE TTXAssumption DEF ResetPrev, UnchangedByIoctl,
        devVars, ringVars, bhVars, workVars, waitVars, Unset, Burst
<1>1. TypeOK /\ HasBuffer /\ Waits /\ IndexInRing /\ PrevTells /\ WorkTells
      /\ ResetTells /\ DueTells
  BY DEF IInv
<1>2. TypeOK'
  <2>1. {bOpen', params', ready', stop', overflow', ttx', sched', fresh', work', odd'}
          \subseteq BOOLEAN
    BY <1>1 DEF TypeOK
  <2>2. /\ count' \in 0 .. Unit /\ last' \in 0 .. Unit /\ prev' \in -1 .. MaxCount
        /\ get' \in 0 .. Unit - 1 /\ put' \in 0 .. MaxCount /\ at' \in 0 .. Unit
    BY <1>1, MaxCountType DEF TypeOK
  <2>3. /\ vbi' \in 0 .. Group - 1 /\ mapped' \in 0 .. MaxMaps /\ guard' \in 0 .. 1
        /\ due' \in -2 .. Unit + 1
    BY <1>1 DEF TypeOK
  <2>4. /\ bh' \in {"idle", "high", "low"} /\ wq' \in {"idle", "prev", "get", "put", "ovf"}
        /\ sleepers' \subseteq Threads
        /\ pc' \in [Threads -> {"user", "reset", "guard", "schedule", "asleep"}]
        /\ oops' \in {"none", "interrupt", "tasklet", "work", "ioctl"}
    BY <1>1 DEF TypeOK
  <2> QED
    BY <2>1, <2>2, <2>3, <2>4 DEF TypeOK
<1>3. HasBuffer'
  BY <1>1 DEF TypeOK, HasBuffer, HandlerHasBuffer, Lull, Quiet
<1>4. Waits'
  BY <1>1 DEF TypeOK, Waits, Lull
<1>5. IndexInRing' /\ PrevTells' /\ WorkTells' /\ ResetTells' /\ DueTells'
  BY <1>1
  DEF TypeOK, IndexInRing, PrevTells, WorkTells, ResetTells, DueTells, Left, Lull
<1> QED
  BY <1>2, <1>3, <1>4, <1>5 DEF IInv

LEMMA MmapKeeps ==
  ASSUME IInv, NEW t \in Threads, Mmap(t)
  PROVE  IInv'
<1> USE TTXAssumption DEF Mmap, Ioctl, UnchangedByIoctl,
        devVars, ringVars, bhVars, workVars, waitVars, Unset, Burst
<1>1. TypeOK /\ HasBuffer /\ Waits /\ IndexInRing /\ PrevTells /\ WorkTells
      /\ ResetTells /\ DueTells
  BY DEF IInv
<1>2. TypeOK'
  <2>1. {bOpen', params', ready', stop', overflow', ttx', sched', fresh', work', odd'}
          \subseteq BOOLEAN
    BY <1>1 DEF TypeOK
  <2>2. /\ count' \in 0 .. Unit /\ last' \in 0 .. Unit /\ prev' \in -1 .. MaxCount
        /\ get' \in 0 .. Unit - 1 /\ put' \in 0 .. MaxCount /\ at' \in 0 .. Unit
    BY <1>1, MaxCountType DEF TypeOK
  <2>3. /\ vbi' \in 0 .. Group - 1 /\ mapped' \in 0 .. MaxMaps /\ guard' \in 0 .. 1
        /\ due' \in -2 .. Unit + 1
    BY <1>1 DEF TypeOK
  <2>4. /\ bh' \in {"idle", "high", "low"} /\ wq' \in {"idle", "prev", "get", "put", "ovf"}
        /\ sleepers' \subseteq Threads
        /\ pc' \in [Threads -> {"user", "reset", "guard", "schedule", "asleep"}]
        /\ oops' \in {"none", "interrupt", "tasklet", "work", "ioctl"}
    BY <1>1 DEF TypeOK
  <2> QED
    BY <2>1, <2>2, <2>3, <2>4 DEF TypeOK
<1>3. HasBuffer'
  BY <1>1 DEF TypeOK, HasBuffer, HandlerHasBuffer, Lull, Quiet
<1>4. Waits'
  BY <1>1 DEF TypeOK, Waits, Lull
<1>5. IndexInRing' /\ PrevTells' /\ WorkTells' /\ ResetTells' /\ DueTells'
  BY <1>1
  DEF TypeOK, IndexInRing, PrevTells, WorkTells, ResetTells, DueTells, Left, Lull
<1> QED
  BY <1>2, <1>3, <1>4, <1>5 DEF IInv

LEMMA MunmapKeeps ==
  ASSUME IInv, NEW t \in Threads, Munmap(t)
  PROVE  IInv'
<1> USE TTXAssumption DEF Munmap, Ioctl, UnchangedByIoctl,
        devVars, ringVars, bhVars, workVars, waitVars, Unset, Burst
<1>1. TypeOK /\ HasBuffer /\ Waits /\ IndexInRing /\ PrevTells /\ WorkTells
      /\ ResetTells /\ DueTells
  BY DEF IInv
<1>2. TypeOK'
  <2>1. {bOpen', params', ready', stop', overflow', ttx', sched', fresh', work', odd'}
          \subseteq BOOLEAN
    BY <1>1 DEF TypeOK
  <2>2. /\ count' \in 0 .. Unit /\ last' \in 0 .. Unit /\ prev' \in -1 .. MaxCount
        /\ get' \in 0 .. Unit - 1 /\ put' \in 0 .. MaxCount /\ at' \in 0 .. Unit
    BY <1>1, MaxCountType DEF TypeOK
  <2>3. /\ vbi' \in 0 .. Group - 1 /\ mapped' \in 0 .. MaxMaps /\ guard' \in 0 .. 1
        /\ due' \in -2 .. Unit + 1
    BY <1>1 DEF TypeOK
  <2>4. /\ bh' \in {"idle", "high", "low"} /\ wq' \in {"idle", "prev", "get", "put", "ovf"}
        /\ sleepers' \subseteq Threads
        /\ pc' \in [Threads -> {"user", "reset", "guard", "schedule", "asleep"}]
        /\ oops' \in {"none", "interrupt", "tasklet", "work", "ioctl"}
    BY <1>1 DEF TypeOK
  <2> QED
    BY <2>1, <2>2, <2>3, <2>4 DEF TypeOK
<1>3. HasBuffer'
  BY <1>1 DEF TypeOK, HasBuffer, HandlerHasBuffer, Lull, Quiet
<1>4. Waits'
  BY <1>1 DEF TypeOK, Waits, Lull
<1>5. IndexInRing' /\ PrevTells' /\ WorkTells' /\ ResetTells' /\ DueTells'
  BY <1>1
  DEF TypeOK, IndexInRing, PrevTells, WorkTells, ResetTells, DueTells, Left, Lull
<1> QED
  BY <1>2, <1>3, <1>4, <1>5 DEF IInv

LEMMA ReadPacketKeeps ==
  ASSUME IInv, NEW t \in Threads, ReadPacket(t)
  PROVE  IInv'
<1> USE TTXAssumption DEF ReadPacket, UnchangedByIoctl,
        devVars, ringVars, bhVars, workVars, waitVars, Unset, Burst
<1>1. TypeOK /\ HasBuffer /\ Waits /\ IndexInRing /\ PrevTells /\ WorkTells
      /\ ResetTells /\ DueTells
  BY DEF IInv
<1>2. TypeOK'
  <2>1. {bOpen', params', ready', stop', overflow', ttx', sched', fresh', work', odd'}
          \subseteq BOOLEAN
    BY <1>1 DEF TypeOK
  <2>2. /\ count' \in 0 .. Unit /\ last' \in 0 .. Unit /\ prev' \in -1 .. MaxCount
        /\ get' \in 0 .. Unit - 1 /\ put' \in 0 .. MaxCount /\ at' \in 0 .. Unit
    BY <1>1, MaxCountType, NextSlot DEF TypeOK
  <2>3. /\ vbi' \in 0 .. Group - 1 /\ mapped' \in 0 .. MaxMaps /\ guard' \in 0 .. 1
        /\ due' \in -2 .. Unit + 1
    BY <1>1 DEF TypeOK
  <2>4. /\ bh' \in {"idle", "high", "low"} /\ wq' \in {"idle", "prev", "get", "put", "ovf"}
        /\ sleepers' \subseteq Threads
        /\ pc' \in [Threads -> {"user", "reset", "guard", "schedule", "asleep"}]
        /\ oops' \in {"none", "interrupt", "tasklet", "work", "ioctl"}
    BY <1>1 DEF TypeOK
  <2> QED
    BY <2>1, <2>2, <2>3, <2>4 DEF TypeOK
<1>3. HasBuffer'
  BY <1>1 DEF TypeOK, HasBuffer, HandlerHasBuffer, Lull, Quiet
<1>4. Waits'
  BY <1>1 DEF TypeOK, Waits, Lull
<1>5. IndexInRing' /\ PrevTells' /\ WorkTells' /\ ResetTells' /\ DueTells'
  <2>1. /\ get \in 0 .. Unit - 1 /\ put \in Nat /\ bh = "idle"
        /\ get' = IF get = Unit - 1 THEN 0 ELSE get + 1
        /\ get # put /\ UNCHANGED <<put, overflow, prev, wq, count, bh>>
        /\ odd' = (odd \/ due > Unit \/ wq # "idle")
    BY <1>1, NextSlot DEF TypeOK, Lull, Quiet
  <2>2. IndexInRing' /\ WorkTells'
    BY <1>1, <2>1 DEF TypeOK, IndexInRing, WorkTells
  <2>3. ResetTells'
    BY <1>1 DEF ResetTells, Lull, TypeOK
  <2>4. PrevTells'
    BY <1>1, <2>1 DEF PrevTells, TypeOK
  <2>5. DueTells'
    <3> SUFFICES ASSUME ~odd', ~overflow, due' >= 0, wq = "idle" PROVE DueTells'
      BY <2>1 DEF DueTells
    <3>1. ~odd /\ ~(due > Unit) /\ due \in Int
      <4>1. ~odd /\ ~(due > Unit)
        BY <2>1, Zenon
      <4> QED
        BY <1>1, <4>1 DEF TypeOK
    <3>2. due' = IF due >= 0 THEN due - 1
                 ELSE IF prev = count THEN (put - get) % Unit ELSE due
      BY <1>1, <2>1, <3>1 DEF TypeOK
    <3>3. put \in 0 .. Unit - 1
      BY <1>1, <2>1, <3>1 DEF IndexInRing
    <3>4. /\ (put - get) % Unit = Dist(put, get) /\ Dist(put, get) \in Nat
          /\ Dist(put, get') = Dist(put, get) - 1 /\ Dist(put, get') < Unit - 1
      <4>1. Dist(put, get') = Dist(put, get) - 1 /\ Dist(put, get) \in 1 .. Unit - 1
        BY <2>1, <3>3 DEF Dist
      <4>2. put \in Int /\ get \in Int /\ put - get < Unit /\ get - put < Unit
        BY <2>1, <3>3
      <4>3. (put - get) % Unit = Dist(put, get)
        BY <4>2, DistIsMod
      <4> QED
        BY <4>1, <4>3
    <3>5. /\ prev \in 1 .. Unit /\ count \in 1 .. Unit /\ put = prev - 1
          /\ due' = Dist(put, get') + 1 + Dist(count, prev)
      <4>1. CASE due >= 0
        <5>1. /\ prev \in 1 .. Unit /\ count \in 1 .. Unit /\ put = prev - 1
              /\ due = IF Left > Unit + 1 THEN Unit + 1 ELSE Left
          BY <1>1, <3>1, <4>1 DEF DueTells
        <5>2. Dist(count, prev) \in Nat
          BY <5>1 DEF Dist
        <5>3. due = Left
          BY <3>1, <3>4, <5>1, <5>2 DEF Left
        <5> QED
          BY <3>2, <3>4, <4>1, <5>1, <5>2, <5>3 DEF Left
      <4>2. CASE ~(due >= 0)
        <5>1. prev = count /\ due' = Dist(put, get)
          BY <3>2, <3>4, <4>2
        <5>2. prev # Unset
          BY <1>1, <5>1 DEF TypeOK, Unset
        <5>3. prev \in 1 .. Unit /\ put = prev - 1
          BY <1>1, <2>1, <3>1, <5>2 DEF PrevTells
        <5>4. Dist(count, prev) = 0
          BY <5>1, <5>3 DEF Dist
        <5> QED
          BY <3>4, <5>1, <5>3, <5>4
      <4> QED
        BY <4>1, <4>2
    <3>6. Dist(count, prev) \in Nat /\ Left' = due'
      BY <2>1, <3>5 DEF Left, Dist
    <3>7. due' <= Unit + 1
      <4>1. CASE due >= 0
        BY <3>1, <3>2, <4>1
      <4>2. CASE ~(due >= 0)
        BY <3>2, <3>3, <3>4, <4>2, <2>1 DEF Dist
      <4> QED
        BY <4>1, <4>2
    <3> QED
      BY <2>1, <3>4, <3>5, <3>6, <3>7 DEF DueTells
  <2> QED
    BY <2>2, <2>3, <2>4, <2>5
<1> QED
  BY <1>2, <1>3, <1>4, <1>5 DEF IInv

LEMMA WaitPrepareKeeps ==
  ASSUME IInv, NEW t \in Threads, WaitPrepare(t)
  PROVE  IInv'
<1> USE TTXAssumption DEF WaitPrepare, Step,
        devVars, ringVars, bhVars, workVars, waitVars, Unset, Burst
<1>1. TypeOK /\ HasBuffer /\ Waits /\ IndexInRing /\ PrevTells /\ WorkTells
      /\ ResetTells /\ DueTells
  BY DEF IInv
<1>2. TypeOK'
  <2>1. {bOpen', params', ready', stop', overflow', ttx', sched', fresh', work', odd'}
          \subseteq BOOLEAN
    BY <1>1 DEF TypeOK
  <2>2. /\ count' \in 0 .. Unit /\ last' \in 0 .. Unit /\ prev' \in -1 .. MaxCount
        /\ get' \in 0 .. Unit - 1 /\ put' \in 0 .. MaxCount /\ at' \in 0 .. Unit
    BY <1>1, MaxCountType DEF TypeOK
  <2>3. /\ vbi' \in 0 .. Group - 1 /\ mapped' \in 0 .. MaxMaps /\ guard' \in 0 .. 1
        /\ due' \in -2 .. Unit + 1
    BY <1>1 DEF TypeOK
  <2>4. /\ bh' \in {"idle", "high", "low"} /\ wq' \in {"idle", "prev", "get", "put", "ovf"}
        /\ sleepers' \subseteq Threads
        /\ pc' \in [Threads -> {"user", "reset", "guard", "schedule", "asleep"}]
        /\ oops' \in {"none", "interrupt", "tasklet", "work", "ioctl"}
    BY <1>1 DEF TypeOK
  <2> QED
    BY <2>1, <2>2, <2>3, <2>4 DEF TypeOK
<1>3. HasBuffer'
  BY <1>1 DEF TypeOK, HasBuffer, HandlerHasBuffer, Lull, Quiet
<1>4. Waits'
  BY <1>1 DEF TypeOK, Waits, Lull
<1>5. IndexInRing' /\ PrevTells' /\ WorkTells' /\ ResetTells' /\ DueTells'
  BY <1>1
  DEF TypeOK, IndexInRing, PrevTells, WorkTells, ResetTells, DueTells, Left, Lull
<1> QED
  BY <1>2, <1>3, <1>4, <1>5 DEF IInv

LEMMA WaitGuardKeeps ==
  ASSUME IInv, NEW t \in Threads, WaitGuard(t)
  PROVE  IInv'
<1> USE TTXAssumption DEF WaitGuard, Step,
        devVars, ringVars, bhVars, workVars, waitVars, Unset, Burst
<1>1. TypeOK /\ HasBuffer /\ Waits /\ IndexInRing /\ PrevTells /\ WorkTells
      /\ ResetTells /\ DueTells
  BY DEF IInv
<1>2. TypeOK'
  <2>1. {bOpen', params', ready', stop', overflow', ttx', sched', fresh', work', odd'}
          \subseteq BOOLEAN
    BY <1>1 DEF TypeOK
  <2>2. /\ count' \in 0 .. Unit /\ last' \in 0 .. Unit /\ prev' \in -1 .. MaxCount
        /\ get' \in 0 .. Unit - 1 /\ put' \in 0 .. MaxCount /\ at' \in 0 .. Unit
    BY <1>1, MaxCountType DEF TypeOK
  <2>3. /\ vbi' \in 0 .. Group - 1 /\ mapped' \in 0 .. MaxMaps /\ guard' \in 0 .. 1
        /\ due' \in -2 .. Unit + 1
    BY <1>1 DEF TypeOK
  <2>4. /\ bh' \in {"idle", "high", "low"} /\ wq' \in {"idle", "prev", "get", "put", "ovf"}
        /\ sleepers' \subseteq Threads
        /\ pc' \in [Threads -> {"user", "reset", "guard", "schedule", "asleep"}]
        /\ oops' \in {"none", "interrupt", "tasklet", "work", "ioctl"}
    BY <1>1 DEF TypeOK
  <2> QED
    BY <2>1, <2>2, <2>3, <2>4 DEF TypeOK
<1>3. HasBuffer'
  BY <1>1 DEF TypeOK, HasBuffer, HandlerHasBuffer, Lull, Quiet
<1>4. Waits'
  BY <1>1 DEF TypeOK, Waits, Lull
<1>5. IndexInRing' /\ PrevTells' /\ WorkTells' /\ ResetTells' /\ DueTells'
  BY <1>1
  DEF TypeOK, IndexInRing, PrevTells, WorkTells, ResetTells, DueTells, Left, Lull
<1> QED
  BY <1>2, <1>3, <1>4, <1>5 DEF IInv

LEMMA WaitScheduleKeeps ==
  ASSUME IInv, NEW t \in Threads, WaitSchedule(t)
  PROVE  IInv'
<1> USE TTXAssumption DEF WaitSchedule, Step,
        devVars, ringVars, bhVars, workVars, waitVars, Unset, Burst
<1>1. TypeOK /\ HasBuffer /\ Waits /\ IndexInRing /\ PrevTells /\ WorkTells
      /\ ResetTells /\ DueTells
  BY DEF IInv
<1>2. TypeOK'
  <2>1. {bOpen', params', ready', stop', overflow', ttx', sched', fresh', work', odd'}
          \subseteq BOOLEAN
    BY <1>1 DEF TypeOK
  <2>2. /\ count' \in 0 .. Unit /\ last' \in 0 .. Unit /\ prev' \in -1 .. MaxCount
        /\ get' \in 0 .. Unit - 1 /\ put' \in 0 .. MaxCount /\ at' \in 0 .. Unit
    BY <1>1, MaxCountType DEF TypeOK
  <2>3. /\ vbi' \in 0 .. Group - 1 /\ mapped' \in 0 .. MaxMaps /\ guard' \in 0 .. 1
        /\ due' \in -2 .. Unit + 1
    BY <1>1 DEF TypeOK
  <2>4. /\ bh' \in {"idle", "high", "low"} /\ wq' \in {"idle", "prev", "get", "put", "ovf"}
        /\ sleepers' \subseteq Threads
        /\ pc' \in [Threads -> {"user", "reset", "guard", "schedule", "asleep"}]
        /\ oops' \in {"none", "interrupt", "tasklet", "work", "ioctl"}
    BY <1>1 DEF TypeOK
  <2> QED
    BY <2>1, <2>2, <2>3, <2>4 DEF TypeOK
<1>3. HasBuffer'
  BY <1>1 DEF TypeOK, HasBuffer, HandlerHasBuffer, Lull, Quiet
<1>4. Waits'
  BY <1>1 DEF TypeOK, Waits, Lull
<1>5. IndexInRing' /\ PrevTells' /\ WorkTells' /\ ResetTells' /\ DueTells'
  BY <1>1
  DEF TypeOK, IndexInRing, PrevTells, WorkTells, ResetTells, DueTells, Left, Lull
<1> QED
  BY <1>2, <1>3, <1>4, <1>5 DEF IInv

LEMMA WaitFinishKeeps ==
  ASSUME IInv, NEW t \in Threads, WaitFinish(t)
  PROVE  IInv'
<1> USE TTXAssumption DEF WaitFinish, Step,
        devVars, ringVars, bhVars, workVars, waitVars, Unset, Burst
<1>1. TypeOK /\ HasBuffer /\ Waits /\ IndexInRing /\ PrevTells /\ WorkTells
      /\ ResetTells /\ DueTells
  BY DEF IInv
<1>2. TypeOK'
  <2>1. {bOpen', params', ready', stop', overflow', ttx', sched', fresh', work', odd'}
          \subseteq BOOLEAN
    BY <1>1 DEF TypeOK
  <2>2. /\ count' \in 0 .. Unit /\ last' \in 0 .. Unit /\ prev' \in -1 .. MaxCount
        /\ get' \in 0 .. Unit - 1 /\ put' \in 0 .. MaxCount /\ at' \in 0 .. Unit
    BY <1>1, MaxCountType DEF TypeOK
  <2>3. /\ vbi' \in 0 .. Group - 1 /\ mapped' \in 0 .. MaxMaps /\ guard' \in 0 .. 1
        /\ due' \in -2 .. Unit + 1
    BY <1>1 DEF TypeOK
  <2>4. /\ bh' \in {"idle", "high", "low"} /\ wq' \in {"idle", "prev", "get", "put", "ovf"}
        /\ sleepers' \subseteq Threads
        /\ pc' \in [Threads -> {"user", "reset", "guard", "schedule", "asleep"}]
        /\ oops' \in {"none", "interrupt", "tasklet", "work", "ioctl"}
    BY <1>1 DEF TypeOK
  <2> QED
    BY <2>1, <2>2, <2>3, <2>4 DEF TypeOK
<1>3. HasBuffer'
  BY <1>1 DEF TypeOK, HasBuffer, HandlerHasBuffer, Lull, Quiet
<1>4. Waits'
  BY <1>1 DEF TypeOK, Waits, Lull
<1>5. IndexInRing' /\ PrevTells' /\ WorkTells' /\ ResetTells' /\ DueTells'
  BY <1>1
  DEF TypeOK, IndexInRing, PrevTells, WorkTells, ResetTells, DueTells, Left, Lull
<1> QED
  BY <1>2, <1>3, <1>4, <1>5 DEF IInv

LEMMA SignalKeeps ==
  ASSUME IInv, NEW t \in Threads, Signal(t)
  PROVE  IInv'
<1> USE TTXAssumption DEF Signal,
        devVars, ringVars, bhVars, workVars, waitVars, Unset, Burst
<1>1. TypeOK /\ HasBuffer /\ Waits /\ IndexInRing /\ PrevTells /\ WorkTells
      /\ ResetTells /\ DueTells
  BY DEF IInv
<1>2. TypeOK'
  <2>1. {bOpen', params', ready', stop', overflow', ttx', sched', fresh', work', odd'}
          \subseteq BOOLEAN
    BY <1>1 DEF TypeOK
  <2>2. /\ count' \in 0 .. Unit /\ last' \in 0 .. Unit /\ prev' \in -1 .. MaxCount
        /\ get' \in 0 .. Unit - 1 /\ put' \in 0 .. MaxCount /\ at' \in 0 .. Unit
    BY <1>1, MaxCountType DEF TypeOK
  <2>3. /\ vbi' \in 0 .. Group - 1 /\ mapped' \in 0 .. MaxMaps /\ guard' \in 0 .. 1
        /\ due' \in -2 .. Unit + 1
    BY <1>1 DEF TypeOK
  <2>4. /\ bh' \in {"idle", "high", "low"} /\ wq' \in {"idle", "prev", "get", "put", "ovf"}
        /\ sleepers' \subseteq Threads
        /\ pc' \in [Threads -> {"user", "reset", "guard", "schedule", "asleep"}]
        /\ oops' \in {"none", "interrupt", "tasklet", "work", "ioctl"}
    BY <1>1 DEF TypeOK
  <2> QED
    BY <2>1, <2>2, <2>3, <2>4 DEF TypeOK
<1>3. HasBuffer'
  BY <1>1 DEF TypeOK, HasBuffer, HandlerHasBuffer, Lull, Quiet
<1>4. Waits'
  BY <1>1 DEF TypeOK, Waits, Lull
<1>5. IndexInRing' /\ PrevTells' /\ WorkTells' /\ ResetTells' /\ DueTells'
  BY <1>1
  DEF TypeOK, IndexInRing, PrevTells, WorkTells, ResetTells, DueTells, Left, Lull
<1> QED
  BY <1>2, <1>3, <1>4, <1>5 DEF IInv

LEMMA BhSecondKeeps ==
  ASSUME IInv, BhSecond
  PROVE  IInv'
<1> DEFINE cur == IF bh = "high" THEN (at % LowBase) + LowBase * (count \div LowBase)
                  ELSE (count % LowBase) + LowBase * (at \div LowBase)
<1>1. cur \in 0 .. MaxCount
  BY HalvesType DEF IInv, TypeOK
<1>2. odd' = (odd \/ wq # "idle" \/ Torn(cur)) /\ (BhQuit(cur) \/ BhPut(cur))
  BY DEF BhSecond
<1> QED
  BY <1>1, <1>2, BhQuitKeeps, BhPutKeeps

LEMMA ThreadKeeps ==
  ASSUME IInv, NEW t \in Threads, Thread(t)
  PROVE  IInv'
<1>1. CASE \/ TTXInit(t) \/ TTXRelease(t) \/ MHal_TTX_EnableInterrupt(t)
           \/ Reset(t) \/ ResetPrev(t) \/ Mmap(t) \/ Munmap(t) \/ ReadPacket(t)
  BY <1>1, TTXInitKeeps, TTXReleaseKeeps, EnableInterruptKeeps, ResetKeeps,
     ResetPrevKeeps, MmapKeeps, MunmapKeeps, ReadPacketKeeps
<1>2. CASE WaitPrepare(t) \/ WaitGuard(t) \/ WaitSchedule(t) \/ WaitFinish(t) \/ Signal(t)
  BY <1>2, WaitPrepareKeeps, WaitGuardKeeps, WaitScheduleKeeps, WaitFinishKeeps,
     SignalKeeps
<1> QED
  BY <1>1, <1>2 DEF Thread

LEMMA UnchangedKeeps ==
  ASSUME IInv, UNCHANGED vars
  PROVE  IInv'
<1> USE DEF vars, devVars, ringVars, bhVars, workVars, waitVars
<1>1. TypeOK' /\ HasBuffer' /\ Waits'
  BY DEF IInv, TypeOK, HasBuffer, HandlerHasBuffer, Waits
<1>2. IndexInRing' /\ PrevTells' /\ WorkTells' /\ ResetTells' /\ DueTells'
  BY DEF IInv, IndexInRing, PrevTells, WorkTells, ResetTells, DueTells, Left
<1> QED
  BY <1>1, <1>2 DEF IInv

LEMMA NextIInv ==
  ASSUME IInv, [Next]_vars
  PROVE  IInv'
<1>1. CASE Hardware
  <2>1. MDrv_TTX_Interrupt => InterruptGarbage \/ InterruptPackets \/ InterruptNone
    BY DEF MDrv_TTX_Interrupt
  <2> QED
    BY <1>1, <2>1, PacketKeeps, GarbageKeeps, PacketsKeeps, NoneKeeps, ElapseKeeps
    DEF Hardware
<1>2. CASE MDrv_TTX_BH \/ MDrv_TTX_WQ
  BY <1>2, BhFirstKeeps, BhSecondKeeps, WorkClearKeeps, WorkResetKeeps
  DEF MDrv_TTX_BH, MDrv_TTX_WQ
<1>3. CASE Open \/ Close
  BY <1>3, OpenKeeps, CloseKeeps
<1>4. ASSUME NEW t \in Threads, Thread(t) PROVE IInv'
  BY <1>4, ThreadKeeps
<1>5. CASE UNCHANGED vars
  BY <1>5, UnchangedKeeps
<1> QED
  BY <1>1, <1>2, <1>3, <1>4, <1>5 DEF Next

-----------------------------------------------------------------------------
(* Theorems.                                                                *)

\* The invariant of handler, tasklet, work, ioctls and reader together.
THEOREM Inductive == Spec => []IInv
<1>1. Init => IInv
  BY InitIInv
<1>2. IInv /\ [Next]_vars => IInv'
  BY NextIInv
<1> QED
  BY <1>1, <1>2, PTL DEF Spec

\* Every variable keeps its type; a count put together from two halves stays within
\* what the two registers hold.
THEOREM TypeCorrect == Spec => []TypeOK
<1>1. IInv => TypeOK
  BY DEF IInv
<1> QED
  BY <1>1, Inductive, PTL

\* The wait queue of MDrv_Wait holds one thread at most.
THEOREM OneWaits == Spec => []OneSleeper
<1>1. IInv => OneSleeper
  <2> SUFFICES ASSUME IInv PROVE Cardinality(sleepers) <= 1
    BY DEF OneSleeper
  <2>1. CASE sleepers = {}
    BY <2>1, FS_EmptySet
  <2>2. CASE sleepers # {}
    <3>1. PICK t \in sleepers : TRUE
      BY <2>2
    <3>2. sleepers = {t}
      BY <3>1 DEF IInv, Waits
    <3> QED
      BY <3>2, FS_Singleton
  <2> QED
    BY <2>1, <2>2
<1> QED
  BY <1>1, Inductive, PTL

\* The overflow test of MDrv_TTX_BH misses nothing, but for a burst of more than
\* MaxComing packets, which resets the indices first (due = Burst), and the steps
\* that odd notes.
THEOREM LossTold == Spec => []NoSilentLoss
<1>1. IInv => NoSilentLoss
  <2> SUFFICES ASSUME IInv, ~odd, ~overflow, due \notin {Unset, Burst}, Quiet,
                      wq = "idle", prev = count
               PROVE  due = ((put - get) % Unit) + 1
    BY DEF NoSilentLoss
  <2>1. /\ prev \in 1 .. Unit /\ put = prev - 1 /\ get \in 0 .. Unit - 1
        /\ due = IF Left > Unit + 1 THEN Unit + 1 ELSE Left
    <3>1. due >= 0
      BY DEF IInv, TypeOK, Unset, Burst
    <3> QED
      BY <3>1 DEF IInv, DueTells, TypeOK
  <2>2. (put - get) % Unit = Dist(put, get) /\ Dist(put, get) \in 0 .. Unit - 1
    <3>1. put \in Int /\ get \in Int /\ put - get < Unit /\ get - put < Unit
      BY <2>1, TTXAssumption
    <3> QED
      BY <3>1, DistIsMod
  <2>3. Left = Dist(put, get) + 1
    BY <2>1, <2>2, TTXAssumption DEF Left, Dist
  <2> QED
    BY <2>1, <2>2, <2>3, TTXAssumption
<1> QED
  BY <1>1, Inductive, PTL

\* What MDrv_TTX_BH stores is a slot of the ring unless the count it read was torn.
THEOREM SlotGiven == Spec => []IndexInRing
<1>1. IInv => IndexInRing
  BY DEF IInv
<1> QED
  BY <1>1, Inductive, PTL

\* The handler uses no buffer that FreeBuffer has freed: free_irq takes it away
\* first.  Nothing takes the tasklet or the work away, see FreedUnreferenced.
THEOREM BufferThere == Spec => []HandlerHasBuffer
<1>1. IInv => HandlerHasBuffer
  BY DEF IInv, HasBuffer
<1> QED
  BY <1>1, Inductive, PTL
=============================================================================
