------------------------- MODULE MSMailboxDev_proofs -------------------------
(***************************************************************************)
(* Theorems about MSMailboxDev, for every set of processes and every bound *)
(* on their mappings: one process at most opens or releases the device,    *)
(* and the register flags tell on which lines the handler is.              *)
(***************************************************************************)
EXTENDS MSMailboxDev, FiniteSets, FiniteSetTheorems, TLAPS

-----------------------------------------------------------------------------
(* The inductive invariant.                                                 *)

\* A process that counts a mapping, or drops one, has it; one that forks has
\* something to copy.
Holds(p) ==
  /\ pc[p] \in {"incR", "incW", "decR", "decW", "fput"} => vmas[p] > 0
  /\ pc[p] \in {"fork", "forkR", "forkW"} => p \in fd \/ vmas[p] > 0

\* One process at most forks, and its child does not run yet.
Forking(p) ==
  pc[p] \in {"fork", "forkR", "forkW"} =>
    /\ child \in Procs /\ pc[child] = "unborn"
    /\ \A r \in Procs \ {p} : pc[r] \notin {"fork", "forkR", "forkW"}

\* Only a count above 0 is counted down.
Counted(p) == pc[p] = "decW" => val[p] > 0

\* What opInit has found out about the two lines.
Requesting(p) ==
  /\ pc[p] \in {"reqAEON", "reqPM", "initEnd"} => ~intValid
  /\ pc[p] = "reqPM" => "AEON" \in regFlags /\ (s32Err = "ok" \/ "PM" \notin regFlags)
  /\ pc[p] = "initEnd" => regFlags = Lines /\ s32Err = "ok"

\* What release has already taken back.
Released(p) ==
  /\ pc[p] \in {"freeAEON", "freePM"} => regFlags = {}
  /\ pc[p] = "freePM" => "AEON" \notin lines
  /\ pc[p] \in {"queue", "closed"} => ~intValid
  /\ pc[p] = "closed" => ~qValid

\* INT_MGR.bValid tells that both lines are registered, the line of the AEON
\* first.
ValidHasBoth ==
  /\ intValid /\ (\A p \in Procs : pc[p] \notin {"freeAEON", "freePM"}) => lines = Lines
  /\ ~intValid /\ (\A p \in Procs : pc[p] # "initEnd") => regFlags # Lines
  /\ "PM" \in regFlags => "AEON" \in regFlags

IInv ==
  /\ TypeOK
  /\ \A p \in Procs :
       Holds(p) /\ Forking(p) /\ Counted(p) /\ Requesting(p) /\ Released(p)
  /\ ValidHasBoth
  /\ OpenReleaseAlone
  /\ FlagsMatchLines

-----------------------------------------------------------------------------
(* Lemmas: the initial states.                                              *)

LEMMA InitIInv == ASSUME Init PROVE IInv
<1> USE DevAssumption DEF Init
<1>1. TypeOK
  BY DEF TypeOK, PcSteps
<1>2. OpenReleaseAlone /\ FlagsMatchLines /\ ValidHasBoth
  BY DEF OpenReleaseAlone, FlagsMatchLines, ValidHasBoth, Used, Opening, Releasing, Lines
<1>3. \A p \in Procs :
        Holds(p) /\ Forking(p) /\ Counted(p) /\ Requesting(p) /\ Released(p)
  BY DEF Holds, Forking, Counted, Requesting, Released
<1> QED
  BY <1>1, <1>2, <1>3 DEF IInv

-----------------------------------------------------------------------------
(* Lemmas: each step keeps the invariant.                                   *)

LEMMA OpenKeeps ==
  ASSUME IInv, NEW p \in Procs, Open(p)
  PROVE  IInv'
<1> USE DevAssumption DEF Open, Goto, intVars, refVars, forkVars, Lines
<1>1. TypeOK /\ ValidHasBoth /\ OpenReleaseAlone /\ FlagsMatchLines
  BY DEF IInv
<1>2. \A r \in Procs : Holds(r) /\ Forking(r) /\ Counted(r)
  BY DEF IInv
<1>3. \A r \in Procs : Requesting(r) /\ Released(r)
  BY DEF IInv
<1>4. TypeOK'
  BY <1>1, <1>2 DEF TypeOK, Forking, Counted, PcSteps, Opening, Releasing, Counting
<1>5. \A r \in Procs : Holds(r)' /\ Counted(r)'
  BY <1>1, <1>2 DEF TypeOK, Holds, Forking, Counted
<1>6. \A r \in Procs : Forking(r)'
  BY <1>1, <1>2 DEF TypeOK, Forking
<1>7. \A r \in Procs : Requesting(r)' /\ Released(r)'
  BY <1>1, <1>3
  DEF TypeOK, Requesting, Released, OpenReleaseAlone, Opening, Releasing, ValidHasBoth,
      Used
<1>8. ValidHasBoth'
  BY <1>1, <1>3
  DEF TypeOK, ValidHasBoth, Requesting, Released, OpenReleaseAlone, Opening, Releasing,
      FlagsMatchLines
<1>9. OpenReleaseAlone'
  BY <1>1, <1>2, <1>3
  DEF TypeOK, OpenReleaseAlone, Used, Opening, Releasing, Holds, Forking, Released
<1>10. FlagsMatchLines'
  BY <1>1, <1>3
  DEF TypeOK, FlagsMatchLines, Requesting, Released, ValidHasBoth, OpenReleaseAlone,
      Used, Opening, Releasing
<1> QED
  BY <1>4, <1>5, <1>6, <1>7, <1>8, <1>9, <1>10 DEF IInv

LEMMA RequestKeeps ==
  ASSUME IInv, NEW p \in Procs, NEW line \in Lines, Request(p, line)
  PROVE  IInv'
<1> USE DevAssumption DEF Request, Goto, Step, After, intVars, refVars, forkVars, Lines
<1>1. TypeOK /\ ValidHasBoth /\ OpenReleaseAlone /\ FlagsMatchLines
  BY DEF IInv
<1>2. \A r \in Procs : Holds(r) /\ Forking(r) /\ Counted(r)
  BY DEF IInv
<1>3. \A r \in Procs : Requesting(r) /\ Released(r)
  BY DEF IInv
<1>4. TypeOK'
  BY <1>1, <1>2 DEF TypeOK, Forking, Counted, PcSteps, Opening, Releasing, Counting
<1>5. \A r \in Procs : Holds(r)' /\ Counted(r)'
  BY <1>1, <1>2 DEF TypeOK, Holds, Forking, Counted
<1>6. \A r \in Procs : Forking(r)'
  BY <1>1, <1>2 DEF TypeOK, Forking
<1>0. /\ line = "AEON" => "PM" \notin regFlags'
      /\ line = "PM" /\ "AEON" \in regFlags => regFlags' = Lines
  BY <1>1 DEF TypeOK, ValidHasBoth
<1>7. \A r \in Procs : Requesting(r)' /\ Released(r)'
  BY <1>1, <1>3, <1>0
  DEF TypeOK, Requesting, Released, OpenReleaseAlone, Opening, Releasing, ValidHasBoth,
      Used
<1>8. ValidHasBoth'
  BY <1>1, <1>3, <1>0
  DEF TypeOK, ValidHasBoth, Requesting, Released, OpenReleaseAlone, Opening, Releasing,
      FlagsMatchLines
<1>9. OpenReleaseAlone'
  BY <1>1, <1>2, <1>3, <1>0
  DEF TypeOK, OpenReleaseAlone, Used, Opening, Releasing, Holds, Forking, Released
<1>10. FlagsMatchLines'
  BY <1>1, <1>3, <1>0
  DEF TypeOK, FlagsMatchLines, Requesting, Released, ValidHasBoth, OpenReleaseAlone,
      Used, Opening, Releasing
<1> QED
  BY <1>4, <1>5, <1>6, <1>7, <1>8, <1>9, <1>10 DEF IInv

LEMMA RequestFailsKeeps ==
  ASSUME IInv, NEW p \in Procs, NEW line \in Lines, RequestFails(p, line)
  PROVE  IInv'
<1> USE DevAssumption DEF RequestFails, Goto, Step, intVars, refVars, forkVars, Lines
<1>1. TypeOK /\ ValidHasBoth /\ OpenReleaseAlone /\ FlagsMatchLines
  BY DEF IInv
<1>2. \A r \in Procs : Holds(r) /\ Forking(r) /\ Counted(r)
  BY DEF IInv
<1>3. \A r \in Procs : Requesting(r) /\ Released(r)
  BY DEF IInv
<1>4. TypeOK'
  BY <1>1, <1>2 DEF TypeOK, Forking, Counted, PcSteps, Opening, Releasing, Counting
<1>5. \A r \in Procs : Holds(r)' /\ Counted(r)'
  BY <1>1, <1>2 DEF TypeOK, Holds, Forking, Counted
<1>6. \A r \in Procs : Forking(r)'
  BY <1>1, <1>2 DEF TypeOK, Forking
<1>7. \A r \in Procs : Requesting(r)' /\ Released(r)'
  BY <1>1, <1>3
  DEF TypeOK, Requesting, Released, OpenReleaseAlone, Opening, Releasing, ValidHasBoth,
      Used
<1>8. ValidHasBoth'
  BY <1>1, <1>3
  DEF TypeOK, ValidHasBoth, Requesting, Released, OpenReleaseAlone, Opening, Releasing,
      FlagsMatchLines
<1>9. OpenReleaseAlone'
  BY <1>1, <1>2, <1>3
  DEF TypeOK, OpenReleaseAlone, Used, Opening, Releasing, Holds, Forking, Released
<1>10. FlagsMatchLines'
  BY <1>1, <1>3
  DEF TypeOK, FlagsMatchLines, Requesting, Released, ValidHasBoth, OpenReleaseAlone,
      Used, Opening, Releasing
<1> QED
  BY <1>4, <1>5, <1>6, <1>7, <1>8, <1>9, <1>10 DEF IInv

LEMMA RequestedKeeps ==
  ASSUME IInv, NEW p \in Procs, NEW line \in Lines, Requested(p, line)
  PROVE  IInv'
<1> USE DevAssumption DEF Requested, Goto, Step, After, intVars, refVars, forkVars, Lines
<1>1. TypeOK /\ ValidHasBoth /\ OpenReleaseAlone /\ FlagsMatchLines
  BY DEF IInv
<1>2. \A r \in Procs : Holds(r) /\ Forking(r) /\ Counted(r)
  BY DEF IInv
<1>3. \A r \in Procs : Requesting(r) /\ Released(r)
  BY DEF IInv
<1>4. TypeOK'
  BY <1>1, <1>2 DEF TypeOK, Forking, Counted, PcSteps, Opening, Releasing, Counting
<1>5. \A r \in Procs : Holds(r)' /\ Counted(r)'
  BY <1>1, <1>2 DEF TypeOK, Holds, Forking, Counted
<1>6. \A r \in Procs : Forking(r)'
  BY <1>1, <1>2 DEF TypeOK, Forking
<1>0. /\ pc[p] = "reqAEON" => "PM" \notin regFlags
      /\ pc[p] = "reqPM" => regFlags = Lines
  <2>1. regFlags # Lines <=> "AEON" \notin regFlags \/ "PM" \notin regFlags
    BY <1>1 DEF TypeOK
  <2>2. pc[p] \in {"reqAEON", "reqPM"} =>
          ~intValid /\ \A r \in Procs : pc[r] # "initEnd"
    BY <1>1, <1>3 DEF Requesting, OpenReleaseAlone, Opening
  <2> QED
    BY <1>1, <1>3, <2>1, <2>2 DEF ValidHasBoth, Requesting
<1>7. \A r \in Procs : Requesting(r)' /\ Released(r)'
  BY <1>1, <1>3, <1>0
  DEF TypeOK, Requesting, Released, OpenReleaseAlone, Opening, Releasing, ValidHasBoth,
      Used
<1>8. ValidHasBoth'
  BY <1>1, <1>3, <1>0
  DEF TypeOK, ValidHasBoth, Requesting, Released, OpenReleaseAlone, Opening, Releasing,
      FlagsMatchLines
<1>9. OpenReleaseAlone'
  BY <1>1, <1>2, <1>3, <1>0
  DEF TypeOK, OpenReleaseAlone, Used, Opening, Releasing, Holds, Forking, Released
<1>10. FlagsMatchLines'
  BY <1>1, <1>3, <1>0
  DEF TypeOK, FlagsMatchLines, Requesting, Released, ValidHasBoth, OpenReleaseAlone,
      Used, Opening, Releasing
<1> QED
  BY <1>4, <1>5, <1>6, <1>7, <1>8, <1>9, <1>10 DEF IInv

LEMMA InitEndKeeps ==
  ASSUME IInv, NEW p \in Procs, InitEnd(p)
  PROVE  IInv'
<1> USE DevAssumption DEF InitEnd, Goto, intVars, refVars, forkVars, Lines
<1>1. TypeOK /\ ValidHasBoth /\ OpenReleaseAlone /\ FlagsMatchLines
  BY DEF IInv
<1>2. \A r \in Procs : Holds(r) /\ Forking(r) /\ Counted(r)
  BY DEF IInv
<1>3. \A r \in Procs : Requesting(r) /\ Released(r)
  BY DEF IInv
<1>4. TypeOK'
  BY <1>1, <1>2 DEF TypeOK, Forking, Counted, PcSteps, Opening, Releasing, Counting
<1>5. \A r \in Procs : Holds(r)' /\ Counted(r)'
  BY <1>1, <1>2 DEF TypeOK, Holds, Forking, Counted
<1>6. \A r \in Procs : Forking(r)'
  BY <1>1, <1>2 DEF TypeOK, Forking
<1>7. \A r \in Procs : Requesting(r)' /\ Released(r)'
  BY <1>1, <1>3
  DEF TypeOK, Requesting, Released, OpenReleaseAlone, Opening, Releasing, ValidHasBoth,
      Used
<1>8. ValidHasBoth'
  BY <1>1, <1>3
  DEF TypeOK, ValidHasBoth, Requesting, Released, OpenReleaseAlone, Opening, Releasing,
      FlagsMatchLines
<1>9. OpenReleaseAlone'
  BY <1>1, <1>2, <1>3
  DEF TypeOK, OpenReleaseAlone, Used, Opening, Releasing, Holds, Forking, Released
<1>10. FlagsMatchLines'
  BY <1>1, <1>3
  DEF TypeOK, FlagsMatchLines, Requesting, Released, ValidHasBoth, OpenReleaseAlone,
      Used, Opening, Releasing
<1> QED
  BY <1>4, <1>5, <1>6, <1>7, <1>8, <1>9, <1>10 DEF IInv

LEMMA OpenEndKeeps ==
  ASSUME IInv, NEW p \in Procs, OpenEnd(p)
  PROVE  IInv'
<1> USE DevAssumption DEF OpenEnd, Goto, intVars, refVars, forkVars, Lines
<1>1. TypeOK /\ ValidHasBoth /\ OpenReleaseAlone /\ FlagsMatchLines
  BY DEF IInv
<1>2. \A r \in Procs : Holds(r) /\ Forking(r) /\ Counted(r)
  BY DEF IInv
<1>3. \A r \in Procs : Requesting(r) /\ Released(r)
  BY DEF IInv
<1>4. TypeOK'
  BY <1>1, <1>2 DEF TypeOK, Forking, Counted, PcSteps, Opening, Releasing, Counting
<1>5. \A r \in Procs : Holds(r)' /\ Counted(r)'
  BY <1>1, <1>2 DEF TypeOK, Holds, Forking, Counted
<1>6. \A r \in Procs : Forking(r)'
  BY <1>1, <1>2 DEF TypeOK, Forking
<1>7. \A r \in Procs : Requesting(r)' /\ Released(r)'
  BY <1>1, <1>3
  DEF TypeOK, Requesting, Released, OpenReleaseAlone, Opening, Releasing, ValidHasBoth,
      Used
<1>8. ValidHasBoth'
  BY <1>1, <1>3
  DEF TypeOK, ValidHasBoth, Requesting, Released, OpenReleaseAlone, Opening, Releasing,
      FlagsMatchLines
<1>9. OpenReleaseAlone'
  BY <1>1, <1>2, <1>3
  DEF TypeOK, OpenReleaseAlone, Used, Opening, Releasing, Holds, Forking, Released
<1>10. FlagsMatchLines'
  BY <1>1, <1>3
  DEF TypeOK, FlagsMatchLines, Requesting, Released, ValidHasBoth, OpenReleaseAlone,
      Used, Opening, Releasing
<1> QED
  BY <1>4, <1>5, <1>6, <1>7, <1>8, <1>9, <1>10 DEF IInv

LEMMA IoctlKeeps ==
  ASSUME IInv, NEW p \in Procs, NEW on \in SUBSET Lines, Ioctl(p, on)
  PROVE  IInv'
<1> USE DevAssumption DEF Ioctl, intVars, refVars, forkVars, Lines
<1>1. TypeOK /\ ValidHasBoth /\ OpenReleaseAlone /\ FlagsMatchLines
  BY DEF IInv
<1>2. \A r \in Procs : Holds(r) /\ Forking(r) /\ Counted(r)
  BY DEF IInv
<1>3. \A r \in Procs : Requesting(r) /\ Released(r)
  BY DEF IInv
<1>4. TypeOK'
  BY <1>1, <1>2 DEF TypeOK, Forking, Counted, PcSteps, Opening, Releasing, Counting
<1>5. \A r \in Procs : Holds(r)' /\ Counted(r)'
  BY <1>1, <1>2 DEF TypeOK, Holds, Forking, Counted
<1>6. \A r \in Procs : Forking(r)'
  BY <1>1, <1>2 DEF TypeOK, Forking
<1>7. \A r \in Procs : Requesting(r)' /\ Released(r)'
  BY <1>1, <1>3
  DEF TypeOK, Requesting, Released, OpenReleaseAlone, Opening, Releasing, ValidHasBoth,
      Used
<1>8. ValidHasBoth'
  BY <1>1, <1>3
  DEF TypeOK, ValidHasBoth, Requesting, Released, OpenReleaseAlone, Opening, Releasing,
      FlagsMatchLines
<1>9. OpenReleaseAlone'
  BY <1>1, <1>2, <1>3
  DEF TypeOK, OpenReleaseAlone, Used, Opening, Releasing, Holds, Forking, Released
<1>10. FlagsMatchLines'
  BY <1>1, <1>3
  DEF TypeOK, FlagsMatchLines, Requesting, Released, ValidHasBoth, OpenReleaseAlone,
      Used, Opening, Releasing
<1> QED
  BY <1>4, <1>5, <1>6, <1>7, <1>8, <1>9, <1>10 DEF IInv

LEMMA MmapKeeps ==
  ASSUME IInv, NEW p \in Procs, Mmap(p)
  PROVE  IInv'
<1> USE DevAssumption DEF Mmap, Goto, intVars, refVars, forkVars, Lines
<1>1. TypeOK /\ ValidHasBoth /\ OpenReleaseAlone /\ FlagsMatchLines
  BY DEF IInv
<1>2. \A r \in Procs : Holds(r) /\ Forking(r) /\ Counted(r)
  BY DEF IInv
<1>3. \A r \in Procs : Requesting(r) /\ Released(r)
  BY DEF IInv
<1>4. TypeOK'
  BY <1>1, <1>2 DEF TypeOK, Forking, Counted, PcSteps, Opening, Releasing, Counting
<1>5. \A r \in Procs : Holds(r)' /\ Counted(r)'
  BY <1>1, <1>2 DEF TypeOK, Holds, Forking, Counted
<1>6. \A r \in Procs : Forking(r)'
  BY <1>1, <1>2 DEF TypeOK, Forking
<1>7. \A r \in Procs : Requesting(r)' /\ Released(r)'
  BY <1>1, <1>3
  DEF TypeOK, Requesting, Released, OpenReleaseAlone, Opening, Releasing, ValidHasBoth,
      Used
<1>8. ValidHasBoth'
  BY <1>1, <1>3
  DEF TypeOK, ValidHasBoth, Requesting, Released, OpenReleaseAlone, Opening, Releasing,
      FlagsMatchLines
<1>9. OpenReleaseAlone'
  BY <1>1, <1>2, <1>3
  DEF TypeOK, OpenReleaseAlone, Used, Opening, Releasing, Holds, Forking, Released
<1>10. FlagsMatchLines'
  BY <1>1, <1>3
  DEF TypeOK, FlagsMatchLines, Requesting, Released, ValidHasBoth, OpenReleaseAlone,
      Used, Opening, Releasing
<1> QED
  BY <1>4, <1>5, <1>6, <1>7, <1>8, <1>9, <1>10 DEF IInv

LEMMA MM_OpenKeeps ==
  ASSUME IInv, NEW p \in Procs, MM_Open(p)
  PROVE  IInv'
<1> USE DevAssumption DEF MM_Open, Load, Store, Goto, intVars, refVars, forkVars, Lines
<1>1. TypeOK /\ ValidHasBoth /\ OpenReleaseAlone /\ FlagsMatchLines
  BY DEF IInv
<1>2. \A r \in Procs : Holds(r) /\ Forking(r) /\ Counted(r)
  BY DEF IInv
<1>3. \A r \in Procs : Requesting(r) /\ Released(r)
  BY DEF IInv
<1>4. TypeOK'
  <2>1. u32MM' \in Nat /\ val' \in [Procs -> Nat] /\ vmas' \in [Procs -> Nat]
    BY <1>1, <1>2 DEF TypeOK, Holds, Counted
  <2>2. \E s \in PcSteps : pc' = [pc EXCEPT ![p] = s]
    BY <1>1 DEF TypeOK, PcSteps, Counting, Releasing
  <2>3. pc' \in [Procs -> PcSteps]
    BY <1>1, <2>2 DEF TypeOK
  <2> QED
    BY <1>1, <2>1, <2>3 DEF TypeOK
<1>5. \A r \in Procs : Holds(r)' /\ Counted(r)'
  BY <1>1, <1>2 DEF TypeOK, Holds, Forking, Counted
<1>6. \A r \in Procs : Forking(r)'
  BY <1>1, <1>2 DEF TypeOK, Forking
<1>7. \A r \in Procs : Requesting(r)' /\ Released(r)'
  <2>1. /\ regFlags' = regFlags /\ lines' = lines /\ intValid' = intValid
        /\ s32Err' = s32Err /\ qValid' = qValid
    OBVIOUS
  <2>2. ASSUME NEW r \in Procs, pc'[r] \notin {"run", "incW", "forkW", "fork", "decW", "fput"}
        PROVE  pc'[r] = pc[r]
    BY <1>1, <2>2 DEF TypeOK
  <2> QED
    BY <1>3, <2>1, <2>2 DEF Requesting, Released
<1>8. ValidHasBoth'
  BY <1>1, <1>3
  DEF TypeOK, ValidHasBoth, Requesting, Released, OpenReleaseAlone, Opening, Releasing,
      FlagsMatchLines
<1>9. OpenReleaseAlone'
  BY <1>1, <1>2, <1>3
  DEF TypeOK, OpenReleaseAlone, Used, Opening, Releasing, Holds, Forking, Released
<1>10. FlagsMatchLines'
  BY <1>1, <1>3
  DEF TypeOK, FlagsMatchLines, Requesting, Released, ValidHasBoth, OpenReleaseAlone,
      Used, Opening, Releasing
<1> QED
  BY <1>4, <1>5, <1>6, <1>7, <1>8, <1>9, <1>10 DEF IInv

LEMMA ForkKeeps ==
  ASSUME IInv, NEW p \in Procs, Fork(p)
  PROVE  IInv'
<1> USE DevAssumption DEF Fork, Goto, intVars, refVars, forkVars, Lines
<1>1. TypeOK /\ ValidHasBoth /\ OpenReleaseAlone /\ FlagsMatchLines
  BY DEF IInv
<1>2. \A r \in Procs : Holds(r) /\ Forking(r) /\ Counted(r)
  BY DEF IInv
<1>3. \A r \in Procs : Requesting(r) /\ Released(r)
  BY DEF IInv
<1>4. TypeOK'
  BY <1>1, <1>2 DEF TypeOK, Forking, Counted, PcSteps, Opening, Releasing, Counting
<1>5. \A r \in Procs : Holds(r)' /\ Counted(r)'
  BY <1>1, <1>2 DEF TypeOK, Holds, Forking, Counted
<1>6. \A r \in Procs : Forking(r)'
  BY <1>1, <1>2 DEF TypeOK, Forking
<1>7. \A r \in Procs : Requesting(r)' /\ Released(r)'
  BY <1>1, <1>3
  DEF TypeOK, Requesting, Released, OpenReleaseAlone, Opening, Releasing, ValidHasBoth,
      Used
<1>8. ValidHasBoth'
  BY <1>1, <1>3
  DEF TypeOK, ValidHasBoth, Requesting, Released, OpenReleaseAlone, Opening, Releasing,
      FlagsMatchLines
<1>9. OpenReleaseAlone'
  BY <1>1, <1>2, <1>3
  DEF TypeOK, OpenReleaseAlone, Used, Opening, Releasing, Holds, Forking, Released
<1>10. FlagsMatchLines'
  BY <1>1, <1>3
  DEF TypeOK, FlagsMatchLines, Requesting, Released, ValidHasBoth, OpenReleaseAlone,
      Used, Opening, Releasing
<1> QED
  BY <1>4, <1>5, <1>6, <1>7, <1>8, <1>9, <1>10 DEF IInv

LEMMA ForkVmaKeeps ==
  ASSUME IInv, NEW p \in Procs, ForkVma(p)
  PROVE  IInv'
<1> USE DevAssumption DEF ForkVma, Goto, intVars, refVars, forkVars, Lines
<1>1. TypeOK /\ ValidHasBoth /\ OpenReleaseAlone /\ FlagsMatchLines
  BY DEF IInv
<1>2. \A r \in Procs : Holds(r) /\ Forking(r) /\ Counted(r)
  BY DEF IInv
<1>3. \A r \in Procs : Requesting(r) /\ Released(r)
  BY DEF IInv
<1>4. TypeOK'
  BY <1>1, <1>2 DEF TypeOK, Forking, Counted, PcSteps, Opening, Releasing, Counting
<1>5. \A r \in Procs : Holds(r)' /\ Counted(r)'
  BY <1>1, <1>2 DEF TypeOK, Holds, Forking, Counted
<1>6. \A r \in Procs : Forking(r)'
  BY <1>1, <1>2 DEF TypeOK, Forking
<1>7. \A r \in Procs : Requesting(r)' /\ Released(r)'
  BY <1>1, <1>3
  DEF TypeOK, Requesting, Released, OpenReleaseAlone, Opening, Releasing, ValidHasBoth,
      Used
<1>8. ValidHasBoth'
  BY <1>1, <1>3
  DEF TypeOK, ValidHasBoth, Requesting, Released, OpenReleaseAlone, Opening, Releasing,
      FlagsMatchLines
<1>9. OpenReleaseAlone'
  BY <1>1, <1>2, <1>3
  DEF TypeOK, OpenReleaseAlone, Used, Opening, Releasing, Holds, Forking, Released
<1>10. FlagsMatchLines'
  BY <1>1, <1>3
  DEF TypeOK, FlagsMatchLines, Requesting, Released, ValidHasBoth, OpenReleaseAlone,
      Used, Opening, Releasing
<1> QED
  BY <1>4, <1>5, <1>6, <1>7, <1>8, <1>9, <1>10 DEF IInv

LEMMA ForkEndKeeps ==
  ASSUME IInv, NEW p \in Procs, ForkEnd(p)
  PROVE  IInv'
<1> USE DevAssumption DEF ForkEnd, intVars, refVars, forkVars, Lines
<1>1. TypeOK /\ ValidHasBoth /\ OpenReleaseAlone /\ FlagsMatchLines
  BY DEF IInv
<1>2. \A r \in Procs : Holds(r) /\ Forking(r) /\ Counted(r)
  BY DEF IInv
<1>3. \A r \in Procs : Requesting(r) /\ Released(r)
  BY DEF IInv
<1>4. TypeOK'
  BY <1>1, <1>2 DEF TypeOK, Forking, Counted, PcSteps, Opening, Releasing, Counting
<1>5. \A r \in Procs : Holds(r)' /\ Counted(r)'
  BY <1>1, <1>2 DEF TypeOK, Holds, Forking, Counted
<1>6. \A r \in Procs : Forking(r)'
  BY <1>1, <1>2 DEF TypeOK, Forking
<1>0. /\ child \in Procs /\ pc[child] = "unborn"
      /\ \A r \in Procs : pc'[r] = IF r \in {p, child} THEN "run" ELSE pc[r]
  BY <1>1, <1>2 DEF TypeOK, Forking
<1>7. \A r \in Procs : Requesting(r)' /\ Released(r)'
  BY <1>1, <1>3, <1>0
  DEF TypeOK, Requesting, Released, OpenReleaseAlone, Opening, Releasing, ValidHasBoth,
      Used
<1>8. ValidHasBoth'
  BY <1>1, <1>3, <1>0
  DEF TypeOK, ValidHasBoth, Requesting, Released, OpenReleaseAlone, Opening, Releasing,
      FlagsMatchLines
<1>9. OpenReleaseAlone'
  BY <1>1, <1>2, <1>3, <1>0
  DEF TypeOK, OpenReleaseAlone, Used, Opening, Releasing, Holds, Forking, Released
<1>10. FlagsMatchLines'
  BY <1>1, <1>3, <1>0
  DEF TypeOK, FlagsMatchLines, Requesting, Released, ValidHasBoth, OpenReleaseAlone,
      Used, Opening, Releasing
<1> QED
  BY <1>4, <1>5, <1>6, <1>7, <1>8, <1>9, <1>10 DEF IInv

LEMMA MunmapKeeps ==
  ASSUME IInv, NEW p \in Procs, Munmap(p)
  PROVE  IInv'
<1> USE DevAssumption DEF Munmap, Goto, intVars, refVars, forkVars, Lines
<1>1. TypeOK /\ ValidHasBoth /\ OpenReleaseAlone /\ FlagsMatchLines
  BY DEF IInv
<1>2. \A r \in Procs : Holds(r) /\ Forking(r) /\ Counted(r)
  BY DEF IInv
<1>3. \A r \in Procs : Requesting(r) /\ Released(r)
  BY DEF IInv
<1>4. TypeOK'
  BY <1>1, <1>2 DEF TypeOK, Forking, Counted, PcSteps, Opening, Releasing, Counting
<1>5. \A r \in Procs : Holds(r)' /\ Counted(r)'
  BY <1>1, <1>2 DEF TypeOK, Holds, Forking, Counted
<1>6. \A r \in Procs : Forking(r)'
  BY <1>1, <1>2 DEF TypeOK, Forking
<1>7. \A r \in Procs : Requesting(r)' /\ Released(r)'
  BY <1>1, <1>3
  DEF TypeOK, Requesting, Released, OpenReleaseAlone, Opening, Releasing, ValidHasBoth,
      Used
<1>8. ValidHasBoth'
  BY <1>1, <1>3
  DEF TypeOK, ValidHasBoth, Requesting, Released, OpenReleaseAlone, Opening, Releasing,
      FlagsMatchLines
<1>9. OpenReleaseAlone'
  BY <1>1, <1>2, <1>3
  DEF TypeOK, OpenReleaseAlone, Used, Opening, Releasing, Holds, Forking, Released
<1>10. FlagsMatchLines'
  BY <1>1, <1>3
  DEF TypeOK, FlagsMatchLines, Requesting, Released, ValidHasBoth, OpenReleaseAlone,
      Used, Opening, Releasing
<1> QED
  BY <1>4, <1>5, <1>6, <1>7, <1>8, <1>9, <1>10 DEF IInv

LEMMA MM_CloseKeeps ==
  ASSUME IInv, NEW p \in Procs, MM_Close(p)
  PROVE  IInv'
<1> USE DevAssumption DEF MM_Close, Load, Store, Goto, intVars, refVars, forkVars, Lines
<1>1. TypeOK /\ ValidHasBoth /\ OpenReleaseAlone /\ FlagsMatchLines
  BY DEF IInv
<1>2. \A r \in Procs : Holds(r) /\ Forking(r) /\ Counted(r)
  BY DEF IInv
<1>3. \A r \in Procs : Requesting(r) /\ Released(r)
  BY DEF IInv
<1>4. TypeOK'
  <2>1. u32MM' \in Nat /\ val' \in [Procs -> Nat] /\ vmas' \in [Procs -> Nat]
    BY <1>1, <1>2 DEF TypeOK, Holds, Counted
  <2>2. \E s \in PcSteps : pc' = [pc EXCEPT ![p] = s]
    BY <1>1 DEF TypeOK, PcSteps, Counting, Releasing
  <2>3. pc' \in [Procs -> PcSteps]
    BY <1>1, <2>2 DEF TypeOK
  <2> QED
    BY <1>1, <2>1, <2>3 DEF TypeOK
<1>5. \A r \in Procs : Holds(r)' /\ Counted(r)'
  BY <1>1, <1>2 DEF TypeOK, Holds, Forking, Counted
<1>6. \A r \in Procs : Forking(r)'
  BY <1>1, <1>2 DEF TypeOK, Forking
<1>7. \A r \in Procs : Requesting(r)' /\ Released(r)'
  <2>1. /\ regFlags' = regFlags /\ lines' = lines /\ intValid' = intValid
        /\ s32Err' = s32Err /\ qValid' = qValid
    OBVIOUS
  <2>2. ASSUME NEW r \in Procs, pc'[r] \notin {"run", "incW", "forkW", "fork", "decW", "fput"}
        PROVE  pc'[r] = pc[r]
    BY <1>1, <2>2 DEF TypeOK
  <2> QED
    BY <1>3, <2>1, <2>2 DEF Requesting, Released
<1>8. ValidHasBoth'
  BY <1>1, <1>3
  DEF TypeOK, ValidHasBoth, Requesting, Released, OpenReleaseAlone, Opening, Releasing,
      FlagsMatchLines
<1>9. OpenReleaseAlone'
  BY <1>1, <1>2, <1>3
  DEF TypeOK, OpenReleaseAlone, Used, Opening, Releasing, Holds, Forking, Released
<1>10. FlagsMatchLines'
  BY <1>1, <1>3
  DEF TypeOK, FlagsMatchLines, Requesting, Released, ValidHasBoth, OpenReleaseAlone,
      Used, Opening, Releasing
<1> QED
  BY <1>4, <1>5, <1>6, <1>7, <1>8, <1>9, <1>10 DEF IInv

LEMMA FputKeeps ==
  ASSUME IInv, NEW p \in Procs, Fput(p)
  PROVE  IInv'
<1> USE DevAssumption DEF Fput, Drop, Goto, intVars, refVars, forkVars, Lines
<1>1. TypeOK /\ ValidHasBoth /\ OpenReleaseAlone /\ FlagsMatchLines
  BY DEF IInv
<1>2. \A r \in Procs : Holds(r) /\ Forking(r) /\ Counted(r)
  BY DEF IInv
<1>3. \A r \in Procs : Requesting(r) /\ Released(r)
  BY DEF IInv
<1>4. TypeOK'
  <2>1. u32MM' \in Nat /\ val' \in [Procs -> Nat] /\ vmas' \in [Procs -> Nat]
    BY <1>1, <1>2 DEF TypeOK, Holds, Counted
  <2>2. \E s \in PcSteps : pc' = [pc EXCEPT ![p] = s]
    BY <1>1 DEF TypeOK, PcSteps, Counting, Releasing
  <2>3. pc' \in [Procs -> PcSteps]
    BY <1>1, <2>2 DEF TypeOK
  <2> QED
    BY <1>1, <2>1, <2>3 DEF TypeOK
<1>5. \A r \in Procs : Holds(r)' /\ Counted(r)'
  BY <1>1, <1>2 DEF TypeOK, Holds, Forking, Counted
<1>6. \A r \in Procs : Forking(r)'
  BY <1>1, <1>2 DEF TypeOK, Forking
<1>7. \A r \in Procs : Requesting(r)' /\ Released(r)'
  BY <1>1, <1>3
  DEF TypeOK, Requesting, Released, OpenReleaseAlone, Opening, Releasing, ValidHasBoth,
      Used
<1>8. ValidHasBoth'
  BY <1>1, <1>3
  DEF TypeOK, ValidHasBoth, Requesting, Released, OpenReleaseAlone, Opening, Releasing,
      FlagsMatchLines
<1>9. OpenReleaseAlone'
  BY <1>1, <1>2, <1>3
  DEF TypeOK, OpenReleaseAlone, Used, Opening, Releasing, Holds, Forking, Released
<1>10. FlagsMatchLines'
  BY <1>1, <1>3
  DEF TypeOK, FlagsMatchLines, Requesting, Released, ValidHasBoth, OpenReleaseAlone,
      Used, Opening, Releasing
<1> QED
  BY <1>4, <1>5, <1>6, <1>7, <1>8, <1>9, <1>10 DEF IInv

LEMMA CloseKeeps ==
  ASSUME IInv, NEW p \in Procs, Close(p)
  PROVE  IInv'
<1> USE DevAssumption DEF Close, Drop, Goto, intVars, refVars, forkVars, Lines
<1>1. TypeOK /\ ValidHasBoth /\ OpenReleaseAlone /\ FlagsMatchLines
  BY DEF IInv
<1>2. \A r \in Procs : Holds(r) /\ Forking(r) /\ Counted(r)
  BY DEF IInv
<1>3. \A r \in Procs : Requesting(r) /\ Released(r)
  BY DEF IInv
<1>4. TypeOK'
  BY <1>1, <1>2 DEF TypeOK, Forking, Counted, PcSteps, Opening, Releasing, Counting
<1>5. \A r \in Procs : Holds(r)' /\ Counted(r)'
  BY <1>1, <1>2 DEF TypeOK, Holds, Forking, Counted
<1>6. \A r \in Procs : Forking(r)'
  BY <1>1, <1>2 DEF TypeOK, Forking
<1>7. \A r \in Procs : Requesting(r)' /\ Released(r)'
  BY <1>1, <1>3
  DEF TypeOK, Requesting, Released, OpenReleaseAlone, Opening, Releasing, ValidHasBoth,
      Used
<1>8. ValidHasBoth'
  BY <1>1, <1>3
  DEF TypeOK, ValidHasBoth, Requesting, Released, OpenReleaseAlone, Opening, Releasing,
      FlagsMatchLines
<1>9. OpenReleaseAlone'
  BY <1>1, <1>2, <1>3
  DEF TypeOK, OpenReleaseAlone, Used, Opening, Releasing, Holds, Forking, Released
<1>10. FlagsMatchLines'
  BY <1>1, <1>3
  DEF TypeOK, FlagsMatchLines, Requesting, Released, ValidHasBoth, OpenReleaseAlone,
      Used, Opening, Releasing
<1> QED
  BY <1>4, <1>5, <1>6, <1>7, <1>8, <1>9, <1>10 DEF IInv

LEMMA ReleaseCheckKeeps ==
  ASSUME IInv, NEW p \in Procs, ReleaseCheck(p)
  PROVE  IInv'
<1> USE DevAssumption DEF ReleaseCheck, Goto, intVars, refVars, forkVars, Lines
<1>1. TypeOK /\ ValidHasBoth /\ OpenReleaseAlone /\ FlagsMatchLines
  BY DEF IInv
<1>2. \A r \in Procs : Holds(r) /\ Forking(r) /\ Counted(r)
  BY DEF IInv
<1>3. \A r \in Procs : Requesting(r) /\ Released(r)
  BY DEF IInv
<1>4. TypeOK'
  BY <1>1, <1>2 DEF TypeOK, Forking, Counted, PcSteps, Opening, Releasing, Counting
<1>5. \A r \in Procs : Holds(r)' /\ Counted(r)'
  BY <1>1, <1>2 DEF TypeOK, Holds, Forking, Counted
<1>6. \A r \in Procs : Forking(r)'
  BY <1>1, <1>2 DEF TypeOK, Forking
<1>7. \A r \in Procs : Requesting(r)' /\ Released(r)'
  BY <1>1, <1>3
  DEF TypeOK, Requesting, Released, OpenReleaseAlone, Opening, Releasing, ValidHasBoth,
      Used
<1>8. ValidHasBoth'
  BY <1>1, <1>3
  DEF TypeOK, ValidHasBoth, Requesting, Released, OpenReleaseAlone, Opening, Releasing,
      FlagsMatchLines
<1>9. OpenReleaseAlone'
  BY <1>1, <1>2, <1>3
  DEF TypeOK, OpenReleaseAlone, Used, Opening, Releasing, Holds, Forking, Released
<1>10. FlagsMatchLines'
  BY <1>1, <1>3
  DEF TypeOK, FlagsMatchLines, Requesting, Released, ValidHasBoth, OpenReleaseAlone,
      Used, Opening, Releasing
<1> QED
  BY <1>4, <1>5, <1>6, <1>7, <1>8, <1>9, <1>10 DEF IInv

LEMMA ReleaseDisableKeeps ==
  ASSUME IInv, NEW p \in Procs, ReleaseDisable(p)
  PROVE  IInv'
<1> USE DevAssumption DEF ReleaseDisable, Goto, intVars, refVars, forkVars, Lines
<1>1. TypeOK /\ ValidHasBoth /\ OpenReleaseAlone /\ FlagsMatchLines
  BY DEF IInv
<1>2. \A r \in Procs : Holds(r) /\ Forking(r) /\ Counted(r)
  BY DEF IInv
<1>3. \A r \in Procs : Requesting(r) /\ Released(r)
  BY DEF IInv
<1>4. TypeOK'
  BY <1>1, <1>2 DEF TypeOK, Forking, Counted, PcSteps, Opening, Releasing, Counting
<1>5. \A r \in Procs : Holds(r)' /\ Counted(r)'
  BY <1>1, <1>2 DEF TypeOK, Holds, Forking, Counted
<1>6. \A r \in Procs : Forking(r)'
  BY <1>1, <1>2 DEF TypeOK, Forking
<1>7. \A r \in Procs : Requesting(r)' /\ Released(r)'
  BY <1>1, <1>3
  DEF TypeOK, Requesting, Released, OpenReleaseAlone, Opening, Releasing, ValidHasBoth,
      Used
<1>8. ValidHasBoth'
  BY <1>1, <1>3
  DEF TypeOK, ValidHasBoth, Requesting, Released, OpenReleaseAlone, Opening, Releasing,
      FlagsMatchLines
<1>9. OpenReleaseAlone'
  BY <1>1, <1>2, <1>3
  DEF TypeOK, OpenReleaseAlone, Used, Opening, Releasing, Holds, Forking, Released
<1>10. FlagsMatchLines'
  BY <1>1, <1>3
  DEF TypeOK, FlagsMatchLines, Requesting, Released, ValidHasBoth, OpenReleaseAlone,
      Used, Opening, Releasing
<1> QED
  BY <1>4, <1>5, <1>6, <1>7, <1>8, <1>9, <1>10 DEF IInv

LEMMA ReleaseFlagsKeeps ==
  ASSUME IInv, NEW p \in Procs, ReleaseFlags(p)
  PROVE  IInv'
<1> USE DevAssumption DEF ReleaseFlags, Goto, intVars, refVars, forkVars, Lines
<1>1. TypeOK /\ ValidHasBoth /\ OpenReleaseAlone /\ FlagsMatchLines
  BY DEF IInv
<1>2. \A r \in Procs : Holds(r) /\ Forking(r) /\ Counted(r)
  BY DEF IInv
<1>3. \A r \in Procs : Requesting(r) /\ Released(r)
  BY DEF IInv
<1>4. TypeOK'
  BY <1>1, <1>2 DEF TypeOK, Forking, Counted, PcSteps, Opening, Releasing, Counting
<1>5. \A r \in Procs : Holds(r)' /\ Counted(r)'
  BY <1>1, <1>2 DEF TypeOK, Holds, Forking, Counted
<1>6. \A r \in Procs : Forking(r)'
  BY <1>1, <1>2 DEF TypeOK, Forking
<1>7. \A r \in Procs : Requesting(r)' /\ Released(r)'
  BY <1>1, <1>3
  DEF TypeOK, Requesting, Released, OpenReleaseAlone, Opening, Releasing, ValidHasBoth,
      Used
<1>8. ValidHasBoth'
  BY <1>1, <1>3
  DEF TypeOK, ValidHasBoth, Requesting, Released, OpenReleaseAlone, Opening, Releasing,
      FlagsMatchLines
<1>9. OpenReleaseAlone'
  BY <1>1, <1>2, <1>3
  DEF TypeOK, OpenReleaseAlone, Used, Opening, Releasing, Holds, Forking, Released
<1>10. FlagsMatchLines'
  BY <1>1, <1>3
  DEF TypeOK, FlagsMatchLines, Requesting, Released, ValidHasBoth, OpenReleaseAlone,
      Used, Opening, Releasing
<1> QED
  BY <1>4, <1>5, <1>6, <1>7, <1>8, <1>9, <1>10 DEF IInv

LEMMA FreeIrqKeeps ==
  ASSUME IInv, NEW p \in Procs, NEW line \in Lines, FreeIrq(p, line)
  PROVE  IInv'
<1> USE DevAssumption DEF FreeIrq, Goto, intVars, refVars, forkVars, Lines
<1>1. TypeOK /\ ValidHasBoth /\ OpenReleaseAlone /\ FlagsMatchLines
  BY DEF IInv
<1>2. \A r \in Procs : Holds(r) /\ Forking(r) /\ Counted(r)
  BY DEF IInv
<1>3. \A r \in Procs : Requesting(r) /\ Released(r)
  BY DEF IInv
<1>4. TypeOK'
  BY <1>1, <1>2 DEF TypeOK, Forking, Counted, PcSteps, Opening, Releasing, Counting
<1>5. \A r \in Procs : Holds(r)' /\ Counted(r)'
  BY <1>1, <1>2 DEF TypeOK, Holds, Forking, Counted
<1>6. \A r \in Procs : Forking(r)'
  BY <1>1, <1>2 DEF TypeOK, Forking
<1>0. /\ \A r \in Procs \ {p} : pc[r] \notin Opening \cup Releasing
      /\ pc[p] = "freePM" => lines' = {} /\ regFlags = {}
  BY <1>1, <1>3 DEF TypeOK, OpenReleaseAlone, Releasing, Released
<1>7. \A r \in Procs : Requesting(r)' /\ Released(r)'
  BY <1>1, <1>3, <1>0
  DEF TypeOK, Requesting, Released, OpenReleaseAlone, Opening, Releasing, ValidHasBoth,
      Used
<1>8. ValidHasBoth'
  BY <1>1, <1>3, <1>0
  DEF TypeOK, ValidHasBoth, Requesting, Released, OpenReleaseAlone, Opening, Releasing,
      FlagsMatchLines
<1>9. OpenReleaseAlone'
  BY <1>1, <1>2, <1>3, <1>0
  DEF TypeOK, OpenReleaseAlone, Used, Opening, Releasing, Holds, Forking, Released
<1>10. FlagsMatchLines'
  BY <1>1, <1>3, <1>0
  DEF TypeOK, FlagsMatchLines, Requesting, Released, ValidHasBoth, OpenReleaseAlone,
      Used, Opening, Releasing
<1> QED
  BY <1>4, <1>5, <1>6, <1>7, <1>8, <1>9, <1>10 DEF IInv

LEMMA ReleaseQueueKeeps ==
  ASSUME IInv, NEW p \in Procs, ReleaseQueue(p)
  PROVE  IInv'
<1> USE DevAssumption DEF ReleaseQueue, Goto, intVars, refVars, forkVars, Lines
<1>1. TypeOK /\ ValidHasBoth /\ OpenReleaseAlone /\ FlagsMatchLines
  BY DEF IInv
<1>2. \A r \in Procs : Holds(r) /\ Forking(r) /\ Counted(r)
  BY DEF IInv
<1>3. \A r \in Procs : Requesting(r) /\ Released(r)
  BY DEF IInv
<1>4. TypeOK'
  BY <1>1, <1>2 DEF TypeOK, Forking, Counted, PcSteps, Opening, Releasing, Counting
<1>5. \A r \in Procs : Holds(r)' /\ Counted(r)'
  BY <1>1, <1>2 DEF TypeOK, Holds, Forking, Counted
<1>6. \A r \in Procs : Forking(r)'
  BY <1>1, <1>2 DEF TypeOK, Forking
<1>7. \A r \in Procs : Requesting(r)' /\ Released(r)'
  BY <1>1, <1>3
  DEF TypeOK, Requesting, Released, OpenReleaseAlone, Opening, Releasing, ValidHasBoth,
      Used
<1>8. ValidHasBoth'
  BY <1>1, <1>3
  DEF TypeOK, ValidHasBoth, Requesting, Released, OpenReleaseAlone, Opening, Releasing,
      FlagsMatchLines
<1>9. OpenReleaseAlone'
  BY <1>1, <1>2, <1>3
  DEF TypeOK, OpenReleaseAlone, Used, Opening, Releasing, Holds, Forking, Released
<1>10. FlagsMatchLines'
  BY <1>1, <1>3
  DEF TypeOK, FlagsMatchLines, Requesting, Released, ValidHasBoth, OpenReleaseAlone,
      Used, Opening, Releasing
<1> QED
  BY <1>4, <1>5, <1>6, <1>7, <1>8, <1>9, <1>10 DEF IInv

LEMMA ReleaseEndKeeps ==
  ASSUME IInv, NEW p \in Procs, ReleaseEnd(p)
  PROVE  IInv'
<1> USE DevAssumption DEF ReleaseEnd, Goto, intVars, refVars, forkVars, Lines
<1>1. TypeOK /\ ValidHasBoth /\ OpenReleaseAlone /\ FlagsMatchLines
  BY DEF IInv
<1>2. \A r \in Procs : Holds(r) /\ Forking(r) /\ Counted(r)
  BY DEF IInv
<1>3. \A r \in Procs : Requesting(r) /\ Released(r)
  BY DEF IInv
<1>4. TypeOK'
  BY <1>1, <1>2 DEF TypeOK, Forking, Counted, PcSteps, Opening, Releasing, Counting
<1>5. \A r \in Procs : Holds(r)' /\ Counted(r)'
  BY <1>1, <1>2 DEF TypeOK, Holds, Forking, Counted
<1>6. \A r \in Procs : Forking(r)'
  BY <1>1, <1>2 DEF TypeOK, Forking
<1>7. \A r \in Procs : Requesting(r)' /\ Released(r)'
  BY <1>1, <1>3
  DEF TypeOK, Requesting, Released, OpenReleaseAlone, Opening, Releasing, ValidHasBoth,
      Used
<1>8. ValidHasBoth'
  BY <1>1, <1>3
  DEF TypeOK, ValidHasBoth, Requesting, Released, OpenReleaseAlone, Opening, Releasing,
      FlagsMatchLines
<1>9. OpenReleaseAlone'
  BY <1>1, <1>2, <1>3
  DEF TypeOK, OpenReleaseAlone, Used, Opening, Releasing, Holds, Forking, Released
<1>10. FlagsMatchLines'
  BY <1>1, <1>3
  DEF TypeOK, FlagsMatchLines, Requesting, Released, ValidHasBoth, OpenReleaseAlone,
      Used, Opening, Releasing
<1> QED
  BY <1>4, <1>5, <1>6, <1>7, <1>8, <1>9, <1>10 DEF IInv

LEMMA EnterKeeps ==
  ASSUME IInv, NEW p \in Procs, Enter(p), ~UNCHANGED vars
  PROVE  IInv'
<1>1. \/ Open(p) \/ Mmap(p) \/ Fork(p) \/ Munmap(p) \/ Close(p)
      \/ \E on \in SUBSET Lines : Ioctl(p, on)
  BY DEF Enter, OpenRefused, ioctl_ENABLE, ioctl_DISABLE, Lines
<1> QED
  BY <1>1, OpenKeeps, MmapKeeps, ForkKeeps, MunmapKeeps, CloseKeeps, IoctlKeeps

LEMMA InsideKeeps ==
  ASSUME IInv, NEW p \in Procs, Inside(p)
  PROVE  IInv'
<1>1. ASSUME NEW line \in Lines,
             \/ Request(p, line) \/ RequestFails(p, line)
             \/ Requested(p, line) \/ FreeIrq(p, line)
      PROVE  IInv'
  BY <1>1, RequestKeeps, RequestFailsKeeps, RequestedKeeps, FreeIrqKeeps
<1>2. CASE InitEnd(p) \/ OpenEnd(p) \/ MM_Open(p) \/ ForkVma(p) \/ ForkEnd(p)
  BY <1>2, InitEndKeeps, OpenEndKeeps, MM_OpenKeeps, ForkVmaKeeps, ForkEndKeeps
<1>3. CASE MM_Close(p) \/ Fput(p) \/ ReleaseCheck(p) \/ ReleaseDisable(p)
  BY <1>3, MM_CloseKeeps, FputKeeps, ReleaseCheckKeeps, ReleaseDisableKeeps
<1>4. CASE ReleaseFlags(p) \/ ReleaseQueue(p) \/ ReleaseEnd(p)
  BY <1>4, ReleaseFlagsKeeps, ReleaseQueueKeeps, ReleaseEndKeeps
<1> QED
  BY <1>1, <1>2, <1>3, <1>4 DEF Inside

LEMMA UnchangedKeeps ==
  ASSUME IInv, UNCHANGED vars
  PROVE  IInv'
<1> USE DEF vars, intVars, refVars, forkVars
<1>1. TypeOK' /\ ValidHasBoth' /\ OpenReleaseAlone' /\ FlagsMatchLines'
  BY DEF IInv, TypeOK, ValidHasBoth, OpenReleaseAlone, FlagsMatchLines, Used
<1>2. \A p \in Procs : Holds(p)' /\ Forking(p)' /\ Counted(p)'
  BY DEF IInv, Holds, Forking, Counted
<1>3. \A p \in Procs : Requesting(p)' /\ Released(p)'
  BY DEF IInv, Requesting, Released
<1> QED
  BY <1>1, <1>2, <1>3 DEF IInv

LEMMA NextIInv ==
  ASSUME IInv, [Next]_vars
  PROVE  IInv'
<1>1. CASE UNCHANGED vars
  BY <1>1, UnchangedKeeps
<1>2. ASSUME NEW p \in Procs, Enter(p), ~UNCHANGED vars PROVE IInv'
  BY <1>2, EnterKeeps
<1>3. ASSUME NEW p \in Procs, Inside(p) PROVE IInv'
  BY <1>3, InsideKeeps
<1> QED
  BY <1>1, <1>2, <1>3 DEF Next

-----------------------------------------------------------------------------
(* The count of the mappings.                                               *)

\* u32MM does not count yet a mapping that mmap or fork has made and
\* _MDrv_MSMAILBOX_MM_Open is to count, and no more one that munmap is dropping.
Uncounted(p) ==
  \/ pc[p] \in {"incR", "incW", "fput"}
  \/ p = child /\ \E q \in Procs : pc[q] \in {"forkR", "forkW"}

CountedVmas(p) == vmas[p] - IF Uncounted(p) THEN 1 ELSE 0

\* The mappings that u32MM counts, the i-th of a process p as <<p, i>>.
Mapped == UNION {{p} \X (1 .. CountedVmas(p)) : p \in Procs}

\* Without a lost update u32MM is their number.
Tally == IsFiniteSet(Mapped) /\ (~lost => u32MM = Cardinality(Mapped))

\* The ring is there while the file is in use, so that no munmap passes by the
\* test of u32MM.
RingThere == bOpen /\ (\A p \in Procs : pc[p] # "closed") => qValid

\* While a mapping is copied the child has it.
ChildMaps == \A p \in Procs : pc[p] \in {"forkR", "forkW"} => vmas[child] > 0

Counts == Tally /\ RingThere /\ ChildMaps /\ AssertNeedsRace

-----------------------------------------------------------------------------
(* Lemmas: what a step does to the set of the counted mappings.             *)

LEMMA InMapped ==
  ASSUME NEW x
  PROVE  x \in Mapped <=> \E p \in Procs : \E i \in 1 .. CountedVmas(p) : x = <<p, i>>
  BY DEF Mapped

\* No process has fewer mappings than are not counted.
LEMMA CountedVmasType ==
  ASSUME IInv, Counts, NEW p \in Procs
  PROVE  CountedVmas(p) \in Nat /\ vmas[p] \in Nat
<1>1. vmas[p] \in Nat
  BY DEF IInv, TypeOK
<1>2. Uncounted(p) => vmas[p] > 0
  BY DEF IInv, Holds, Counts, ChildMaps, Uncounted
<1> QED
  BY <1>1, <1>2 DEF CountedVmas

\* A process that forks is not its child, which does not run, and forks alone.
LEMMA OneForks ==
  ASSUME IInv, NEW p \in Procs, pc[p] \in {"fork", "forkR", "forkW"}
  PROVE  /\ child \in Procs /\ child # p /\ pc[child] = "unborn"
         /\ \A r \in Procs \ {p} : pc[r] \notin {"fork", "forkR", "forkW"}
  BY DEF IInv, Forking

LEMMA SameMapped ==
  ASSUME \A r \in Procs : CountedVmas(r)' = CountedVmas(r)
  PROVE  Mapped' = Mapped
  BY DEF Mapped

LEMMA MoreMapped ==
  ASSUME IInv, Counts, NEW p \in Procs, CountedVmas(p)' = CountedVmas(p) + 1,
         \A r \in Procs \ {p} : CountedVmas(r)' = CountedVmas(r)
  PROVE  IsFiniteSet(Mapped)' /\ Cardinality(Mapped)' = Cardinality(Mapped) + 1
<1> DEFINE new == <<p, CountedVmas(p) + 1>>
<1>1. CountedVmas(p) \in Nat
  BY CountedVmasType
<1>2. new \notin Mapped
  BY <1>1, InMapped
<1>3. \A x : x \in Mapped' <=>
        \E r \in Procs : \E i \in 1 .. CountedVmas(r)' : x = <<r, i>>
  BY DEF Mapped
<1>4. 1 .. CountedVmas(p)' = (1 .. CountedVmas(p)) \union {CountedVmas(p) + 1}
  BY <1>1
<1>5. \A x : x \in Mapped' <=> x \in Mapped \/ x = new
  BY <1>3, <1>4, InMapped
<1>6. Mapped' = Mapped \union {new}
  BY <1>5
<1>7. IsFiniteSet(Mapped)
  BY DEF Counts, Tally
<1> QED
  BY <1>2, <1>6, <1>7, FS_AddElement

LEMMA FewerMapped ==
  ASSUME IInv, Counts, NEW p \in Procs, CountedVmas(p) > 0,
         CountedVmas(p)' = CountedVmas(p) - 1,
         \A r \in Procs \ {p} : CountedVmas(r)' = CountedVmas(r)
  PROVE  /\ IsFiniteSet(Mapped)' /\ Cardinality(Mapped)' = Cardinality(Mapped) - 1
         /\ Cardinality(Mapped) > 0
<1> DEFINE old == <<p, CountedVmas(p)>>
<1>1. CountedVmas(p) \in Nat
  BY CountedVmasType
<1>2. old \in Mapped
  BY <1>1, InMapped
<1>3. \A x : x \in Mapped' <=>
        \E r \in Procs : \E i \in 1 .. CountedVmas(r)' : x = <<r, i>>
  BY DEF Mapped
<1>4. 1 .. CountedVmas(p)' = (1 .. CountedVmas(p)) \ {CountedVmas(p)}
  BY <1>1
<1>5. \A x : x \in Mapped' <=> x \in Mapped /\ x # old
  BY <1>3, <1>4, InMapped
<1>6. Mapped' = Mapped \ {old}
  BY <1>5
<1>7. IsFiniteSet(Mapped)
  BY DEF Counts, Tally
<1>8. Cardinality(Mapped) \in Nat /\ Cardinality(Mapped) # 0
  BY <1>2, <1>7, FS_EmptySet, FS_CardinalityType
<1> QED
  BY <1>2, <1>6, <1>7, <1>8, FS_RemoveElement

\* Most steps move one process between points where the same mappings count.
Quiet(p) ==
  /\ u32MM' = u32MM /\ lost' = lost /\ vmas' = vmas /\ child' = child
  /\ \E to \in PcSteps :
       /\ pc' = [pc EXCEPT ![p] = to]
       /\ pc[p] \in {"incR", "incW", "fput"} <=> to \in {"incR", "incW", "fput"}
       /\ pc[p] \in {"forkR", "forkW"} <=> to \in {"forkR", "forkW"}

LEMMA QuietCounts ==
  ASSUME IInv, Counts, NEW p \in Procs, Quiet(p)
  PROVE  Tally' /\ ChildMaps'
<1>1. /\ \A q \in Procs : pc'[q] \in {"incR", "incW", "fput"}
                            <=> pc[q] \in {"incR", "incW", "fput"}
      /\ \A q \in Procs : pc'[q] \in {"forkR", "forkW"} <=> pc[q] \in {"forkR", "forkW"}
  BY DEF Quiet, IInv, TypeOK
<1>2. \A r \in Procs : Uncounted(r)' <=> Uncounted(r)
  BY <1>1 DEF Quiet, Uncounted
<1>3. \A r \in Procs : CountedVmas(r)' = CountedVmas(r)
  BY <1>2 DEF Quiet, CountedVmas
<1>4. Mapped' = Mapped
  BY <1>3, SameMapped
<1> QED
  BY <1>1, <1>4 DEF Quiet, Counts, Tally, ChildMaps

LEMMA QuietSteps ==
  ASSUME IInv, NEW p \in Procs,
         \/ Open(p) \/ ioctl_ENABLE(p) \/ ioctl_DISABLE(p) \/ Munmap(p) \/ Close(p)
         \/ \E line \in Lines : \/ Request(p, line) \/ RequestFails(p, line)
                                \/ Requested(p, line) \/ FreeIrq(p, line)
         \/ InitEnd(p) \/ OpenEnd(p)
         \/ Load(p, "incR", "incW") \/ Load(p, "forkR", "forkW") \/ Load(p, "decR", "decW")
         \/ ReleaseCheck(p) \/ ReleaseDisable(p) \/ ReleaseFlags(p) \/ ReleaseQueue(p)
         \/ ReleaseEnd(p)
  PROVE  Quiet(p)
<1> USE DEF Quiet, Goto, PcSteps, Opening, Releasing, Counting, refVars, forkVars
<1>1. pc \in [Procs -> PcSteps]
  BY DEF IInv, TypeOK
<1>2. CASE Open(p) \/ Munmap(p)
  BY <1>2 DEF Open, Munmap
<1>3. CASE Close(p)
  <2>1. \E to \in {"release", "run"} : pc[p] = "run" /\ pc' = [pc EXCEPT ![p] = to]
    BY <1>3 DEF Close, Drop
  <2>2. /\ u32MM' = u32MM /\ lost' = lost /\ vmas' = vmas /\ child' = child
    BY <1>3 DEF Close
  <2> QED
    BY <2>1, <2>2
<1>4. CASE ioctl_ENABLE(p) \/ ioctl_DISABLE(p)
  <2>1. pc' = [pc EXCEPT ![p] = pc[p]] /\ pc[p] \in PcSteps
    BY <1>1, <1>4 DEF ioctl_ENABLE, ioctl_DISABLE, Ioctl
  <2> QED
    BY <1>4, <2>1 DEF ioctl_ENABLE, ioctl_DISABLE, Ioctl
<1>5. ASSUME NEW line \in Lines, Request(p, line) \/ RequestFails(p, line)
      PROVE  Quiet(p)
  BY <1>5 DEF Request, RequestFails, Step, After
<1>6. ASSUME NEW line \in Lines, Requested(p, line) \/ FreeIrq(p, line)
      PROVE  Quiet(p)
  BY <1>6 DEF Requested, FreeIrq, Step, After
<1>7. CASE InitEnd(p) \/ OpenEnd(p)
  BY <1>7 DEF InitEnd, OpenEnd
<1>8. CASE Load(p, "incR", "incW") \/ Load(p, "forkR", "forkW") \/ Load(p, "decR", "decW")
  BY <1>8 DEF Load
<1>9. CASE ReleaseCheck(p) \/ ReleaseDisable(p) \/ ReleaseFlags(p)
  BY <1>9 DEF ReleaseCheck, ReleaseDisable, ReleaseFlags
<1>10. CASE ReleaseQueue(p) \/ ReleaseEnd(p)
  BY <1>10 DEF ReleaseQueue, ReleaseEnd
<1> QED
  BY <1>2, <1>3, <1>4, <1>5, <1>6, <1>7, <1>8, <1>9, <1>10

\* The others: mmap and munmap make and drop an uncounted mapping, and so does
\* fork, for the child.
LEMMA MmapFputCounts ==
  ASSUME IInv, Counts, NEW p \in Procs, Mmap(p) \/ Fput(p)
  PROVE  Tally' /\ ChildMaps'
<1>1. /\ pc \in [Procs -> PcSteps] /\ vmas \in [Procs -> Nat]
      /\ child' = child /\ u32MM' = u32MM /\ lost' = lost
  BY DEF IInv, TypeOK, Mmap, Fput, forkVars
<1>2. /\ pc[p] \in {"run", "fput"} /\ pc'[p] \notin {"forkR", "forkW"}
      /\ \A r \in Procs \ {p} : pc'[r] = pc[r]
  BY <1>1 DEF Mmap, Fput, Drop, Goto
<1>3. \A q \in Procs : pc[q] \in {"forkR", "forkW"} => child # p
  BY <1>2, OneForks
<1>4. \A r \in Procs \ {p} : Uncounted(r)' <=> Uncounted(r)
  BY <1>1, <1>2 DEF Uncounted
<1>5. CASE Mmap(p)
  <2>1. vmas'[p] = vmas[p] + 1 /\ \A r \in Procs \ {p} : vmas'[r] = vmas[r]
    BY <1>1, <1>5 DEF Mmap
  <2>2. Uncounted(p)' /\ ~Uncounted(p)
    BY <1>1, <1>2, <1>3, <1>5 DEF Uncounted, Mmap, Goto
  <2>3. \A r \in Procs : CountedVmas(r)' = CountedVmas(r)
    BY <1>1, <1>4, <2>1, <2>2 DEF CountedVmas
  <2>4. ChildMaps'
    BY <1>1, <1>2, <2>1, OneForks DEF Counts, ChildMaps
  <2> QED
    BY <1>1, <2>3, <2>4, SameMapped DEF Counts, Tally
<1>6. CASE Fput(p)
  <2>1. vmas'[p] = vmas[p] - 1 /\ \A r \in Procs \ {p} : vmas'[r] = vmas[r]
    BY <1>1, <1>6 DEF Fput
  <2>2. ~Uncounted(p)' /\ Uncounted(p)
    BY <1>1, <1>2, <1>3, <1>6 DEF Uncounted, Fput, Drop, Goto
  <2>3. \A r \in Procs : CountedVmas(r)' = CountedVmas(r)
    BY <1>1, <1>4, <2>1, <2>2 DEF CountedVmas
  <2>4. ChildMaps'
    BY <1>1, <1>2, <1>3, <2>1, OneForks DEF Counts, ChildMaps
  <2> QED
    BY <1>1, <2>3, <2>4, SameMapped DEF Counts, Tally
<1> QED
  BY <1>5, <1>6

LEMMA ForkCounts ==
  ASSUME IInv, Counts, NEW p \in Procs, Fork(p) \/ ForkVma(p) \/ ForkEnd(p)
  PROVE  Tally' /\ ChildMaps'
<1>1. /\ pc \in [Procs -> PcSteps] /\ vmas \in [Procs -> Nat]
      /\ u32MM' = u32MM /\ lost' = lost
  BY DEF IInv, TypeOK, Fork, ForkVma, ForkEnd, refVars
<1>2. NoProc \notin Procs
  BY DevAssumption
<1>3. CASE Fork(p)
  <2>1. \A q \in Procs : pc[q] \notin {"forkR", "forkW"}
    BY <1>2, <1>3, OneForks DEF Fork
  <2>2. \A q \in Procs : /\ pc'[q] \notin {"forkR", "forkW"}
                         /\ pc'[q] \in {"incR", "incW", "fput"}
                              <=> pc[q] \in {"incR", "incW", "fput"}
    BY <1>1, <1>3, <2>1 DEF Fork, Goto
  <2>3. \A r \in Procs : Uncounted(r)' <=> Uncounted(r)
    BY <2>1, <2>2 DEF Uncounted
  <2>4. vmas' = vmas
    BY <1>3 DEF Fork
  <2> QED
    BY <1>1, <2>2, <2>3, <2>4, SameMapped DEF Counts, Tally, ChildMaps, CountedVmas
<1>4. CASE ForkVma(p)
  <2>1. /\ child \in Procs /\ child # p /\ pc[child] = "unborn" /\ child' = child
        /\ \A q \in Procs \ {p} : pc[q] \notin {"forkR", "forkW"}
        /\ pc[p] = "fork"
    BY <1>4, OneForks DEF ForkVma, Goto
  <2>2. pc'[p] = "forkR" /\ \A r \in Procs \ {p} : pc'[r] = pc[r]
    BY <1>1, <1>4 DEF ForkVma, Goto
  <2>3. vmas'[child] = vmas[child] + 1 /\ \A r \in Procs \ {child} : vmas'[r] = vmas[r]
    BY <1>1, <1>4, <2>1 DEF ForkVma
  <2>4. \A r \in Procs \ {child} : Uncounted(r)' <=> Uncounted(r)
    BY <2>1, <2>2 DEF Uncounted
  <2>5. Uncounted(child)' /\ ~Uncounted(child)
    BY <2>1, <2>2 DEF Uncounted
  <2>6. \A r \in Procs : CountedVmas(r)' = CountedVmas(r)
    BY <1>1, <2>1, <2>3, <2>4, <2>5 DEF CountedVmas
  <2>7. ChildMaps'
    BY <1>1, <2>1, <2>3 DEF ChildMaps
  <2> QED
    BY <1>1, <2>6, <2>7, SameMapped DEF Counts, Tally
<1>5. CASE ForkEnd(p)
  <2>1. /\ child \in Procs /\ child # p /\ pc[child] = "unborn"
        /\ \A q \in Procs \ {p} : pc[q] \notin {"forkR", "forkW"}
        /\ pc[p] = "fork" /\ vmas' = vmas
    BY <1>5, OneForks DEF ForkEnd, refVars
  <2>2. /\ pc'[p] = "run" /\ pc'[child] = "run"
        /\ \A r \in Procs \ {p, child} : pc'[r] = pc[r]
    BY <1>1, <1>5, <2>1 DEF ForkEnd
  <2>3. \A r \in Procs : Uncounted(r)' <=> Uncounted(r)
    BY <2>1, <2>2 DEF Uncounted
  <2> QED
    BY <1>1, <2>1, <2>2, <2>3, SameMapped DEF Counts, Tally, ChildMaps, CountedVmas
<1> QED
  BY <1>3, <1>4, <1>5

\* The stores count one mapping more or one less.
LEMMA StoreOpenCounts ==
  ASSUME IInv, Counts, NEW p \in Procs,
         \/ Store(p, "incW", "run", val[p] + 1) \/ Store(p, "forkW", "fork", val[p] + 1)
  PROVE  Tally' /\ ChildMaps'
<1> USE DEF Store, refVars, forkVars, Goto
<1>1. /\ pc \in [Procs -> PcSteps] /\ vmas \in [Procs -> Nat] /\ u32MM \in Nat
      /\ vmas' = vmas /\ child' = child /\ (~lost' => ~lost /\ u32MM' = u32MM + 1)
  BY DEF IInv, TypeOK
<1>2. /\ pc[p] \in {"incW", "forkW"} /\ pc'[p] \in {"run", "fork"}
      /\ \A r \in Procs \ {p} : pc'[r] = pc[r]
  BY <1>1
<1>3. \E c \in Procs : /\ Uncounted(c) /\ ~Uncounted(c)'
                       /\ \A r \in Procs \ {c} : Uncounted(r)' <=> Uncounted(r)
  <2>1. CASE pc[p] = "incW"
    <3>1. \A q \in Procs : pc[q] \in {"forkR", "forkW"} => child # p
      BY <2>1, OneForks
    <3> QED
      BY <1>1, <1>2, <2>1, <3>1 DEF Uncounted
  <2>2. CASE pc[p] = "forkW"
    <3>1. /\ child \in Procs /\ child # p /\ pc[child] = "unborn"
          /\ \A q \in Procs \ {p} : pc[q] \notin {"forkR", "forkW"}
      BY <2>2, OneForks
    <3>2. Uncounted(child) /\ ~Uncounted(child)'
      BY <1>1, <1>2, <2>2, <3>1 DEF Uncounted
    <3>3. \A r \in Procs \ {child} : Uncounted(r)' <=> Uncounted(r)
      BY <1>1, <1>2, <2>2, <3>1 DEF Uncounted
    <3> QED
      BY <3>1, <3>2, <3>3
  <2> QED
    BY <1>2, <2>1, <2>2
<1>4. PICK c \in Procs : /\ Uncounted(c) /\ ~Uncounted(c)'
                         /\ \A r \in Procs \ {c} : Uncounted(r)' <=> Uncounted(r)
  BY <1>3
<1>5. /\ CountedVmas(c)' = CountedVmas(c) + 1
      /\ \A r \in Procs \ {c} : CountedVmas(r)' = CountedVmas(r)
  BY <1>1, <1>4 DEF CountedVmas
<1>6. IsFiniteSet(Mapped)' /\ Cardinality(Mapped)' = Cardinality(Mapped) + 1
  BY <1>5, MoreMapped
<1>7. Tally'
  BY <1>1, <1>6 DEF Counts, Tally
<1>8. ChildMaps'
  BY <1>1, <1>2 DEF Counts, ChildMaps
<1> QED
  BY <1>7, <1>8

\* Without a lost update nobody finds the count at 0 who has a mapping.
LEMMA StoreCloseCounts ==
  ASSUME IInv, Counts, NEW p \in Procs,
         \/ Store(p, "decR", "fput", u32MM) /\ ~(qValid /\ u32MM > 0)
         \/ Store(p, "decW", "fput", val[p] - 1)
  PROVE  Tally' /\ ChildMaps'
<1> USE DEF Store, refVars, forkVars, Goto
<1>1. /\ pc \in [Procs -> PcSteps] /\ vmas \in [Procs -> Nat] /\ u32MM \in Nat
      /\ vmas' = vmas /\ child' = child
      /\ (~lost' /\ pc[p] = "decW" => ~lost /\ u32MM' = u32MM - 1)
      /\ (~lost' /\ pc[p] = "decR" => ~lost /\ ~(qValid /\ u32MM > 0))
  BY DEF IInv, TypeOK
<1>2. /\ pc[p] \in {"decR", "decW"} /\ pc'[p] = "fput"
      /\ \A r \in Procs \ {p} : pc'[r] = pc[r]
  BY <1>1
<1>3. Uncounted(p)' /\ \A r \in Procs \ {p} : Uncounted(r)' <=> Uncounted(r)
  BY <1>1, <1>2 DEF Uncounted
<1>4. ~Uncounted(p)
  <2>1. \A q \in Procs : pc[q] \in {"forkR", "forkW"} => child # p
    BY <1>2, OneForks
  <2> QED
    BY <1>2, <2>1 DEF Uncounted
<1>5. vmas[p] > 0
  BY <1>2 DEF IInv, Holds
<1>6. /\ CountedVmas(p) > 0 /\ CountedVmas(p)' = CountedVmas(p) - 1
      /\ \A r \in Procs \ {p} : CountedVmas(r)' = CountedVmas(r)
  BY <1>1, <1>3, <1>4, <1>5 DEF CountedVmas
<1>7. /\ IsFiniteSet(Mapped)' /\ Cardinality(Mapped)' = Cardinality(Mapped) - 1
      /\ Cardinality(Mapped) > 0
  BY <1>6, FewerMapped
<1>8. qValid
  <2>1. Used
    BY <1>5 DEF Used
  <2> QED
    BY <2>1 DEF IInv, OpenReleaseAlone, Releasing, Counts, RingThere
<1>9. Tally'
  BY <1>1, <1>2, <1>7, <1>8 DEF Counts, Tally
<1>10. ChildMaps'
  BY <1>1, <1>2 DEF Counts, ChildMaps
<1> QED
  BY <1>9, <1>10

\* Whatever step a process takes, u32MM stays the number of mappings.
LEMMA TallyKept ==
  ASSUME IInv, Counts, NEW p \in Procs, Enter(p) \/ Inside(p), ~UNCHANGED vars
  PROVE  Tally' /\ ChildMaps'
<1>1. CASE Mmap(p) \/ Fput(p)
  BY <1>1, MmapFputCounts
<1>2. CASE Fork(p) \/ ForkVma(p) \/ ForkEnd(p)
  BY <1>2, ForkCounts
<1>3. CASE MM_Open(p)
  BY <1>3, QuietSteps, QuietCounts, StoreOpenCounts DEF MM_Open
<1>4. CASE MM_Close(p)
  BY <1>4, QuietSteps, QuietCounts, StoreCloseCounts DEF MM_Close
<1>5. CASE Quiet(p)
  BY <1>5, QuietCounts
<1>6. CASE Enter(p)
  BY <1>1, <1>2, <1>5, <1>6, QuietSteps DEF Enter, OpenRefused
<1>7. CASE Inside(p)
  BY <1>1, <1>2, <1>3, <1>4, <1>5, <1>7, QuietSteps DEF Inside
<1> QED
  BY <1>6, <1>7

\* opMBInit makes the ring and opMBRelease frees it when nobody uses the file.
LEMMA RingThereKept ==
  ASSUME IInv, Counts, NEW p \in Procs, Enter(p) \/ Inside(p)
  PROVE  RingThere'
<1> USE DEF RingThere, Goto, intVars, refVars, forkVars
<1>1. /\ pc \in [Procs -> PcSteps] /\ RingThere
      /\ \A q \in Procs : pc[q] \in Releasing =>
           \A r \in Procs \ {q} : pc[r] \notin Releasing
  BY DEF IInv, TypeOK, Counts, OpenReleaseAlone
<1>2. CASE OpenRefused(p)
  BY <1>1, <1>2 DEF OpenRefused, vars
<1>3. CASE Open(p)
  BY <1>3 DEF Open
<1>4. CASE ReleaseQueue(p)
  BY <1>1, <1>4 DEF ReleaseQueue
<1>5. CASE ReleaseEnd(p)
  BY <1>5 DEF ReleaseEnd
<1>6. ASSUME qValid' = qValid, bOpen' = bOpen,
             \A r \in Procs : pc[r] = "closed" => pc'[r] = "closed"
      PROVE  RingThere'
  BY <1>1, <1>6
<1>7. CASE ioctl_ENABLE(p) \/ ioctl_DISABLE(p)
  BY <1>1, <1>6, <1>7 DEF ioctl_ENABLE, ioctl_DISABLE, Ioctl
<1>8. CASE Mmap(p) \/ Fork(p) \/ Munmap(p) \/ Close(p)
  BY <1>1, <1>6, <1>8 DEF Mmap, Fork, Munmap, Close, Drop
<1>9. ASSUME NEW line \in Lines,
             \/ Request(p, line) \/ RequestFails(p, line)
             \/ Requested(p, line) \/ FreeIrq(p, line)
      PROVE  RingThere'
  BY <1>1, <1>6, <1>9 DEF Request, RequestFails, Requested, FreeIrq, Step
<1>10. CASE InitEnd(p) \/ OpenEnd(p) \/ ForkVma(p)
  BY <1>1, <1>6, <1>10 DEF InitEnd, OpenEnd, ForkVma
<1>11. CASE ForkEnd(p)
  <2>1. pc[p] # "closed" /\ pc[child] # "closed"
    BY <1>11, OneForks DEF ForkEnd
  <2> QED
    BY <1>1, <1>6, <1>11, <2>1 DEF ForkEnd
<1>12. CASE MM_Open(p) \/ MM_Close(p)
  BY <1>1, <1>6, <1>12 DEF MM_Open, MM_Close, Load, Store
<1>13. CASE Fput(p) \/ ReleaseCheck(p)
  BY <1>1, <1>6, <1>13 DEF Fput, Drop, ReleaseCheck
<1>14. CASE ReleaseDisable(p) \/ ReleaseFlags(p)
  BY <1>1, <1>6, <1>14 DEF ReleaseDisable, ReleaseFlags
<1> QED
  BY <1>2, <1>3, <1>4, <1>5, <1>7, <1>8, <1>9, <1>10, <1>11, <1>12, <1>13, <1>14
  DEF Enter, Inside

\* Only the assertion of release stops a process, and only with u32MM # 0.
LEMMA BugNeedsCount ==
  ASSUME IInv, NEW p \in Procs, Enter(p) \/ Inside(p),
         NEW q \in Procs, pc'[q] = "bug", pc[q] # "bug"
  PROVE  q = p /\ ReleaseCheck(p) /\ u32MM # 0
<1> USE DEF Goto
<1>1. pc \in [Procs -> PcSteps]
  BY DEF IInv, TypeOK
<1>2. ~OpenRefused(p) /\ ~Open(p) /\ ~ioctl_ENABLE(p) /\ ~ioctl_DISABLE(p)
  BY <1>1 DEF OpenRefused, vars, Open, ioctl_ENABLE, ioctl_DISABLE, Ioctl
<1>3. ~Mmap(p) /\ ~Fork(p) /\ ~Munmap(p) /\ ~Close(p)
  BY <1>1 DEF Mmap, Fork, Munmap, Close, Drop
<1>4. \A line \in Lines : /\ ~Request(p, line) /\ ~RequestFails(p, line)
                          /\ ~Requested(p, line) /\ ~FreeIrq(p, line)
  BY <1>1 DEF Request, RequestFails, Requested, FreeIrq, Step, After
<1>5. ~InitEnd(p) /\ ~OpenEnd(p) /\ ~MM_Open(p) /\ ~ForkVma(p) /\ ~MM_Close(p)
  BY <1>1 DEF InitEnd, OpenEnd, MM_Open, ForkVma, MM_Close, Load, Store
<1>6. ~ForkEnd(p)
  BY <1>1, OneForks DEF ForkEnd
<1>7. ~Fput(p) /\ ~ReleaseDisable(p) /\ ~ReleaseFlags(p)
  BY <1>1 DEF Fput, Drop, ReleaseDisable, ReleaseFlags
<1>8. ~ReleaseQueue(p) /\ ~ReleaseEnd(p)
  BY <1>1 DEF ReleaseQueue, ReleaseEnd
<1>9. ReleaseCheck(p)
  BY <1>2, <1>3, <1>4, <1>5, <1>6, <1>7, <1>8 DEF Enter, Inside
<1> QED
  BY <1>1, <1>9 DEF ReleaseCheck

\* A lost update stays one.
LEMMA LostStays ==
  ASSUME NEW p \in Procs, Enter(p) \/ Inside(p)
  PROVE  lost => lost'
  BY DEF Enter, Inside, OpenRefused, vars, Open, ioctl_ENABLE, ioctl_DISABLE, Ioctl,
         Mmap, Fork, Munmap, Close, Request, RequestFails, Requested, FreeIrq,
         InitEnd, OpenEnd, MM_Open, Load, Store, ForkVma, ForkEnd, MM_Close, Fput,
         ReleaseCheck, ReleaseDisable, ReleaseFlags, ReleaseQueue, ReleaseEnd

LEMMA NextCounts ==
  ASSUME IInv, Counts, [Next]_vars
  PROVE  Counts'
<1>1. CASE UNCHANGED vars
  <2>1. \A r \in Procs : CountedVmas(r)' = CountedVmas(r)
    BY <1>1 DEF vars, refVars, forkVars, CountedVmas, Uncounted
  <2>2. Mapped' = Mapped
    BY <2>1, SameMapped
  <2> QED
    BY <1>1, <2>2
    DEF vars, refVars, forkVars, Counts, Tally, RingThere, ChildMaps, AssertNeedsRace,
        AssertHolds
<1>2. ASSUME NEW p \in Procs, Enter(p) \/ Inside(p), ~UNCHANGED vars
      PROVE  Counts'
  <2>1. Tally' /\ ChildMaps'
    BY <1>2, TallyKept
  <2>2. RingThere'
    BY <1>2, RingThereKept
  <2>3. AssertNeedsRace'
    <3>1. SUFFICES ASSUME ~lost', NEW q \in Procs, pc'[q] = "bug" PROVE FALSE
      BY DEF AssertNeedsRace, AssertHolds
    <3>2. ~lost /\ pc[q] # "bug"
      BY <1>2, <3>1, LostStays DEF Counts, AssertNeedsRace, AssertHolds
    <3>3. pc[p] = "release" /\ u32MM # 0
      BY <1>2, <3>1, <3>2, BugNeedsCount DEF ReleaseCheck, Goto
    <3>4. \A r \in Procs : vmas[r] = 0
      BY <3>3 DEF IInv, TypeOK, OpenReleaseAlone, Releasing, Used
    <3>5. Mapped = {}
      BY <3>4, InMapped DEF CountedVmas
    <3> QED
      BY <3>2, <3>3, <3>5, FS_EmptySet DEF Counts, Tally
  <2> QED
    BY <2>1, <2>2, <2>3 DEF Counts
<1> QED
  BY <1>1, <1>2 DEF Next

LEMMA InitCounts == ASSUME Init PROVE Counts
<1> USE DEF Init
<1>1. \A p \in Procs : vmas[p] = 0 /\ pc[p] \in {"run", "unborn"}
  OBVIOUS
<1>2. Mapped = {}
  BY <1>1, InMapped DEF CountedVmas
<1>3. Tally
  BY <1>2, FS_EmptySet DEF Tally
<1>4. RingThere /\ ChildMaps /\ AssertNeedsRace
  BY <1>1 DEF RingThere, ChildMaps, AssertNeedsRace, AssertHolds
<1> QED
  BY <1>3, <1>4 DEF Counts

-----------------------------------------------------------------------------
(* Theorems.                                                                *)

\* The invariant of open, mmap, fork, close and release together.
THEOREM Inductive == Spec => []IInv
<1>1. Init => IInv
  BY InitIInv
<1>2. IInv /\ [Next]_vars => IInv'
  BY NextIInv
<1> QED
  BY <1>1, <1>2, PTL DEF Spec

\* Every variable keeps its type; u32MM is never counted down below 0.
THEOREM TypeCorrect == Spec => []TypeOK
<1>1. IInv => TypeOK
  BY DEF IInv
<1> QED
  BY <1>1, Inductive, PTL

\* _MDrv_MSMAILBOX_Open and _MDrv_MSMAILBOX_Release exclude each other and every
\* user of the file, for any number of processes and forks.
THEOREM Alone == Spec => []OpenReleaseAlone
<1>1. IInv => OpenReleaseAlone
  BY DEF IInv
<1> QED
  BY <1>1, Inductive, PTL

\* opInit and opRelease keep the register flags true to the lines, whichever
\* request_irq failed before.
THEOREM FlagsTrue == Spec => []FlagsMatchLines
<1>1. IInv => FlagsMatchLines
  BY DEF IInv
<1> QED
  BY <1>1, Inductive, PTL

\* While no store of u32MM was lost it is the number of mappings that
\* _MDrv_MSMAILBOX_MM_Open and _MDrv_MSMAILBOX_MM_Close have counted.
THEOREM CountTrue == Spec => []Counts
<1>1. Init => Counts
  BY InitCounts
<1>2. IInv /\ Counts /\ [Next]_vars => Counts'
  BY NextCounts
<1> QED
  BY <1>1, <1>2, Inductive, PTL DEF Spec

\* So the assertion of _MDrv_MSMAILBOX_Release fails only after a lost update,
\* however many processes map, fork, unmap and close.
THEOREM NeedsRace == Spec => []AssertNeedsRace
<1>1. Counts => AssertNeedsRace
  BY DEF Counts
<1> QED
  BY <1>1, CountTrue, PTL
=============================================================================
