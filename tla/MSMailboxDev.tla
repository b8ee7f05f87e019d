---------------------------- MODULE MSMailboxDev ----------------------------
(***************************************************************************)
(* The life of the MSMAILBOX device: open, mmap, fork, munmap, close and   *)
(* the release that the last reference to the open file brings about, with *)
(* the registration of its two interrupt lines.                            *)
(*                                                                         *)
(* open runs under the big kernel lock but may sleep in request_irq;       *)
(* release, mmap and the vma callbacks run without it, and the preemptible *)
(* kernel may switch process between any two of their memory accesses.  A  *)
(* process stands for its threads: its mmap_sem admits one mmap or munmap  *)
(* at a time, and fork holds it while it copies the mappings.              *)
(***************************************************************************)
EXTENDS Naturals, FiniteSets

CONSTANTS
  Procs,        \* the processes
  Alive,        \* those alive at the start; the others may be forked
  MaxVmas,      \* bound: mappings a process has at a time
  NoProc        \* not a process

ASSUME DevAssumption ==
  /\ Alive \subseteq Procs /\ NoProc \notin Procs
  /\ MaxVmas \in Nat

VARIABLES
  \* MSMailBoxDev and the managers
  bOpen, u32MM,
  qValid,       \* msmailbox_queue_mgr.bValid
  intValid,     \* INT_MGR.bValid
  regFlags,     \* the lines whose u32..._TO_MIPSIntRegister is 1
  s32Err,       \* local of opInit: "undef" or "ok"
  \* the kernel
  lines,        \* the lines the driver's handler is installed on
  enabled,      \* the lines that are unmasked
  fd,           \* the processes that have the file open
  vmas,         \* how many mappings each process has
  \* the processes
  pc, val,      \* next step; u32MM as loaded by an increment or decrement
  todo, child,  \* fork: mappings left to copy, the child
  \* history
  lost          \* a store of u32MM overwrote one made since its load

intVars == <<intValid, regFlags, s32Err, lines, enabled>>
refVars == <<fd, vmas>>
forkVars == <<todo, child>>
vars == <<bOpen, u32MM, qValid, intVars, refVars, pc, val, forkVars, lost>>

Lines == {"AEON", "PM"}

Opening   == {"reqAEON", "reqPM", "initEnd", "openEnd"}
Releasing == {"release", "disable", "flags", "freeAEON", "freePM", "queue", "closed"}
Counting  == {"incR", "incW", "forkR", "forkW", "decR", "decW", "fput"}
PcSteps == {"unborn", "run", "fork", "bug"} \union Opening \union Releasing
             \union Counting

Init ==
  /\ bOpen = FALSE /\ u32MM = 0 /\ qValid = FALSE
  /\ intValid = FALSE /\ regFlags = {} /\ s32Err = "undef"
  /\ lines = {} /\ enabled = {}
  /\ fd = {} /\ vmas = [p \in Procs |-> 0]
  /\ pc = [p \in Procs |-> IF p \in Alive THEN "run" ELSE "unborn"]
  /\ val = [p \in Procs |-> 0]
  /\ todo = 0 /\ child = NoProc /\ lost = FALSE

Goto(p, from, to) == pc[p] = from /\ pc' = [pc EXCEPT ![p] = to]

-----------------------------------------------------------------------------
(* _MDrv_MSMAILBOX_Open.                                                    *)

\* With bOpen set it returns -EFAULT and changes nothing.
OpenRefused(p) == pc[p] = "run" /\ bOpen /\ UNCHANGED vars

Open(p) ==
  /\ Goto(p, "run", IF intValid THEN "openEnd" ELSE "reqAEON")
  /\ ~bOpen
  /\ bOpen' = TRUE
  /\ qValid' = TRUE
  /\ s32Err' = "undef"
  /\ UNCHANGED <<u32MM, intValid, regFlags, lines, enabled, refVars, val, forkVars, lost>>

\* opInit, one line: request_irq installs the handler and unmasks the line.
Step(line) == IF line = "AEON" THEN "reqAEON" ELSE "reqPM"
After(line) == IF line = "AEON" THEN "reqPM" ELSE "initEnd"

Request(p, line) ==
  /\ Goto(p, Step(line), After(line))
  /\ line \notin regFlags
  /\ s32Err' = "ok"
  /\ regFlags' = regFlags \union {line}
  /\ lines' = lines \union {line}
  /\ enabled' = enabled \union {line}
  /\ UNCHANGED <<bOpen, u32MM, qValid, intValid, refVars, val, forkVars, lost>>

\* request_irq fails: opInit returns, and open goes on.
RequestFails(p, line) ==
  /\ Goto(p, Step(line), "openEnd")
  /\ line \notin regFlags
  /\ UNCHANGED <<bOpen, u32MM, qValid, intVars, refVars, val, forkVars, lost>>

\* The flag is 1: disable_irq, enable_irq.
Requested(p, line) ==
  /\ Goto(p, Step(line), After(line))
  /\ line \in regFlags
  /\ enabled' = enabled \union {line}
  /\ UNCHANGED <<bOpen, u32MM, qValid, intValid, regFlags, s32Err, lines, refVars,
                 val, forkVars, lost>>

\* The end of opInit: bValid from s32Err, whatever an unset s32Err holds, and
\* opDisable of both lines.
InitEnd(p) ==
  /\ Goto(p, "initEnd", "openEnd")
  /\ intValid' \in IF s32Err = "ok" THEN {TRUE} ELSE BOOLEAN
  /\ enabled' = IF intValid' THEN enabled \ Lines ELSE enabled
  /\ UNCHANGED <<bOpen, u32MM, qValid, regFlags, s32Err, lines, refVars, val,
                 forkVars, lost>>

\* opDisable(CPUID_AEON) and return 0.
OpenEnd(p) ==
  /\ Goto(p, "openEnd", "run")
  /\ enabled' = IF intValid THEN enabled \ {"AEON"} ELSE enabled
  /\ fd' = fd \union {p}
  /\ UNCHANGED <<bOpen, u32MM, qValid, intValid, regFlags, s32Err, lines, vmas, val,
                 forkVars, lost>>

\* ioctl_ENABLE enables both lines, ioctl_DISABLE disables AEON and enables PM.
Ioctl(p, on) ==
  /\ pc[p] = "run" /\ p \in fd
  /\ intValid
  /\ enabled' = on
  /\ UNCHANGED <<bOpen, u32MM, qValid, intValid, regFlags, s32Err, lines, refVars,
                 pc, val, forkVars, lost>>

ioctl_ENABLE(p)  == Ioctl(p, Lines)
ioctl_DISABLE(p) == Ioctl(p, {"PM"})

-----------------------------------------------------------------------------
(* Mappings.  Each holds a reference to the file; u32MM++ and u32MM-- load  *)
(* and store.                                                               *)

\* _MDrv_MSMAILBOX_MM_MMAP refuses with u32MM > 1.
Mmap(p) ==
  /\ Goto(p, "run", "incR")
  /\ p \in fd /\ vmas[p] < MaxVmas
  /\ qValid /\ ~(u32MM > 1)
  /\ vmas' = [vmas EXCEPT ![p] = @ + 1]
  /\ UNCHANGED <<bOpen, u32MM, qValid, intVars, fd, val, forkVars, lost>>

Load(p, from, to) ==
  /\ Goto(p, from, to)
  /\ qValid
  /\ val' = [val EXCEPT ![p] = u32MM]
  /\ UNCHANGED <<bOpen, u32MM, qValid, intVars, refVars, forkVars, lost>>

Store(p, from, to, n) ==
  /\ Goto(p, from, to)
  /\ u32MM' = n
  /\ lost' = (lost \/ (from # "decR" /\ val[p] # u32MM))
  /\ UNCHANGED <<bOpen, qValid, intVars, refVars, val, forkVars>>

\* _MDrv_MSMAILBOX_MM_Open, called by mmap and, for each mapping, by fork.
MM_Open(p) ==
  \/ Load(p, "incR", "incW")  \/ Store(p, "incW", "run", val[p] + 1)
  \/ Load(p, "forkR", "forkW") \/ Store(p, "forkW", "fork", val[p] + 1)

\* fork: the child gets the descriptor, then mapping after mapping, then runs.
Fork(p) ==
  /\ Goto(p, "run", "fork")
  /\ p \in fd \/ vmas[p] > 0
  /\ child = NoProc
  /\ \E c \in Procs : pc[c] = "unborn" /\ child' = c
  /\ fd' = IF p \in fd THEN fd \union {child'} ELSE fd
  /\ todo' = vmas[p]
  /\ UNCHANGED <<bOpen, u32MM, qValid, intVars, vmas, val, lost>>

ForkVma(p) ==
  /\ Goto(p, "fork", "forkR")
  /\ todo > 0
  /\ todo' = todo - 1
  /\ vmas' = [vmas EXCEPT ![child] = @ + 1]
  /\ UNCHANGED <<bOpen, u32MM, qValid, intVars, fd, val, child, lost>>

ForkEnd(p) ==
  /\ pc[p] = "fork" /\ todo = 0
  /\ pc' = [pc EXCEPT ![p] = "run", ![child] = "run"]
  /\ child' = NoProc
  /\ UNCHANGED <<bOpen, u32MM, qValid, intVars, refVars, val, todo, lost>>

Munmap(p) ==
  /\ Goto(p, "run", "decR")
  /\ vmas[p] > 0
  /\ UNCHANGED <<bOpen, u32MM, qValid, intVars, refVars, val, forkVars, lost>>

\* (mutant) the last mapping is not counted down.
MM_CloseOffByOne(p) ==
  \/ Load(p, "decR", "decW") /\ u32MM > 1
  \/ Store(p, "decR", "fput", u32MM) /\ ~(qValid /\ u32MM > 1)
  \/ Store(p, "decW", "fput", val[p] - 1)

\* _MDrv_MSMAILBOX_MM_Close: no decrement with u32MM = 0.
MM_Close(p) ==
  \/ Load(p, "decR", "decW") /\ u32MM > 0
  \/ Store(p, "decR", "fput", u32MM) /\ ~(qValid /\ u32MM > 0)
  \/ Store(p, "decW", "fput", val[p] - 1)

-----------------------------------------------------------------------------
(* The last reference goes: _MDrv_MSMAILBOX_Release.                        *)

\* p drops a reference; the last one out releases.
Drop(p, from) ==
  Goto(p, from, IF fd' = {} /\ \A r \in Procs : vmas'[r] = 0 THEN "release"
                                                             ELSE "run")

Fput(p) ==
  /\ vmas' = [vmas EXCEPT ![p] = @ - 1] /\ UNCHANGED fd
  /\ Drop(p, "fput")
  /\ UNCHANGED <<bOpen, u32MM, qValid, intVars, val, forkVars, lost>>

Close(p) ==
  /\ p \in fd
  /\ fd' = fd \ {p} /\ UNCHANGED vmas
  /\ Drop(p, "run")
  /\ UNCHANGED <<bOpen, u32MM, qValid, intVars, val, forkVars, lost>>

\* (mutant) release clears bOpen first.
ReleaseCheckCloses(p) ==
  /\ Goto(p, "release", IF u32MM = 0 THEN "disable" ELSE "bug")
  /\ bOpen' = FALSE
  /\ UNCHANGED <<u32MM, qValid, intVars, refVars, val, forkVars, lost>>

\* MSMAILBOX_ASSERT(FALSE) with u32MM # 0: BUG() kills the process.
ReleaseCheck(p) ==
  /\ Goto(p, "release", IF u32MM = 0 THEN "disable" ELSE "bug")
  /\ UNCHANGED <<bOpen, u32MM, qValid, intVars, refVars, val, forkVars, lost>>

\* opDisable of both lines; without bValid opRelease has nothing to do.
ReleaseDisable(p) ==
  /\ Goto(p, "disable", IF intValid THEN "flags" ELSE "queue")
  /\ enabled' = IF intValid THEN enabled \ Lines ELSE enabled
  /\ UNCHANGED <<bOpen, u32MM, qValid, intValid, regFlags, s32Err, lines, refVars,
                 val, forkVars, lost>>

\* (mutant) the flags keep their value.
ReleaseKeepsFlags(p) ==
  /\ Goto(p, "flags", "freeAEON")
  /\ UNCHANGED <<bOpen, u32MM, qValid, intVars, refVars, val, forkVars, lost>>

ReleaseFlags(p) ==
  /\ Goto(p, "flags", "freeAEON")
  /\ regFlags' = {}
  /\ UNCHANGED <<bOpen, u32MM, qValid, intValid, s32Err, lines, enabled, refVars,
                 val, forkVars, lost>>

\* free_irq removes the handler and masks the line; it may sleep.
FreeIrq(p, line) ==
  /\ IF line = "AEON" THEN Goto(p, "freeAEON", "freePM") ELSE Goto(p, "freePM", "queue")
  /\ lines' = lines \ {line}
  /\ enabled' = enabled \ {line}
  /\ intValid' = (intValid /\ line # "PM")
  /\ UNCHANGED <<bOpen, u32MM, qValid, regFlags, s32Err, refVars, val, forkVars, lost>>

\* opMBRelease.
ReleaseQueue(p) ==
  /\ Goto(p, "queue", "closed")
  /\ qValid' = FALSE
  /\ UNCHANGED <<bOpen, u32MM, intVars, refVars, val, forkVars, lost>>

\* (mutant) bOpen is left set.
ReleaseEndOpen(p) ==
  /\ Goto(p, "closed", "run")
  /\ UNCHANGED <<bOpen, u32MM, qValid, intVars, refVars, val, forkVars, lost>>

ReleaseEnd(p) ==
  /\ Goto(p, "closed", "run")
  /\ bOpen' = FALSE
  /\ UNCHANGED <<u32MM, qValid, intVars, refVars, val, forkVars, lost>>

Enter(p) == \/ OpenRefused(p) \/ Open(p) \/ ioctl_ENABLE(p)
            \/ ioctl_DISABLE(p) \/ Mmap(p) \/ Fork(p) \/ Munmap(p)
            \/ Close(p)

Inside(p) ==
  \/ \E line \in Lines : \/ Request(p, line) \/ RequestFails(p, line)
                         \/ Requested(p, line) \/ FreeIrq(p, line)
  \/ InitEnd(p) \/ OpenEnd(p) \/ MM_Open(p) \/ ForkVma(p) \/ ForkEnd(p)
  \/ MM_Close(p) \/ Fput(p) \/ ReleaseCheck(p) \/ ReleaseDisable(p)
  \/ ReleaseFlags(p) \/ ReleaseQueue(p) \/ ReleaseEnd(p)

Next == \E p \in Procs : Enter(p) \/ Inside(p)

Spec == Init /\ [][Next]_vars

\* A process inside the driver is scheduled until it is out.
FairSpec == Spec /\ \A p \in Procs : WF_vars(Inside(p))

-----------------------------------------------------------------------------
TypeOK ==
  /\ bOpen \in BOOLEAN /\ qValid \in BOOLEAN /\ intValid \in BOOLEAN
  /\ u32MM \in Nat /\ val \in [Procs -> Nat]
  /\ regFlags \subseteq Lines /\ lines \subseteq Lines /\ enabled \subseteq Lines
  /\ s32Err \in {"undef", "ok"}
  /\ fd \subseteq Procs /\ vmas \in [Procs -> Nat]
  /\ pc \in [Procs -> PcSteps]
  /\ todo \in Nat /\ child \in Procs \union {NoProc}

Used == fd # {} \/ \E p \in Procs : vmas[p] > 0

\* open sets bOpen first and release clears it last: one process at most is in
\* either, nobody holds the file meanwhile, and a closed device has no valid
\* manager left.
OpenReleaseAlone ==
  /\ \A p \in Procs : pc[p] \in Opening \union Releasing =>
       /\ bOpen /\ ~Used
       /\ \A r \in Procs \ {p} : pc[r] \notin Opening \union Releasing
  /\ ~bOpen => ~qValid /\ ~intValid /\ ~Used

\* The register flags tell which lines have the handler, also after an open
\* whose second request_irq failed: no line is requested or freed twice, no line
\* is open without its handler, and opInit never tests an s32Err that no branch
\* has set, as it would with both flags 1.
FlagsMatchLines ==
  /\ (\A p \in Procs : pc[p] \notin {"freeAEON", "freePM"}) => regFlags = lines
  /\ enabled \subseteq lines
  /\ \A p \in Procs : pc[p] = "initEnd" => s32Err = "ok"

\* The MSMAILBOX_ASSERT of release (mdrv_msmailbox_dev.c:586): release is not
\* entered while u32MM says that a mapping is left.
AssertHolds == \A p \in Procs : pc[p] # "bug"

\* A lost update is the only way to the assertion: no order of opens, maps, forks,
\* unmaps, refused calls and closes by itself makes u32MM drift from the mappings.
AssertNeedsRace == ~lost => AssertHolds

\* A device nobody uses any more is closed, and can be opened again, unless a
\* lost update stopped its release at the assertion.
Unused == bOpen /\ ~Used /\ \A p \in Procs : pc[p] \notin Opening
ReleaseCompletes == Unused ~> (~bOpen \/ ~AssertHolds)
=============================================================================
