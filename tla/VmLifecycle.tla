----------------------------- MODULE VmLifecycle -----------------------------
(***************************************************************************)
(* The VM system from P3_VmInit to P3_VmShutdown: phase3a.c, which calls   *)
(* the parts in turn, the init and shutdown functions of phase3c.c and     *)
(* phase3d.c, the fault handler of phase3b.c, and the page tables of the   *)
(* processes and pagers that live in between.                              *)
(*                                                                         *)
(* Phase 3 is built in four stages; a later part is a stub in an earlier   *)
(* stage (p3stubs.c, and the stubs at the end of phase3c/tests): its calls *)
(* succeed and do nothing, P3PageTableAllocateEmpty returns NULL, and the  *)
(* fault handler halts.                                                    *)
(*                                                                         *)
(* Scheduling.  P3_VmInit and P3_VmShutdown are called by P4 or by         *)
(* P3_Startup; the processes of the VM region run between such calls.  As  *)
(* in the tests, P4 has waited for its children when it calls              *)
(* P3_VmShutdown, so the pagers sleep and exit as soon as they are told to *)
(* (FaultService).  A page table is what its entries mean:                 *)
(*   "null"      no table            "empty"    no page in core            *)
(*   "identity"  page x, where in core, is in frame x                      *)
(*   "private"   frames given out by a pager                               *)
(***************************************************************************)
EXTENDS SwapLayout

CONSTANTS
  Procs,       \* pids of the processes that use the VM region
  PagerCounts, \* the `pagers` arguments tried
  MaxInits     \* bound: calls of P3_VmInit

P3_MAX_PAGERS == 3
Pagers == 0 .. P3_MAX_PAGERS - 1

ASSUME ProcsAssumption == Procs \cap Pagers = {}
ASSUME CountsAssumption == PagerCounts \subseteq Int /\ MaxInits \in Nat

VARIABLES
  build,       \* the stage: "a", "b", "c" or "d"
  main,        \* who may call: "P4", then "P3" (P3_Startup), then "done"
  step,        \* the function to be called next, or "idle"
  inits, pagers, result,  \* calls, argument and result of P3_VmInit
  initialized, init,      \* init: the parts whose own flag is set
  intVec,      \* USLOSS_IntVec[USLOSS_MMU_INT]
  mmu,         \* is the MMU on?
  frames,      \* the arrays of phase3c: "none", "live" or "freed"
  swap,        \* the lists of phase3d: "none", "live" or "freed"
  pagerSem,    \* "none", "live" or "freed"
  pageTables,
  alive,       \* the processes and pagers that are there
  mutexes, exclusive,     \* pids with a semaphore, and with a node for it
  crash

initVars == <<build, main, inits, pagers, result, initialized>>
partVars == <<init, intVec, mmu, frames, swap, pagerSem, mutexes, exclusive>>
vars == <<initVars, step, partVars, pageTables, alive, crash, layoutVars>>

HasIdentityHandler == build \in {"b", "c", "d"}
HasPagers == build \in {"c", "d"}
HasSwap == build = "d"

Init == /\ LayoutInit
        /\ build \in {"a", "b", "c", "d"}
        /\ main = "P4" /\ step = "idle" /\ inits = 0 /\ pagers = 0
        /\ result = "none" /\ initialized = FALSE /\ init = {}
        /\ intVec = "none" /\ mmu = FALSE
        /\ frames = "none" /\ swap = "none" /\ pagerSem = "none"
        /\ pageTables = [q \in Procs \cup Pagers |-> "null"]
        /\ alive = {} /\ mutexes = {} /\ exclusive = {}
        /\ crash = "none"

Idle == step = "idle" /\ main # "done" /\ crash = "none"
Calls(f) == step = f /\ crash = "none"

Crash(why) == /\ crash' = why
              /\ UNCHANGED <<initVars, step, partVars, pageTables, alive, layoutVars>>
-----------------------------------------------------------------------------
(* P3_VmInit, one action per function it calls.                            *)

Return(r) == step' = "idle" /\ result' = r

\* The checks before anything is touched.
VmInitRefused(n) ==
  /\ Idle /\ main = "P4" /\ inits < MaxInits /\ inits' = inits + 1
  /\ \/ initialized /\ Return("P3_ALREADY_INITIALIZED")
     \/ ~initialized /\ n \notin 0 .. P3_MAX_PAGERS /\ Return("P3_INVALID_NUM_PAGERS")
  /\ UNCHANGED <<build, main, pagers, initialized, partVars, pageTables, alive,
                 crash, layoutVars>>

\* Mutant: initialized is not set before the parts are.
Ready_Later == initialized' = initialized

Ready == initialized' = TRUE

\* MMUInit: the MMU is on already, or USLOSS refuses the sizes; on any other
\* result of USLOSS_MmuInit than success it halts.
MMUInitFails ==
  \E r \in IF mmu THEN {"P3_ALREADY_INITIALIZED"}
                  ELSE {"P3_INVALID_NUM_PAGES", "P3_INVALID_NUM_FRAMES"} : Return(r)
MMUInitHalts == crash' = "halt"
MMUInit == ~mmu /\ mmu' = TRUE

\* P3_VmInit up to its call of P3FrameInit.
VmInit(n) ==
  /\ Idle /\ main = "P4" /\ inits < MaxInits /\ inits' = inits + 1
  /\ ~initialized /\ n \in 0 .. P3_MAX_PAGERS
  /\ pagers' = n
  /\ pageTables' = [q \in Procs \cup Pagers |-> "null"]
  /\ intVec' = IF HasIdentityHandler THEN "P3PageFaultHandler" ELSE "stub"
  /\ \/ MMUInitFails /\ UNCHANGED <<initialized, mmu, crash>>
     \/ MMUInitHalts /\ UNCHANGED <<initialized, mmu, step, result>>
     \/ MMUInit /\ Ready /\ step' = "P3FrameInit" /\ UNCHANGED <<result, crash>>
  /\ UNCHANGED <<build, main, init, frames, swap, pagerSem, mutexes, exclusive, alive,
                 layoutVars>>

FrameInit ==
  /\ Calls("P3FrameInit") /\ (HasPagers => "frames" \notin init)
  /\ IF HasPagers THEN frames' = "live" /\ init' = init \cup {"frames"}
                  ELSE UNCHANGED <<frames, init>>
  /\ step' = "P3SwapInit"
  /\ UNCHANGED <<initVars, intVec, mmu, swap, pagerSem, mutexes, exclusive, pageTables,
                 alive, crash, layoutVars>>

\* The loop of makeHoldList.
MakeHold == /\ Calls("P3SwapInit") /\ HasSwap /\ "swap" \notin init
            /\ AddHold
            /\ UNCHANGED <<initVars, step, partVars, pageTables, alive, crash>>

\* The rest of P3SwapInit: makeFrameList and the busy flags.
SwapInit ==
  /\ Calls("P3SwapInit")
  /\ HasSwap => "swap" \notin init /\ Len(swapSpace) = Space(geo)
  /\ IF HasSwap THEN swap' = "live" /\ init' = init \cup {"swap"} /\ exclusive' = {}
                ELSE UNCHANGED <<swap, init, exclusive>>
  /\ step' = "P3PagerInit"
  /\ UNCHANGED <<initVars, intVec, mmu, frames, pagerSem, mutexes, pageTables, alive,
                 crash, layoutVars>>

\* Mutant: the handler of phase3b stays installed.
InstallHandler_Not == UNCHANGED intVec

InstallHandler == intVec' = "FaultHandler"

\* Mutant: one pager too many is forked.
Forked_TooMany == 0 .. pagers

Forked == 0 .. pagers - 1

\* Mutant: an empty table although the handler is a stub.
NewTable_Empty == "empty"

\* P3PageTableAllocateEmpty, or PageTableAllocateIdentity when that is a stub.
NewTable == IF HasIdentityHandler THEN "empty" ELSE "identity"

\* P3_AllocatePageTable for new processes S; none before P3_VmInit.
AllocatePageTables(S) ==
  /\ alive' = alive \cup S
  /\ pageTables' = [q \in Procs \cup Pagers |->
                      IF q \in S /\ initialized THEN NewTable ELSE pageTables[q]]

PagerInit ==
  /\ Calls("P3PagerInit") /\ (HasPagers => pagers > 0)
  /\ IF HasPagers
     THEN /\ InstallHandler
          /\ pagerSem' = "live" /\ init' = init \cup {"pagers"}
          /\ AllocatePageTables(Forked)
     ELSE UNCHANGED <<intVec, pagerSem, init, alive, pageTables>>
  /\ Return("P1_SUCCESS")
  /\ UNCHANGED <<build, main, inits, pagers, initialized, mmu, frames, swap, mutexes,
                 exclusive, crash, layoutVars>>

\* A part reports failure and P3_VmInit returns it; what was done stays.
InitFails ==
  /\ \/ /\ Calls("P3FrameInit") /\ HasPagers /\ "frames" \in init
        /\ Return("P3_ALREADY_INITIALIZED")
     \/ /\ Calls("P3SwapInit") /\ HasSwap /\ "swap" \in init
        /\ Return("P3_ALREADY_INITIALIZED")
     \/ /\ Calls("P3PagerInit") /\ HasPagers /\ pagers = 0
        /\ Return("P3_INVALID_NUM_PAGERS")
  /\ UNCHANGED <<build, main, inits, pagers, initialized, partVars, pageTables, alive,
                 crash, layoutVars>>
-----------------------------------------------------------------------------
(* Processes of the VM region, and the handler that their faults find.     *)

\* P3SwapFreeAll and P3SwapIn look up the semaphore of the pid.  Its name may
\* be taken: shutdown forgets the nodes but does not free the semaphores.
GetSems(S) == IF HasSwap THEN /\ mutexes' = mutexes \cup S
                              /\ exclusive' = exclusive \cup S
                         ELSE UNCHANGED <<mutexes, exclusive>>
NameTaken(q) == HasSwap /\ q \in mutexes \ exclusive

Spawn(p) == /\ Idle /\ main = "P4" /\ p \notin alive
            /\ AllocatePageTables({p})
            /\ UNCHANGED <<initVars, step, partVars, crash, layoutVars>>

\* A page of p is not in core; an identity table made by PageTableAllocate-
\* Identity has them all.
Faults(p) == /\ Idle /\ p \in alive /\ mmu
             /\ pageTables[p] \in {"empty", "private", "identity"}
             /\ pageTables[p] = "identity" => HasIdentityHandler

\* The handler of phase3b: page x is mapped to frame x.
P3PageFaultHandler(p) ==
  /\ pageTables' = [pageTables EXCEPT ![p] = "identity"]
  /\ UNCHANGED <<mutexes, exclusive, crash>>

\* FaultHandler of phase3c: a pager finds an unused page in its own table and
\* serves the fault.  A pager without a table, a semaphore that was freed or
\* one that exists already is an assertion or a NULL pointer.
FaultHandler(p) ==
  LET able == {i \in Pagers \cap alive : pageTables[i] # "null"} IN
  \/ /\ pagerSem = "live" /\ able # {} /\ ~NameTaken(p)
     /\ pageTables' = [pageTables EXCEPT ![p] = "private"]
     /\ GetSems({p}) /\ UNCHANGED crash
  \/ /\ pagerSem # "live" \/ able = {} \/ NameTaken(p)
     /\ crash' = "assert" /\ UNCHANGED <<pageTables, mutexes, exclusive>>

Fault(p) ==
  /\ Faults(p)
  /\ \/ intVec = "stub" /\ crash' = "halt" /\ UNCHANGED <<pageTables, mutexes, exclusive>>
     \/ intVec = "P3PageFaultHandler" /\ P3PageFaultHandler(p)
     \/ intVec = "FaultHandler" /\ FaultHandler(p)
  /\ UNCHANGED <<initVars, step, init, intVec, mmu, frames, swap, pagerSem, alive,
                 layoutVars>>

\* Mutant: PageTableFree leaves the pointer in pageTables.
FreeTables_KeepPointer(S) == /\ alive' = alive \ S
                             /\ UNCHANGED pageTables

\* PageTableFree at the end of the processes S.
FreeTables(S) == /\ alive' = alive \ S
                 /\ pageTables' = [q \in Procs \cup Pagers |->
                                    IF q \in S THEN "null" ELSE pageTables[q]]

HasTable(p) == initialized /\ pageTables[p] # "null"
\* P3FrameFreeAll has frames to put back, into an array that is gone.
UsesFreed(p) == HasPagers /\ frames # "live" /\ pageTables[p] # "empty"

\* P1_Quit and P3_FreePageTable.
Quit(p) ==
  /\ Idle /\ p \in alive
  /\ \/ ~HasTable(p) /\ alive' = alive \ {p}
        /\ UNCHANGED <<pageTables, mutexes, exclusive>>
     \/ /\ HasTable(p) /\ ~NameTaken(p) /\ ~UsesFreed(p)
        /\ GetSems({p}) /\ FreeTables({p})
  /\ UNCHANGED <<initVars, step, init, intVec, mmu, frames, swap, pagerSem, crash,
                 layoutVars>>

QuitFails(p) == /\ Idle /\ p \in alive /\ HasTable(p)
                /\ \/ NameTaken(p) /\ Crash("assert")
                   \/ ~NameTaken(p) /\ UsesFreed(p) /\ Crash("use after free")
-----------------------------------------------------------------------------
(* P3_Startup and P3_VmShutdown, again one action per function called.     *)

Waited == Procs \cap alive = {}

\* P4 returns; P3_Startup shuts the VM system down if P4 did not.
P4Returns == /\ Idle /\ main = "P4" /\ Waited
             /\ main' = "P3"
             /\ UNCHANGED <<build, inits, pagers, result, initialized, step, partVars,
                            pageTables, alive, crash, layoutVars>>

P3Returns == /\ Idle /\ main = "P3" /\ ~initialized
             /\ main' = "done"
             /\ UNCHANGED <<build, inits, pagers, result, initialized, step, partVars,
                            pageTables, alive, crash, layoutVars>>

VmShutdown == /\ Idle /\ Waited /\ initialized
              /\ step' = "P3PagerShutdown" /\ result' = "none"
              /\ UNCHANGED <<build, main, inits, pagers, initialized, partVars, pageTables,
                             alive, crash, layoutVars>>

\* The pagers are above the caller: they have exited, and released their
\* tables as any process does, before their semaphores are freed.
PagerShutdown ==
  /\ Calls("P3PagerShutdown")
  /\ IF HasPagers
     THEN /\ "pagers" \in init /\ pagerSem = "live"
          /\ FreeTables(Pagers) /\ GetSems(Pagers \cap alive)
          /\ pagerSem' = "freed"
     ELSE UNCHANGED <<pageTables, alive, mutexes, exclusive, pagerSem>>
  /\ step' = "P3SwapShutdown"
  /\ UNCHANGED <<initVars, init, intVec, mmu, frames, swap, crash, layoutVars>>

\* temp3 is not assigned when the loop tests it (3d:283): the list of frames
\* is freed or leaked.
SwapShutdown ==
  /\ Calls("P3SwapShutdown")
  /\ IF HasSwap
     THEN /\ "swap" \in init /\ swap = "live"
          /\ swap' \in {"freed", "leaked"}
          /\ swapSpace' = <<>> /\ tracks' = 0 /\ startSec' = 0 /\ exclusive' = {}
     ELSE UNCHANGED <<swap, swapSpace, tracks, startSec, exclusive>>
  /\ step' = "P3FrameShutdown"
  /\ UNCHANGED <<initVars, init, intVec, mmu, frames, pagerSem, mutexes, pageTables,
                 alive, crash, geo>>

FrameShutdown ==
  /\ Calls("P3FrameShutdown")
  /\ IF HasPagers THEN "frames" \in init /\ frames = "live" /\ frames' = "freed"
                  ELSE UNCHANGED frames
  /\ step' = "MMUShutdown"
  /\ UNCHANGED <<initVars, init, intVec, mmu, swap, pagerSem, mutexes, exclusive,
                 pageTables, alive, crash, layoutVars>>

\* Mutant: initialized is cleared first.
MMUShutdown_TooLate == UNCHANGED mmu

MMUShutdown == mmu' = (mmu /\ ~initialized)

\* The end of P3_VmShutdown.
VmDown == /\ Calls("MMUShutdown")
          /\ MMUShutdown
          /\ pageTables' = [q \in Procs \cup Pagers |-> "null"]
          /\ initialized' = FALSE
          /\ step' = "idle"
          /\ UNCHANGED <<build, main, inits, pagers, result, init, intVec, frames, swap,
                         pagerSem, mutexes, exclusive, alive, crash, layoutVars>>

\* assert(rc == P1_SUCCESS) after each part, P1_V on a semaphore that was
\* freed, and memory freed twice.
ShutdownFails ==
  /\ \/ /\ Calls("P3PagerShutdown") /\ HasPagers
        /\ "pagers" \notin init \/ pagerSem # "live"
     \/ Calls("P3SwapShutdown") /\ HasSwap /\ ("swap" \notin init \/ swap # "live")
     \/ Calls("P3FrameShutdown") /\ HasPagers /\ ("frames" \notin init \/ frames # "live")
  /\ Crash("assert")
-----------------------------------------------------------------------------
InitNext == \/ \E n \in PagerCounts : VmInitRefused(n) \/ VmInit(n)
            \/ FrameInit \/ MakeHold \/ SwapInit \/ PagerInit \/ InitFails
ProcNext(p) == \/ Spawn(p) \/ Fault(p) \/ Quit(p) \/ QuitFails(p)
ShutdownNext == \/ P4Returns \/ P3Returns \/ VmShutdown \/ PagerShutdown
                \/ SwapShutdown \/ FrameShutdown \/ VmDown \/ ShutdownFails

Next == InitNext \/ ShutdownNext \/ \E p \in Procs : ProcNext(p)

Spec == Init /\ [][Next]_vars
-----------------------------------------------------------------------------
ControlType ==
  /\ build \in {"a", "b", "c", "d"} /\ main \in {"P4", "P3", "done"}
  /\ step \in {"idle", "P3FrameInit", "P3SwapInit", "P3PagerInit", "P3PagerShutdown",
               "P3SwapShutdown", "P3FrameShutdown", "MMUShutdown"}
  /\ inits \in 0 .. MaxInits /\ pagers \in 0 .. P3_MAX_PAGERS
  /\ result \in {"none", "P1_SUCCESS", "P3_ALREADY_INITIALIZED", "P3_INVALID_NUM_PAGES",
                 "P3_INVALID_NUM_FRAMES", "P3_INVALID_NUM_PAGERS"}
  /\ crash \in {"none", "halt", "assert", "use after free"}

PartType ==
  /\ initialized \in BOOLEAN /\ mmu \in BOOLEAN
  /\ init \subseteq {"frames", "swap", "pagers"}
  /\ intVec \in {"none", "stub", "P3PageFaultHandler", "FaultHandler"}
  /\ frames \in {"none", "live", "freed"} /\ pagerSem \in {"none", "live", "freed"}
  /\ swap \in {"none", "live", "freed", "leaked"}

ProcType ==
  /\ pageTables \in [Procs \cup Pagers -> {"null", "empty", "identity", "private"}]
  /\ alive \subseteq Procs \cup Pagers
  /\ mutexes \subseteq Procs \cup Pagers /\ exclusive \subseteq mutexes

TypeOK == /\ ControlType /\ PartType /\ ProcType
          /\ geo \in Geometries /\ tracks \in Nat /\ startSec \in Nat
          /\ swapSpace \in Seq([track : Nat, start : Nat])

\* Every part that P3_VmInit initialises is there.
Complete == /\ initialized /\ mmu
            /\ HasPagers => /\ frames = "live" /\ pagerSem = "live"
                            /\ pagers > 0 /\ Forked \subseteq alive
            /\ HasSwap => swap = "live" /\ Len(swapSpace) = Space(geo)

(* After P3_VmInit returned P1_SUCCESS every fault that can happen finds   *)
(* the handler of this build, and a pager to serve it that can map frames  *)
(* in a page table of its own (3a:77, 3a:89, 3c:389).                      *)
SuccessMeansUp ==
  step = "idle" /\ result = "P1_SUCCESS" =>
    /\ Complete
    /\ intVec = CASE build = "a" -> "stub"
                  [] build = "b" -> "P3PageFaultHandler"
                  [] HasPagers -> "FaultHandler"
    /\ HasPagers => \A i \in Forked : pageTables[i] # "null"

(* A page table outlives neither its process nor the VM system, and a      *)
(* pager has one as long as it lives: P3FrameMap follows it unasked.       *)
TablesMatchLives ==
  /\ \A q \in Procs \cup Pagers : pageTables[q] # "null" => initialized /\ q \in alive
  /\ \A i \in Pagers \cap alive : pageTables[i] # "null"

(* With pagers no process gets its pages by the identity handler, under    *)
(* which all processes share the frames, unless P3_VmInit failed half way. *)
FramesFromPagers ==
  HasPagers /\ (\E p \in Procs : pageTables[p] = "identity") => ~Complete

(* The life cycle by itself ends the machine only after a P3_VmInit that   *)
(* did not succeed: by the halt of MMUInit, before anything is up          *)
(* (3a:299-301), or because a part failed after initialized was set        *)
(* (3a:89): then at a fault or the end of a process, or at the start of    *)
(* P3_VmShutdown.  What pagers at work may run into is the business of     *)
(* module Paging.                                                          *)
CrashAfterFailedInit ==
  crash # "none" =>
    /\ result # "P1_SUCCESS"
    /\ IF crash = "halt" THEN /\ ~initialized /\ ~mmu /\ alive \cap Pagers = {}
                              /\ "live" \notin {frames, swap, pagerSem}
       ELSE initialized /\ ~Complete /\ step \in {"idle", "P3PagerShutdown"}

(* When the VM system is down, whether it was shut down or never came up,  *)
(* no fault can happen: the MMU is off.  No pager is left, and of what was *)
(* allocated the Holds, the nodes, pagerSem and the arrays of phase3c have *)
(* been freed.  CleanedUp is about the rest.                               *)
DownMeansReleased ==
  step = "idle" /\ ~initialized =>
    /\ ~mmu /\ alive \cap Pagers = {} /\ exclusive = {} /\ swapSpace = <<>>
    /\ "live" \notin {frames, swap, pagerSem}

(* phase3a.c:124: everything VM-related is cleaned up, so the semaphores by*)
(* pid and the list of frames, too.                                        *)
CleanedUp == step = "idle" /\ ~initialized => mutexes = {} /\ swap # "leaked"

(* The code's own assertions hold.                                         *)
NoAssert == crash # "assert"
=============================================================================
