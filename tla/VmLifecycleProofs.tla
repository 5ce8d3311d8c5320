-------------------------- MODULE VmLifecycleProofs --------------------------
(***************************************************************************)
(* Proofs about VmLifecycle, for any processes, any numbers of pagers that *)
(* are tried, any number of calls of P3_VmInit and any disk.  IndInv says  *)
(* for each function that P3_VmInit and P3_VmShutdown call next which      *)
(* parts are there, and ties page tables, handlers and the semaphores by   *)
(* pid to that.                                                            *)
(***************************************************************************)
EXTENDS VmLifecycle, SwapLayoutProofs

Starting == step \in {"P3FrameInit", "P3SwapInit", "P3PagerInit"}

\* No part has been initialised yet, or every part was and has been shut down.
Fresh == frames = "none" /\ swap = "none" /\ pagerSem = "none"
Over  == /\ HasPagers /\ frames = "freed" /\ pagerSem = "freed"
         /\ IF HasSwap THEN swap \in {"freed", "leaked"} ELSE swap = "none"

\* The parts before pagers are up.
PartsUp == /\ HasPagers => frames = "live"
           /\ HasSwap => swap = "live"

(* initialized, the MMU and the flags of the parts.                        *)
Flags ==
  /\ mmu = initialized
  /\ step # "idle" => initialized
  /\ "frames" \in init <=> frames # "none"
  /\ "swap" \in init <=> swap # "none"
  /\ "pagers" \in init <=> pagerSem # "none"
  /\ ~HasPagers => frames = "none" /\ pagerSem = "none"
  /\ ~HasSwap => swap = "none"

(* What each function finds.  Once P3FrameInit has refused to run again,   *)
(* or P3PagerInit refused to run without pagers, the system is half up and *)
(* stays so: P3PagerShutdown asserts before anything is taken down.        *)
Stages ==
  /\ ~initialized \/ step = "P3FrameInit" => (Fresh \/ Over) /\ exclusive = {}
  /\ step = "P3SwapInit" => /\ HasPagers => frames = "live"
                            /\ swap = "none" /\ pagerSem = "none" /\ exclusive = {}
  /\ step = "P3PagerInit" => PartsUp /\ pagerSem = "none"
  /\ initialized /\ step \in {"idle", "P3PagerShutdown"} =>
       Complete \/ (HasPagers /\ (Over \/ (PartsUp /\ pagerSem = "none")))
  /\ step = "P3SwapShutdown" => PartsUp /\ (HasPagers => pagerSem = "freed")
  /\ step = "P3FrameShutdown" =>
       /\ HasPagers => frames = "live" /\ pagerSem = "freed"
       /\ HasSwap => swap \in {"freed", "leaked"}
       /\ exclusive = {}
  /\ step = "MMUShutdown" => (Fresh \/ Over) /\ exclusive = {}

(* The semaphores by pid are known to phase3d.c as long as its lists live. *)
SemsKnown == /\ swap = "none" => mutexes = {}
             /\ swap = "live" => mutexes = exclusive

(* The Holds exist while P3SwapInit makes them and until P3SwapShutdown.   *)
Holds == /\ swap = "live" => Len(swapSpace) = Space(geo)
         /\ swap # "live" /\ (HasSwap => step # "P3SwapInit") => swapSpace = <<>>

(* Pagers live no longer than their semaphore; page tables are of the kind *)
(* that the build makes, and none is left while P3_VmInit runs.            *)
Tables ==
  /\ pagerSem # "live" => alive \cap Pagers = {}
  /\ Starting => \A q \in Procs \cup Pagers : pageTables[q] = "null"
  /\ build = "a" => \A q \in Procs \cup Pagers : pageTables[q] \in {"null", "identity"}
  /\ HasPagers /\ intVec = "FaultHandler" =>
       \A q \in Procs \cup Pagers : pageTables[q] # "identity"

(* The handler that a fault finds.                                         *)
Handlers ==
  /\ initialized /\ build = "a" => intVec = "stub"
  /\ initialized /\ build = "b" => intVec = "P3PageFaultHandler"
  /\ initialized /\ HasPagers => intVec \in {"P3PageFaultHandler", "FaultHandler"}
  /\ HasPagers /\ Complete => intVec = "FaultHandler"

(* P3_VmInit has returned P1_SUCCESS and P3_VmShutdown has not been called *)
(* since.                                                                  *)
Success == result = "P1_SUCCESS" => initialized /\ step = "idle" /\ Complete

IndInv == /\ ControlType /\ PartType /\ ProcType /\ LayoutInv
          /\ Flags /\ Stages /\ SemsKnown /\ Holds /\ Tables /\ Handlers /\ Success
          /\ TablesMatchLives /\ CrashAfterFailedInit
-----------------------------------------------------------------------------
(* The pagers that P3PagerInit forks have pids of pagers, and if there are *)
(* any, 0 is one of them.                                                  *)
LEMMA ForkedLemma ==
  ASSUME ControlType
  PROVE  Forked \subseteq Pagers /\ (pagers > 0 => 0 \in Forked)
<1>1. pagers \in 0 .. 3
  BY DEF ControlType, P3_MAX_PAGERS
<1> QED BY <1>1 DEF Forked, Pagers, P3_MAX_PAGERS

(* P3_VmInit that refuses its arguments, or to run twice, changes nothing  *)
(* else.                                                                   *)
LEMMA VmInitRefusedStep ==
  ASSUME IndInv, NEW n, VmInitRefused(n)
  PROVE  IndInv'
<1> USE DEF IndInv, HasPagers, HasSwap, VmInitRefused, Idle, Return, initVars,
  partVars, layoutVars
<1>1. LayoutInv'
  BY LayoutSame
<1>2. PartType' /\ ProcType'
  BY DEF PartType, ProcType
<1>3. Flags' /\ SemsKnown' /\ Holds' /\ Success' /\ TablesMatchLives'
  /\ CrashAfterFailedInit'
  BY DEF Flags, SemsKnown, Holds, Success,
    TablesMatchLives, CrashAfterFailedInit
<1>4. ControlType'
  BY CountsAssumption DEF ControlType
<1>5. Stages'
  BY DEF Stages, Complete, Fresh, Over, PartsUp, Forked
<1>6. Tables'
  BY DEF Tables, Starting
<1>7. Handlers'
  BY DEF Handlers, Complete, Forked
<1> QED BY <1>1, <1>2, <1>3, <1>4, <1>5, <1>6, <1>7

(* P3_VmInit finds the parts as they were before the first call or as      *)
(* P3_VmShutdown left them, and clears the page tables.                    *)
LEMMA VmInitStep ==
  ASSUME IndInv, NEW n, VmInit(n)
  PROVE  IndInv'
<1> USE DEF IndInv, HasPagers, HasSwap, VmInit, Idle, MMUInit, MMUInitFails,
  MMUInitHalts, Ready, Return, layoutVars
<1>1. LayoutInv'
  BY LayoutSame
<1>2. PartType' /\ ProcType'
  BY DEF PartType, ProcType
<1>3. Flags' /\ SemsKnown' /\ Holds' /\ Tables' /\ Success' /\ TablesMatchLives'
  BY DEF Flags, SemsKnown, Holds, Tables, Success, TablesMatchLives
<1>4. ControlType'
  <2>1. /\ build' \in {"a", "b", "c", "d"} /\ main' \in {"P4", "P3", "done"}
        /\ inits' \in 0 .. MaxInits /\ pagers' \in 0 .. P3_MAX_PAGERS
    BY CountsAssumption DEF ControlType
  <2>2. step' \in {"idle", "P3FrameInit"} /\ crash' \in {"none", "halt"}
    OBVIOUS
  <2>3. result' \in {result, "P3_ALREADY_INITIALIZED", "P3_INVALID_NUM_PAGES",
                     "P3_INVALID_NUM_FRAMES"}
    OBVIOUS
  <2> QED BY <2>1, <2>2, <2>3 DEF ControlType
<1>5. Stages'
  BY DEF Stages, Fresh, Over
<1>6. Handlers'
  BY DEF Handlers, TablesMatchLives, Complete, HasIdentityHandler, Forked,
    Pagers, P3_MAX_PAGERS
<1>7. CrashAfterFailedInit'
  <2>1. crash' # "none" => MMUInitHalts /\ UNCHANGED <<initialized, mmu, result>>
    OBVIOUS
  <2>2. ~mmu /\ result # "P1_SUCCESS" /\ "live" \notin {frames, swap, pagerSem}
    BY DEF Flags, Success, Stages, Fresh, Over
  <2>3. alive \cap Pagers = {}
    BY <2>2 DEF Tables
  <2> QED BY <2>1, <2>2, <2>3 DEF CrashAfterFailedInit
<1> QED BY <1>1, <1>2, <1>3, <1>4, <1>5, <1>6, <1>7

(* P3FrameInit runs once in the life of the machine: the frames are not    *)
(* there yet.                                                              *)
LEMMA FrameInitStep ==
  ASSUME IndInv, FrameInit
  PROVE  IndInv'
<1> USE DEF IndInv, HasPagers, HasSwap, FrameInit, Calls, initVars, layoutVars
<1>1. LayoutInv'
  BY LayoutSame
<1>2. Flags' /\ SemsKnown' /\ Holds' /\ Success' /\ TablesMatchLives'
  /\ CrashAfterFailedInit'
  BY DEF Flags, SemsKnown, Holds, Success,
    TablesMatchLives, CrashAfterFailedInit
<1>3. ControlType'
  BY DEF ControlType
<1>4. PartType'
  BY DEF PartType
<1>5. ProcType'
  BY DEF ProcType
<1>6. Stages'
  BY DEF Stages, Flags, Fresh, Over
<1>7. Tables'
  BY DEF Tables, Starting
<1>8. Handlers'
  BY DEF Handlers, Stages, Complete, Fresh, Over
<1> QED BY <1>1, <1>2, <1>3, <1>4, <1>5, <1>6, <1>7, <1>8

(* One turn of makeHoldList: the layout is sound afterwards.               *)
LEMMA MakeHoldStep ==
  ASSUME IndInv, MakeHold
  PROVE  IndInv'
<1> USE DEF IndInv, HasPagers, HasSwap, MakeHold, Calls, AddHold, initVars,
  partVars
<1>1. LayoutInv'
  BY AddHoldStep
<1>2. ControlType' /\ PartType' /\ ProcType'
  BY DEF ControlType, PartType, ProcType
<1>3. Flags' /\ SemsKnown' /\ Holds' /\ Success' /\ TablesMatchLives'
  /\ CrashAfterFailedInit'
  BY DEF Flags, SemsKnown, Holds, Success,
    TablesMatchLives, CrashAfterFailedInit
<1>4. Stages'
  BY DEF Stages, Fresh, Over
<1>5. Tables'
  BY DEF Tables, Starting
<1>6. Handlers'
  BY DEF Handlers, Holds, Complete
<1> QED BY <1>1, <1>2, <1>3, <1>4, <1>5, <1>6

(* P3SwapInit forgets the nodes; no semaphore is left then.                *)
LEMMA SwapInitStep ==
  ASSUME IndInv, SwapInit
  PROVE  IndInv'
<1> USE DEF IndInv, HasPagers, HasSwap, SwapInit, Calls, initVars, layoutVars
<1>1. LayoutInv'
  BY LayoutSame
<1>2. Flags' /\ Holds' /\ Success' /\ TablesMatchLives' /\ CrashAfterFailedInit'
  BY DEF Flags, Holds, Success, TablesMatchLives, CrashAfterFailedInit
<1>3. ControlType'
  BY DEF ControlType
<1>4. PartType'
  BY DEF PartType
<1>5. ProcType'
  BY DEF ProcType
<1>6. Stages'
  BY DEF Stages, Fresh, Over, PartsUp
<1>7. SemsKnown'
  BY DEF SemsKnown, Stages
<1>8. Tables'
  BY DEF Tables, Starting
<1>9. Handlers'
  BY DEF Handlers, Stages, Complete
<1> QED BY <1>1, <1>2, <1>3, <1>4, <1>5, <1>6, <1>7, <1>8, <1>9

(* P3PagerInit: if there are pagers the system is complete.                *)
LEMMA PagerInitStep ==
  ASSUME IndInv, PagerInit
  PROVE  IndInv'
<1> USE DEF IndInv, HasPagers, HasSwap, PagerInit, Calls, Return,
  InstallHandler, AllocatePageTables, NewTable, layoutVars
<1>1. LayoutInv'
  BY LayoutSame
<1>2. Flags' /\ SemsKnown' /\ Holds' /\ Handlers' /\ CrashAfterFailedInit'
  BY DEF Flags, SemsKnown, Holds, Handlers, CrashAfterFailedInit
<1>3. ControlType'
  BY DEF ControlType
<1>4. PartType'
  BY DEF PartType
<1>5. ProcType'
  BY ForkedLemma DEF ProcType
<1>6. Stages'
  BY DEF Stages, Flags, Holds, Complete, PartsUp, Forked
<1>7. Tables'
  BY DEF Tables, Starting, HasIdentityHandler
<1>8. Success'
  BY DEF Success, Flags, Stages, Holds, Complete, PartsUp, Forked
<1>9. TablesMatchLives'
  BY DEF TablesMatchLives, Flags
<1> QED BY <1>1, <1>2, <1>3, <1>4, <1>5, <1>6, <1>7, <1>8, <1>9

(* A part that fails leaves the system half up.                            *)
LEMMA InitFailsStep ==
  ASSUME IndInv, InitFails
  PROVE  IndInv'
<1> USE DEF IndInv, HasPagers, HasSwap, InitFails, Calls, Return, partVars,
  layoutVars
<1>1. LayoutInv'
  BY LayoutSame
<1>2. Flags' /\ SemsKnown' /\ Success' /\ TablesMatchLives'
  /\ CrashAfterFailedInit'
  BY DEF Flags, SemsKnown, Success, TablesMatchLives, CrashAfterFailedInit
<1>3. ControlType'
  BY DEF ControlType
<1>4. PartType'
  BY DEF PartType
<1>5. ProcType'
  BY DEF ProcType
<1>6. Stages'
  BY DEF Stages, Flags, Fresh, Over, PartsUp
<1>7. Holds'
  BY DEF Holds, Flags, Stages
<1>8. Tables'
  BY DEF Tables, Starting
<1>9. Handlers'
  BY DEF Handlers, Complete, Forked
<1> QED BY <1>1, <1>2, <1>3, <1>4, <1>5, <1>6, <1>7, <1>8, <1>9

(* A new process gets a table of the build's kind.                         *)
LEMMA SpawnStep ==
  ASSUME IndInv, NEW p \in Procs, Spawn(p)
  PROVE  IndInv'
<1> USE DEF IndInv, HasPagers, HasSwap, Spawn, Idle, AllocatePageTables,
  NewTable, initVars, partVars, layoutVars
<1>1. LayoutInv'
  BY LayoutSame
<1>2. ControlType' /\ PartType' /\ ProcType'
  BY DEF ControlType, PartType, ProcType
<1>3. Flags' /\ SemsKnown' /\ Holds' /\ CrashAfterFailedInit'
  BY DEF Flags, SemsKnown, Holds, CrashAfterFailedInit
<1>4. Stages'
  BY DEF Stages, Complete, Fresh, Over, PartsUp, Forked
<1>5. Tables'
  BY ProcsAssumption DEF Tables, Starting, HasIdentityHandler
<1>6. Handlers'
  BY DEF Handlers, Stages, Complete, Over
<1>7. Success'
  BY DEF Success, Complete, Forked
<1>8. TablesMatchLives'
  BY ProcsAssumption DEF TablesMatchLives
<1> QED BY <1>1, <1>2, <1>3, <1>4, <1>5, <1>6, <1>7, <1>8

(* A fault crashes only a system that is half up.                          *)
LEMMA FaultStep ==
  ASSUME IndInv, NEW p \in Procs, Fault(p)
  PROVE  IndInv'
<1> USE DEF IndInv, HasPagers, HasSwap, Fault, Faults, Idle, FaultHandler,
  P3PageFaultHandler, GetSems, initVars, layoutVars, NameTaken
<1>1. LayoutInv'
  BY LayoutSame
<1>2. Flags' /\ Holds'
  BY DEF Flags, Holds
<1>3. ControlType'
  BY DEF ControlType
<1>4. PartType'
  BY DEF PartType
<1>5. ProcType'
  BY DEF ProcType
<1>6. Stages'
  BY DEF Stages, Complete, Fresh, Over, PartsUp, Forked
<1>7. SemsKnown'
  BY DEF SemsKnown, Stages, Complete, Fresh, Over
<1>8. Tables'
  BY DEF Tables, ProcType, Starting, HasIdentityHandler
<1>9. Handlers'
  BY DEF Handlers, Complete, Forked
<1>10. Success'
  BY DEF Success, Complete, Forked
<1>11. TablesMatchLives'
  BY DEF TablesMatchLives, ProcType
<1>12. CrashAfterFailedInit'
  <2>1. ASSUME Complete
        PROVE  /\ ~NameTaken(p)
               /\ HasPagers => 0 \in Pagers \cap alive /\ pageTables[0] # "null"
    BY <2>1, ForkedLemma DEF Complete, NameTaken, SemsKnown, TablesMatchLives
  <2>2. /\ initialized /\ step = "idle" /\ intVec # "stub"
        /\ intVec = "FaultHandler" => HasPagers
    BY DEF Handlers, Flags, Tables, ControlType, HasIdentityHandler
  <2>3. crash' # "none" => ~Complete /\ crash' = "assert"
    BY <2>1, <2>2 DEF Complete
  <2>4. Complete' = Complete
    BY DEF Complete, Forked, Space
  <2>5. result' = "P1_SUCCESS" => Complete
    BY DEF Success
  <2> QED BY <2>2, <2>3, <2>4, <2>5 DEF CrashAfterFailedInit
<1> QED BY <1>1, <1>2, <1>3, <1>4, <1>5, <1>6, <1>7, <1>8, <1>9, <1>10, <1>11,
  <1>12

(* A process that quits takes its table with it, and no pager.             *)
LEMMA QuitStep ==
  ASSUME IndInv, NEW p \in Procs, Quit(p)
  PROVE  IndInv'
<1> USE DEF IndInv, HasPagers, HasSwap, Quit, Idle, GetSems, FreeTables,
  initVars, layoutVars, HasTable, NameTaken, UsesFreed
<1>1. LayoutInv'
  BY LayoutSame
<1>2. ControlType' /\ PartType' /\ ProcType'
  BY DEF ControlType, PartType, ProcType
<1>3. Flags' /\ Holds' /\ CrashAfterFailedInit'
  BY DEF Flags, Holds, CrashAfterFailedInit
<1>4. Stages'
  BY ProcsAssumption, ForkedLemma DEF Stages, Complete, Over, Fresh, PartsUp,
    Forked
<1>5. SemsKnown'
  BY DEF SemsKnown, Stages, Complete, Over, PartsUp, HasTable
<1>6. Tables'
  BY DEF Tables, Starting
<1>7. Handlers'
  BY DEF Handlers, Complete, Forked
<1>8. Success'
  BY ProcsAssumption, ForkedLemma DEF Success, Complete, Forked
<1>9. TablesMatchLives'
  BY DEF TablesMatchLives, HasTable
<1> QED BY <1>1, <1>2, <1>3, <1>4, <1>5, <1>6, <1>7, <1>8, <1>9

(* Quitting crashes only a system that is half up.                         *)
LEMMA QuitFailsStep ==
  ASSUME IndInv, NEW p \in Procs, QuitFails(p)
  PROVE  IndInv'
<1> USE DEF IndInv, HasPagers, HasSwap, QuitFails, Crash, Idle, HasTable,
  NameTaken, UsesFreed, initVars, partVars, layoutVars
<1>1. LayoutInv'
  BY LayoutSame
<1>2. ControlType' /\ PartType' /\ ProcType'
  <2>1. ControlType'
    BY DEF ControlType
  <2>2. PartType' /\ ProcType'
    BY DEF PartType, ProcType
  <2> QED BY <2>1, <2>2
<1>3. Flags' /\ SemsKnown' /\ Holds' /\ TablesMatchLives'
  BY DEF Flags, SemsKnown, Holds, TablesMatchLives
<1>4. Stages'
  BY DEF Stages, SemsKnown, Complete, Over, PartsUp
<1>5. Tables'
  BY DEF Tables, Starting
<1>6. Handlers'
  BY DEF Handlers, SemsKnown, Complete
<1>7. Success'
  BY DEF Success, SemsKnown, Complete
<1>8. CrashAfterFailedInit'
  <2>1. ~Complete /\ initialized /\ step = "idle"
    BY DEF SemsKnown, Complete
  <2>2. crash' \in {"assert", "use after free"}
    OBVIOUS
  <2>3. Complete' = Complete
    <3>1. UNCHANGED <<build, initialized, mmu, frames, swap, pagerSem, pagers, alive,
                      swapSpace, geo>>
      OBVIOUS
    <3> QED BY ONLY <3>1 DEF Complete, Forked, Space, HasPagers, HasSwap
  <2>4. result # "P1_SUCCESS"
    BY <2>1 DEF Success
  <2> QED BY <2>1, <2>2, <2>3, <2>4 DEF CrashAfterFailedInit
<1> QED BY <1>1, <1>2, <1>3, <1>4, <1>5, <1>6, <1>7, <1>8

(* P4 returns: only the caller changes.                                    *)
LEMMA P4ReturnsStep ==
  ASSUME IndInv, P4Returns
  PROVE  IndInv'
<1> USE DEF IndInv, HasPagers, HasSwap, P4Returns, Idle, partVars, layoutVars
<1>1. LayoutInv'
  BY LayoutSame
<1>2. ControlType' /\ PartType' /\ ProcType'
  BY DEF ControlType, PartType, ProcType
<1>3. Flags' /\ SemsKnown' /\ Holds' /\ TablesMatchLives'
  /\ CrashAfterFailedInit'
  BY DEF Flags, SemsKnown, Holds, TablesMatchLives, CrashAfterFailedInit
<1>4. Stages'
  BY DEF Stages, Complete, Fresh, Over, PartsUp, Forked
<1>5. Tables'
  BY DEF Tables, Starting
<1>6. Handlers'
  BY DEF Handlers, Complete, Forked
<1>7. Success'
  BY DEF Success, Complete, Forked
<1> QED BY <1>1, <1>2, <1>3, <1>4, <1>5, <1>6, <1>7

(* P3_Startup returns when the VM system is down.                          *)
LEMMA P3ReturnsStep ==
  ASSUME IndInv, P3Returns
  PROVE  IndInv'
<1> USE DEF IndInv, HasPagers, HasSwap, P3Returns, Idle, partVars, layoutVars
<1>1. LayoutInv'
  BY LayoutSame
<1>2. ControlType' /\ PartType' /\ ProcType'
  BY DEF ControlType, PartType, ProcType
<1>3. Flags' /\ SemsKnown' /\ Holds' /\ Success' /\ TablesMatchLives'
  /\ CrashAfterFailedInit'
  BY DEF Flags, SemsKnown, Holds, Success,
    TablesMatchLives, CrashAfterFailedInit
<1>4. Stages'
  BY DEF Stages, Fresh, Over
<1>5. Tables'
  BY DEF Tables, Starting
<1>6. Handlers'
  BY DEF Handlers, Complete
<1> QED BY <1>1, <1>2, <1>3, <1>4, <1>5, <1>6

(* P3_VmShutdown is called: what it will find is what P3_VmInit left.      *)
LEMMA VmShutdownStep ==
  ASSUME IndInv, VmShutdown
  PROVE  IndInv'
<1> USE DEF IndInv, HasPagers, HasSwap, VmShutdown, Idle, partVars, layoutVars
<1>1. LayoutInv'
  BY LayoutSame
<1>2. ControlType' /\ PartType' /\ ProcType'
  BY DEF ControlType, PartType, ProcType
<1>3. Flags' /\ SemsKnown' /\ Holds' /\ Success' /\ TablesMatchLives'
  /\ CrashAfterFailedInit'
  BY DEF Flags, SemsKnown, Holds, Success,
    TablesMatchLives, CrashAfterFailedInit
<1>4. Stages'
  BY DEF Stages, Complete, Over, PartsUp, Forked
<1>5. Tables'
  BY DEF Tables, Starting
<1>6. Handlers'
  BY DEF Handlers, Complete, Forked
<1> QED BY <1>1, <1>2, <1>3, <1>4, <1>5, <1>6

(* P3PagerShutdown runs only in a complete system: it is alone in finding  *)
(* one that is not.                                                        *)
LEMMA PagerShutdownStep ==
  ASSUME IndInv, PagerShutdown
  PROVE  IndInv'
<1> USE DEF IndInv, HasPagers, HasSwap, PagerShutdown, Calls, GetSems,
  FreeTables, initVars, layoutVars
<1>1. LayoutInv'
  BY LayoutSame
<1>2. ControlType' /\ PartType' /\ ProcType'
  BY DEF ControlType, PartType, ProcType
<1>3. Flags' /\ Holds' /\ Success' /\ TablesMatchLives' /\ CrashAfterFailedInit'
  BY DEF Flags, Holds, Success, TablesMatchLives, CrashAfterFailedInit
<1>4. Stages'
  BY DEF Stages, Complete, Fresh, Over, PartsUp
<1>5. SemsKnown'
  BY DEF SemsKnown, Stages, Complete, Fresh, Over
<1>6. Tables'
  BY DEF Tables, Starting
<1>7. Handlers'
  BY DEF Handlers, Complete
<1> QED BY <1>1, <1>2, <1>3, <1>4, <1>5, <1>6, <1>7

(* P3SwapShutdown is reached by a complete system only; it forgets the     *)
(* nodes and the Holds.                                                    *)
LEMMA SwapShutdownStep ==
  ASSUME IndInv, SwapShutdown
  PROVE  IndInv'
<1> USE DEF IndInv, HasPagers, HasSwap, SwapShutdown, Calls, initVars
<1>1. LayoutInv'
  <2>1. CASE HasSwap
    BY <2>1, LayoutReset
  <2>2. CASE ~HasSwap
    BY <2>2, LayoutSame DEF layoutVars
  <2> QED BY <2>1, <2>2
<1>2. ControlType' /\ PartType' /\ ProcType'
  BY DEF ControlType, PartType, ProcType
<1>3. Flags' /\ SemsKnown' /\ Holds' /\ Success' /\ TablesMatchLives'
  /\ CrashAfterFailedInit'
  BY DEF Flags, SemsKnown, Holds, Success,
    TablesMatchLives, CrashAfterFailedInit
<1>4. Stages'
  BY DEF Stages, ProcType, Flags, SemsKnown, PartsUp
<1>5. Tables'
  BY DEF Tables, Starting
<1>6. Handlers'
  BY DEF Handlers, Complete, Forked
<1> QED BY <1>1, <1>2, <1>3, <1>4, <1>5, <1>6

(* After P3FrameShutdown no part is live.                                  *)
LEMMA FrameShutdownStep ==
  ASSUME IndInv, FrameShutdown
  PROVE  IndInv'
<1> USE DEF IndInv, HasPagers, HasSwap, FrameShutdown, Calls, initVars,
  layoutVars
<1>1. LayoutInv'
  BY LayoutSame
<1>2. ControlType' /\ PartType' /\ ProcType'
  BY DEF ControlType, PartType, ProcType
<1>3. Flags' /\ SemsKnown' /\ Holds' /\ Success' /\ TablesMatchLives'
  /\ CrashAfterFailedInit'
  BY DEF Flags, SemsKnown, Holds, Success,
    TablesMatchLives, CrashAfterFailedInit
<1>4. Stages'
  BY DEF Stages, Flags, Fresh, Over
<1>5. Tables'
  BY DEF Tables, Starting
<1>6. Handlers'
  BY DEF Handlers, Complete
<1> QED BY <1>1, <1>2, <1>3, <1>4, <1>5, <1>6

(* MMUShutdown and the end of P3_VmShutdown.                               *)
LEMMA VmDownStep ==
  ASSUME IndInv, VmDown
  PROVE  IndInv'
<1> USE DEF IndInv, HasPagers, HasSwap, VmDown, MMUShutdown, Calls, layoutVars
<1>1. LayoutInv'
  BY LayoutSame
<1>2. Flags' /\ SemsKnown' /\ Holds' /\ Tables'
  BY DEF Flags, SemsKnown, Holds, Tables
<1>3. ControlType'
  BY DEF ControlType
<1>4. PartType'
  BY DEF PartType
<1>5. ProcType'
  BY DEF ProcType
<1>6. Stages'
  BY DEF Stages, Fresh, Over
<1>7. Handlers'
  BY DEF Handlers, Complete
<1>8. Success'
  BY DEF Success
<1>9. TablesMatchLives'
  BY DEF TablesMatchLives, Stages, Fresh, Over, Tables
<1>10. CrashAfterFailedInit'
  BY DEF CrashAfterFailedInit
<1> QED BY <1>1, <1>2, <1>3, <1>4, <1>5, <1>6, <1>7, <1>8, <1>9, <1>10

(* P3_VmShutdown crashes only at P3PagerShutdown, in a system that is half *)
(* up.                                                                     *)
LEMMA ShutdownFailsStep ==
  ASSUME IndInv, ShutdownFails
  PROVE  IndInv'
<1> USE DEF IndInv, HasPagers, HasSwap, ShutdownFails, Crash, Calls, initVars,
  partVars, layoutVars
<1>1. LayoutInv'
  BY LayoutSame
<1>2. Flags' /\ SemsKnown' /\ Holds' /\ Success' /\ TablesMatchLives'
  BY DEF Flags, SemsKnown, Holds, Success, TablesMatchLives
<1>3. ControlType'
  BY DEF ControlType
<1>4. PartType'
  BY DEF PartType
<1>5. ProcType'
  BY DEF ProcType
<1>6. Stages'
  BY DEF Stages, Complete, Fresh, Over, PartsUp, Forked
<1>7. Tables'
  BY DEF Tables, Starting
<1>8. Handlers'
  BY DEF Handlers, Complete, Forked
<1>9. CrashAfterFailedInit'
  <2>1. ~Complete /\ initialized /\ step = "P3PagerShutdown"
    BY DEF Flags, Stages, Complete, PartsUp
  <2>2. Complete' = Complete /\ crash' = "assert"
    BY DEF Complete, Forked, Space
  <2>3. result # "P1_SUCCESS"
    BY <2>1 DEF Success
  <2> QED BY <2>1, <2>2, <2>3 DEF CrashAfterFailedInit
<1> QED BY <1>1, <1>2, <1>3, <1>4, <1>5, <1>6, <1>7, <1>8, <1>9

(* A stuttering step.                                                      *)
LEMMA SameStep ==
  ASSUME IndInv, UNCHANGED vars
  PROVE  IndInv'
<1> USE DEF IndInv, HasPagers, HasSwap, vars, initVars, partVars, layoutVars
<1>1. LayoutInv'
  BY LayoutSame
<1>2. Flags' /\ SemsKnown' /\ Holds' /\ TablesMatchLives'
  BY DEF Flags, SemsKnown, Holds, TablesMatchLives
<1>3. ControlType'
  BY DEF ControlType
<1>4. PartType'
  BY DEF PartType
<1>5. ProcType'
  BY DEF ProcType
<1>6. Stages'
  BY DEF Stages, Complete, Fresh, Over, PartsUp, Forked
<1>7. Tables'
  BY DEF Tables, Starting
<1>8. Handlers'
  BY DEF Handlers, Complete, Forked
<1>9. Success'
  BY DEF Success, Complete, Forked
<1>10. CrashAfterFailedInit'
  BY DEF CrashAfterFailedInit, Complete, Forked
<1> QED BY <1>1, <1>2, <1>3, <1>4, <1>5, <1>6, <1>7, <1>8, <1>9, <1>10

-----------------------------------------------------------------------------
(* Nothing is there before the first call of P3_VmInit.                    *)
LEMMA InitInv == Init => IndInv
<1> SUFFICES ASSUME Init PROVE IndInv
  OBVIOUS
<1> USE DEF Init, HasPagers, HasSwap
<1>1. LayoutInv
  BY LayoutEmpty DEF LayoutInit
<1>2. swapSpace = <<>>
  BY DEF LayoutInit
<1>3. ControlType
  BY CountsAssumption DEF ControlType, P3_MAX_PAGERS
<1>4. PartType /\ ProcType
  BY DEF PartType, ProcType
<1>5. Flags /\ Stages /\ SemsKnown
  BY DEF Flags, Stages, SemsKnown, Fresh
<1>6. Holds /\ Tables /\ Handlers /\ Success
  BY <1>2 DEF Holds, Tables, Starting, Handlers, Success, Complete
<1>7. TablesMatchLives /\ CrashAfterFailedInit
  BY DEF TablesMatchLives, CrashAfterFailedInit
<1> QED BY <1>1, <1>3, <1>4, <1>5, <1>6, <1>7 DEF IndInv

(* Every step keeps the invariant.                                         *)
LEMMA NextInv == IndInv /\ [Next]_vars => IndInv'
<1> SUFFICES ASSUME IndInv, [Next]_vars PROVE IndInv'
  OBVIOUS
<1>1. ASSUME InitNext PROVE IndInv'
  BY <1>1, VmInitRefusedStep, VmInitStep, FrameInitStep, MakeHoldStep, SwapInitStep,
     PagerInitStep, InitFailsStep DEF InitNext
<1>2. ASSUME ShutdownNext PROVE IndInv'
  BY <1>2, P4ReturnsStep, P3ReturnsStep, VmShutdownStep, PagerShutdownStep,
     SwapShutdownStep, FrameShutdownStep, VmDownStep, ShutdownFailsStep DEF ShutdownNext
<1>3. ASSUME NEW p \in Procs, ProcNext(p) PROVE IndInv'
  BY <1>3, SpawnStep, FaultStep, QuitStep, QuitFailsStep DEF ProcNext
<1>4. CASE UNCHANGED vars
  BY <1>4, SameStep
<1> QED BY <1>1, <1>2, <1>3, <1>4 DEF Next

(* The invariant that the theorems below rest on.                          *)
THEOREM Inductive == Spec => []IndInv
BY InitInv, NextInv, PTL DEF Spec

(* Every variable keeps its type.                                          *)
THEOREM TypeCorrect == Spec => []TypeOK
<1>1. IndInv => TypeOK
  BY DEF IndInv, TypeOK, LayoutInv, LayoutType, Hold
<1> QED BY <1>1, Inductive, PTL

(* When P3_VmInit has returned P1_SUCCESS every fault finds the handler of *)
(* this build, and every pager that was asked for is there with a table of *)
(* its own (3a:77, 3a:89, 3c:389).                                         *)
THEOREM SuccessIsUp == Spec => []SuccessMeansUp
<1>1. IndInv => SuccessMeansUp
  <2> SUFFICES ASSUME IndInv, step = "idle", result = "P1_SUCCESS"
               PROVE  /\ Complete
                      /\ intVec = CASE build = "a" -> "stub"
                                    [] build = "b" -> "P3PageFaultHandler"
                                    [] HasPagers -> "FaultHandler"
                      /\ HasPagers => \A i \in Forked : pageTables[i] # "null"
    BY DEF SuccessMeansUp
  <2>1. Complete /\ initialized /\ build \in {"a", "b", "c", "d"}
    BY DEF IndInv, Success, ControlType
  <2>2. CASE build = "a"
    BY <2>1, <2>2 DEF IndInv, Handlers, HasPagers
  <2>3. CASE build = "b"
    BY <2>1, <2>3 DEF IndInv, Handlers, HasPagers
  <2>4. CASE HasPagers
    <3>1. intVec = "FaultHandler" /\ build # "a" /\ build # "b"
      BY <2>1, <2>4 DEF IndInv, Handlers, HasPagers
    <3>2. \A i \in Forked : pageTables[i] # "null"
      BY <2>1, <2>4, ForkedLemma DEF IndInv, Complete, TablesMatchLives
    <3> QED BY <2>1, <2>4, <3>1, <3>2
  <2> QED BY <2>1, <2>2, <2>3, <2>4 DEF HasPagers
<1> QED BY <1>1, Inductive, PTL

(* Page tables outlive neither their process nor the VM system, and a      *)
(* pager that lives has one (3a:152, 3a:187, 3c:481).                      *)
THEOREM TablesAreOwned == Spec => []TablesMatchLives
<1>1. IndInv => TablesMatchLives
  BY DEF IndInv
<1> QED BY <1>1, Inductive, PTL

(* In a complete system with pagers no process shares frames with another  *)
(* by the identity handler.                                                *)
THEOREM FramesGivenOut == Spec => []FramesFromPagers
<1>1. IndInv => FramesFromPagers
  BY DEF IndInv, FramesFromPagers, Handlers, Tables
<1> QED BY <1>1, Inductive, PTL

(* The life cycle by itself ends the machine only after a P3_VmInit that   *)
(* did not succeed: MMUInit halts with nothing up (3a:299-301), or a part  *)
(* failed with initialized set (3a:89), and then a fault, the end of a     *)
(* process or the start of P3_VmShutdown finds a system that is half up.   *)
THEOREM CrashesAfterFailure == Spec => []CrashAfterFailedInit
<1>1. IndInv => CrashAfterFailedInit
  BY DEF IndInv
<1> QED BY <1>1, Inductive, PTL

(* When the VM system is down the MMU is off, no pager is left, and the    *)
(* Holds, the nodes, pagerSem and the arrays of phase3c are freed          *)
(* (3a:136-156).  The semaphores by pid and the list of frames are not     *)
(* claimed: CleanedUp is false of them.                                    *)
THEOREM DownIsReleased == Spec => []DownMeansReleased
<1>1. IndInv => DownMeansReleased
  <2> SUFFICES ASSUME IndInv, step = "idle", ~initialized
               PROVE  /\ ~mmu /\ alive \cap Pagers = {} /\ exclusive = {}
                      /\ swapSpace = <<>> /\ "live" \notin {frames, swap, pagerSem}
    BY DEF DownMeansReleased
  <2>1. ~mmu /\ exclusive = {} /\ "live" \notin {frames, swap, pagerSem}
    BY DEF IndInv, Flags, Stages, Fresh, Over
  <2>2. alive \cap Pagers = {} /\ swapSpace = <<>>
    BY <2>1 DEF IndInv, Tables, Holds
  <2> QED BY <2>1, <2>2
<1> QED BY <1>1, Inductive, PTL

(* However often the VM system comes up and goes down, the pages of the    *)
(* swap disk lie on it, apart from each other, and leave no sector unused. *)
THEOREM LayoutStaysSound == Spec => [](HoldsOnDisk /\ HoldsDisjoint /\ DiskUsed)
<1>1. IndInv => HoldsOnDisk /\ HoldsDisjoint /\ DiskUsed
  BY AllUsed DEF IndInv, LayoutInv
<1> QED BY <1>1, Inductive, PTL
=============================================================================
