# Demand paging of OS_Simulation_Ph2: TLA+ models and proofs

The repository is phase 3 of a course operating system: a virtual memory
system (`phase3-starter-fall20/`) on top of a kernel (phase 1), disk drivers
(phase 2) and the USLOSS machine, which are linked as libraries
(`subdir.mk:45-53`). A process that touches a page without a frame traps into
`FaultHandler`; pager processes take the faults from a queue, find or free a
frame, bring the page in from the swap disk or clear it, and answer.

In this text 3a, 3b, 3c and 3d are `phase3a/phase3a.c`, `phase3b/phase3b.c`,
`phase3c/phase3c.c` and `phase3d/phase3d.c`.

## 1. Inventory

| component | state | operations | hard behaviour | what makes it correct |
|---|---|---|---|---|
| Fault hand-off (3c) | `faultQueue`, `pagerSem`, `pagerTracker`, `shutDown`, one `Fault` record on the stack of each waiting process | `FaultHandler`, `enqueue`, `dequeue`, loop of `Pager`, `P3PagerInit`, `P3PagerShutdown` | many processes and pagers, shutdown with faults queued, pointers into other stacks | a fault is queued or held once, answered once; start-up and shutdown complete |
| Frames (3c) | `freeFrames`, `usedMap`, entries of page tables | `P3FrameInit`, `P3FrameShutdown`, `P3FrameMap`, `P3FrameUnmap`, `P3FrameFreeAll`, scan in `Pager` | the flag of a free frame is cleared long after it was chosen; result codes ignored | a frame holds one page of one process; free frames are mapped nowhere |
| Swap and clock (3d) | `swapSpace`, `frames` (page by frame), `chooseF`, `hand`, semaphores by pid | `P3SwapInit`, `P3SwapShutdown`, `P3SwapOut`, `P3SwapIn`, `P3SwapFreeAll`, `getSem` | disk operations block while owners and other pagers run or quit; swap runs out | a page has one slot; the records agree; data survives; a kill leaves the rest intact |
| Page tables (3a, 3b) | `pageTables[pid]` | `P3_AllocatePageTable`, `P3_FreePageTable`, `P3PageTableGet` | released in two halves while pagers work | slots in use belong to a process with a table |
| Life cycle (3a, 3c, 3d) | `initialized`, three `init` flags, `USLOSS_IntVec`, the MMU, arrays, lists and semaphores of each part | `P3_VmInit`, `P3_VmShutdown`, `P3_Startup`, the Init and Shutdown of each part | an init step that fails half way; init after shutdown; two fault handlers and two kinds of page table in four builds | success means every part is there; down means switched off, and everything released that shutdown is to release |
| Identity handler and stubs (3b) | page tables | `P3PageFaultHandler`, `PageTableAllocateIdentity` | used beside pagers when `P3_VmInit` fails half way | page x is in frame x only in a build without pagers |
| Swap layout (3d) | track, start and length of each slot | `makeHoldList` | sizes of sector, page and track at their limits | slots are disjoint, inside the disk and fill it |
| Statistics | `P3_vmStats` | increments in 3c and 3d | paths that count and then give up | the counts mean what `phase3.h:29-40` says |
| Phase 1, phase 2, USLOSS | external | dispatcher, `P1_P`/`P1_V`, `P1_Quit`, disk driver, MMU with REF and DIRTY bits | priorities and time slices | assumed, see section 4 |

Interaction: the handler and the pagers share the queue and two kinds of
semaphores (`pagerSem`, one `wait` per fault). Pagers change the tables of
other processes, a quitting process changes slots and frames that a pager may
be writing, and everything a pager does with a page happens around blocking
calls to the disk.

## 2. Modules

| module | models | lines of C |
|---|---|---|
| `FaultProtocol` | abstract: what the fault path promises to a process (running, pending, held, answered, dead) | |
| `FaultService` | fault hand-off, start-up and shutdown of the pagers; the work on a page is one step | 3c:324-576 |
| `FaultServiceProofs` | theorems about `FaultService` | |
| `PrivateMemory` | abstract: each process has pages of its own that keep what was last stored | |
| `MCPaging` | the symmetries that `paging_one` and `paging_shared` use | |
| `SwapLayoutProofs` | theorems about `SwapLayout` | |
| `VmLifecycleProofs` | theorems about `VmLifecycle` | |
| `PagingProofs` | theorems about `Paging` for every instance | |
| `OnePagerProofs` | theorems about `Paging` with one pager: page tables, frame list and slots | |
| `IsolationProofs` | the same, what frames and slots contain | |
| `OneProcessProofs` | theorems about `Paging` with one pager and one process | |
| `RoomProofs` | the same with a swap slot for every page | |
| `SwapLayout` | where each page of the swap disk lies; one turn of the loop a step | 3d:120-150, 3d:183-189 |
| `VmLifecycle` | composes `SwapLayout` with `P3_VmInit`, `P3_VmShutdown`, the init and shutdown functions, the fault handlers and the page tables, in the four builds of phase 3 | 3a:55-366, 3b:18-59, 3c:88-145, 3c:377-460, 3d:175-305, `p3stubs.c` |
| `MCLifecycle` | the disks and numbers of pagers of its runs | |
| `Paging` | frames, swap slots, clock, page tables, MMU bits, pagers and processes | 3c:161-576, 3d:175-569, 3a:179-253, 3b:61-76 |

`FaultService` and `Paging` look at the same pager loop from two sides: the
first leaves out what happens between `dequeue` and the answer, the second
leaves out start-up, shutdown, access violations and the count of `pagerSem`.
Both implement `FaultProtocol`; `Paging` also maps to `PrivateMemory`.
`VmLifecycle` is the frame around both: it has every state in which they may
start or may have to stop, and reduces what happens in between to whether a
fault is served, by whom, and what that leaves in a page table.

### FaultService

The initialising process is `main` with the loop index `next`; the pagers are
`pc[i]` and the fault they hold, `cur[i]`. Every action is what runs between
two blocking calls: `ForkPager`/`JoinPager` are the two halves of the loop
body at 3c:407-413, `PostPager` is one turn of 3c:446-449, `FreeSems` is
3c:451-457. `Fault` is the handler up to `P1_P(wait)` (no interrupt can come
between `enqueue` and `P1_V`: the handler runs with interrupts off), `Resume`
the rest. `Take` is `P1_P(pagerSem)` and `dequeue`; the queue may be empty,
then the pager goes round its loop. A `Fault` record is identified with the
process on whose stack it lies, which is what lets `FaultConserved` say that
no pager follows a stale pointer. Processes fault only while the handler and
`pagerSem` exist: the callers in the repository start them after
`P3_VmInit` and wait for them before `P3_VmShutdown`; faults between the
beginning and the end of shutdown are allowed all the same.

### Paging

* Processes: `Load`, `Store`, `Fault`, `Resume`, `Quit`, then
  `SwapFreeAll` and `FrameFreeAll`, the two halves of `P3_FreePageTable`, and
  `Spawn` in the same slot.
* Pagers, in the order of the code: `Take`; `FreeFrame` or `SwapOut`, `Clock`
  (one turn of the hand), `Save` up to `P2_DiskWrite`, `Written` after it,
  `Unmap`; then `SwapInRead`/`ReadDone`, or `FindRoom`, `Claim` and `ZeroFill`;
  then `Map`, or `Kill` if swap space ran out. `FindRoom` is the search for a
  slot with room and `Claim` the four assignments that take it (3d:545-550):
  no lock that pagers share is held between them.
* What ends the machine is a value of `crash`: `SaveNothing` (a NULL slot is
  followed, 3d:434), `UnmapGarbage` (`pte` unassigned, 3d:459),
  `ReadDoneAssert` (3d:540) and `MapFails` (3c:240).
* Memory is `mem[f]` and `disk[b]`; a page holds `Zero` or a stamp
  `<<process, page, version>>`, enough to tell whose data it is and how old.
* A pager's own `memcpy` and `memset` set the REF and DIRTY bits of the frame,
  because the MMU keeps them per frame (`USLOSS_MmuGetAccess(frame)`).
* `pte` unassigned is undefined behaviour: `UnmapGarbage` is enabled beside
  `Unmap`, so it may crash or may happen to be some table.
* Left out: argument checks that the callers in the repository never fail,
  allocation failure, console output, and the counters `new`, `pageIns` and
  `pageOuts`, on which no step depends (`P3_PrintStats` and the tests read them).

### SwapLayout

`AddHold` is one turn of the loop of `makeHoldList`; a Hold is its track and
first sector (its length is always `sectorInPage`). `Space` is the number of
Holds that `P3SwapInit` computes. `Geometries` are the disks considered; USLOSS
sizes are powers of two, so a page divides a track or is larger than one
(`GeometryAssumption`). A page larger than a track has no Hold at all: `Space`
is 0.

### VmLifecycle

* `build` is the stage of phase 3: "a" to "d". A part that comes later is a
  stub that succeeds and does nothing (`phase3a/p3/p3stubs.c`,
  `phase3b/p3/p3stubs.c`, `phase3c/tests/test_basic.c:146-152`); so "a" has
  identity tables and a handler that halts, "b" has `P3PageFaultHandler`, "c"
  has frames and pagers, "d" has swap.
* `step` is the function that `P3_VmInit` or `P3_VmShutdown` calls next; each
  call is an action (`FrameInit`, `MakeHold`/`SwapInit`, `PagerInit`;
  `PagerShutdown`, `SwapShutdown`, `FrameShutdown`, `VmDown`). `InitFails`
  returns from `P3_VmInit` and leaves behind what was done; `MMUInitHalts` is
  the default case of `MMUInit` (3a:299-301), which ends the machine before
  anything is up; `ShutdownFails` is an assertion of 3a:136-143 or of the
  function called.
* What a part owns ("none", "live", "freed", or "leaked") is apart from its
  init flag, because shutdown frees the one and does not reset the other.
* `Spawn`, `Fault` and `Quit` are the processes in between, with what a fault
  meets: the handler in `USLOSS_IntVec`, a pager with a page table, a semaphore
  that can be created. Swap reads, evictions and the rest are `Paging`'s.
* `temp3` is unassigned at 3d:283: the list of frames is freed or leaked.
* Protection faults end the machine or the process (3b:50, 3c:497) without a
  step of this module. The NULL-table branch of 3b:34 needs a process born
  before `P3_VmInit`; the model gives such a process no VM region.

## 3. Runs

| run | instance | checks | result |
|---|---|---|---|
| `fault_service` | 3 processes, 2 pagers | all properties of `FaultService` | holds, 54 183 states |
| `paging_one` | 1 process, 1 pager, 2 frames, 3 pages, 3 blocks, 2 versions (symmetric), 1 respawn | `NoCrash`, `StatsCount`, `ImplementsMemory` | holds, 682 580 states |
| `paging_shared` | 2 processes (symmetric) above the pager in priority, 1 pager, 2 frames, 2 pages, 3 blocks | `FrameExclusive`, `FreeFramesUnmapped`, `SlotExclusive`, `RecordsAgree`, `Isolation`, `CrashOverOrphan` | holds, 2 615 034 states |
| `paging_pagers` | 2 processes, 2 pagers that share the CPU at every step, 1 frame, 2 pages, 2 blocks, quits preempted | `TypeOK`, `MutexUncontended`, `BusyIsBeingFilled`, `ImplementsProtocol`, `FaultServed` | holds, 599 084 states |
| `lifecycle` | 2 processes, numbers of pagers -1, 0, 1, 3, 4, two calls of `P3_VmInit`, 12 disks, 4 builds | all properties of `VmLifecycle` and `SwapLayout` but `NoAssert` and `CleanedUp` | holds, 84 756 states |
| `lost_update` | 2 processes, 1 pager, 1 frame | `ImplementsMemory` | violated |
| `double_frame` | 2 processes, 2 pagers, 1 frame, 2 pages | `FramesChosenOnce` | violated |
| `late_write` | 2 processes, 2 pagers, 1 frame, 2 pages, 2 blocks, 1 respawn | `Isolation` | violated |
| `garbage_table` | 1 process, 1 pager, 1 frame, 2 pages, 1 block, 1 respawn | `NoCrash` | violated |
| `slot_race` | 2 processes, 2 pagers that share the CPU at every step, 2 frames, 1 page, 2 blocks | `SlotExclusive` | violated |
| `reinit` | 1 process, 2 pagers, two calls of `P3_VmInit` | `NoAssert` | violated |
| `cleaned_up` | 1 process, 2 pagers, one call of `P3_VmInit` | `CleanedUp` | violated |

What the passing runs show:

* `fault_service`: from boot to shutdown, with faults raised at any moment, no
  fault is lost, taken twice or answered twice; `pagerSem` and the queue agree;
  the semaphores are freed with nobody on them; shutdown ends. The one thing
  not promised is stated in `FaultAnswered`: a fault still in the queue when
  `shutDown` is set is never answered.
* `paging_one`: with a single process the paging code is a correct
  implementation of private memory. `NoCrash` and `StatsCount` need the room on
  disk; `ImplementsMemory` does not (section 5).
* `paging_shared`: the processes have the priority of the children in the tests
  of 3d (1, `test_out_of_swap.c:23` and `:112`), above the pager's 2, so they
  load, store, fault and quit between any two steps of the pager. With one pager
  frames, slots and data stay private all the same, and the records agree. The
  disk holds fewer pages than the processes have, so faults end in kills. What
  ends the machine is stated in `CrashOverOrphan`: the clock chose a frame that
  no living process maps, because its owner quit (before the slot was looked
  up, 3d:434, or before the page table was, 3d:459) or because a kill left it
  behind. All other assertions and pointers hold.
* `paging_pagers`: two pagers may lose the CPU to each other at every step, and
  every crash is reachable. The semaphores by pid are never waited for (they
  order nothing). The fault protocol is kept. A pager marks a frame busy and
  loses the CPU; the other's clock may turn for a while, but no frame stays busy
  after its pager has filled it or given up, so every fault is answered.
* `lifecycle`: after `P1_SUCCESS` every fault finds the handler of its build
  and a pager that has a page table (`SuccessMeansUp`); tables live as long as
  their processes (`TablesMatchLives`); the identity handler meets processes of
  a build with pagers only after a failed `P3_VmInit` (`FramesFromPagers`);
  while the VM system is down no fault can happen, no pager is left, and Holds,
  nodes, `pagerSem` and the arrays of 3c have been freed (`DownMeansReleased`);
  what is not freed is the matter of `cleaned_up`. `CrashAfterFailedInit` bounds
  what can go wrong in the life cycle itself: either `USLOSS_MmuInit` had an
  unexpected result and `MMUInit` halted with nothing up, or `P3_VmInit` failed
  after 3a:89 (no pagers, or a second initialisation) and then a process faults
  or quits, or `P3_VmShutdown` begins. That pagers at work have assertions of
  their own that fail, in complete systems too, is shown by the runs of
  `Paging`. The three properties of `SwapLayout` hold for pages that fill, divide or exceed a track.

What the violations show (the shortest traces):

* `lost_update`: p1's page is chosen, copied and being written; p1 runs, since
  its page is still mapped, and stores; the write returns, DIRTY is cleared
  and the page unmapped. The store is gone.
* `double_frame`: the first pager is in `P2_DiskWrite` for frame 0, which is
  marked busy only at 3d:462; the second finds it not busy, clears its REF
  bit, and chooses it.
* `late_write`: p1's page is being written by the first pager. p1 quits, and
  its frame and its slot are free again. The process that takes p1's place
  faults; the second pager gives it that frame and that slot. Then the first
  pager's write ends: p1's data is in the new process's slot, DIRTY is cleared
  of the new process's frame, and its page goes without being written. What it
  reads back later is p1's.
* `garbage_table`: a kill for lack of swap leaves the frame in no slot; when
  the clock comes back to it `pte` is not assigned.
* `slot_race`: both pagers have a fault on a page that was never used; each
  finds slot 0 with room (`FindRoom`) before either takes it; the second `Claim`
  overwrites the first. The first page is mapped and has no slot: when it is
  written out, `temp` is NULL at 3d:434. This is what 3d:15-16 asks a mutex for.
* `reinit`: `P3_VmInit` and `P3_VmShutdown` succeed; the second `P3_VmInit`
  returns `P3_ALREADY_INITIALIZED` from `P3FrameInit` with `initialized` set;
  the `P3_VmShutdown` of `P3_Startup` then posts a `pagerSem` that was freed
  (3c:447).
* `cleaned_up`: `P3_VmInit` and `P3_VmShutdown` succeed, and the list of frames
  is leaked, or the semaphores of the pagers' pids are still there: their nodes
  are freed (3d:297-302), they are not. For the semaphores this is so in every
  shutdown of a build with swap: a pager that quits asks for its own
  (`P3_FreePageTable`, 3d:336). The list is the outcome of an unassigned pointer.

After a kill for lack of swap space `freeFrames` and `freeBlocks` of `P3_vmStats`
are wrong as well (3c:513 is not undone, 3d:562 is executed without a claim), so
`StatsCount` is checked and proved where swap space suffices.

### Bounds

In every run of `Paging` but `slot_race` the processes together have more pages
than there are frames, so pages are evicted all the time; with one frame every two faults compete
for it. Two processes are enough for data to cross over, two pagers for two
evictions to overlap, three processes in `FaultService` for a queue that holds two
faults while a third is being served by the second pager. `MaxSpawns` bounds how
often a process slot is used again; once, in `paging_one`, is enough to see what a
predecessor left behind. `paging_one` tells two stores to a page apart, so a page
that comes back with an older store is noticed; versions are interchangeable
there, as processes are in `paging_shared`, hence the symmetries declared in
`MCPaging`. `paging_pagers` has no stores, since what a page contains decides no
step and none of its properties is about contents (frames become dirty by the
pagers' own `memset` and `memcpy`). The other runs have one version, and tell a
page's own data from zeros and from that of another page or process. Cycles of
eviction are not bounded. `paging_shared` and `paging_pagers` have no respawn, so
that the interleavings fit; which properties that hides is said in section 5. In
`lifecycle` two calls of `P3_VmInit` suffice, since the init flags never go back;
the counts of pagers lie on both sides of each limit (3a:66, 3c:384); the disks have 1, 2 or 4 sectors to a page, 2 or 4 to a track,
1 or 3 tracks.
`CHECK_DEADLOCK FALSE` is set because the system may really stop: all processes
may quit, or a crash ends the machine.

## 4. Scheduling and fairness

Phase 1 is not in the repository, so what is assumed of it is stated here.

* Pagers run at `P3_PAGER_PRIORITY` 2 (`phase3.h:19`). The process that
  initialises and shuts down runs at 3 (3a:358), so it moves only when no
  pager is ready. The processes of the VM region have the priority that `P4`
  gives them: 3 in most tests of 3d, 1 in `test_out_of_swap.c`,
  `test_page_inout.c` and `test_page_inout1.c`. `Above` is the set of those with
  a higher priority than the pagers. A process in `Above` moves between any two
  steps of a pager, at a time slice, an interrupt or a wake-up; any other moves
  only while all pagers are blocked. Whoever is in `Above` is not preempted by a pager half way
  through `P3_FreePageTable`.
* `TimeSliced` says whether pagers, which have equal priority, lose the CPU to
  each other between blocking calls. With FALSE a pager keeps it from one such
  call to the next; with TRUE slices fall between any two steps of the model.
  If `Above` is not empty `TimeSliced` is TRUE (`PriorityAssumption`): a pager
  that was preempted may find another one on the CPU. Single steps are then
  still: one turn of the clock, the search for a slot, the four assignments of a
  claim, `++` and `--` of a counter, and operations on the linked lists (the
  queue, `getSem`, the frame list). What two pagers do to each other inside of
  these is not covered; the hazard at 3d:247 is the one that could matter.
  That the test of REF and its reset (3d:411-416) are one step hides nothing
  from a process above a single pager. The reset puts back the DIRTY bit that
  was read, but a frame that a process maps is dirty already, from the `memset`
  or `memcpy` that filled it until it is written out; a REF bit that is lost
  only makes the frame be chosen earlier.
* Without slices `FaultServed` does not hold for two pagers and one frame: the
  clock at 3d:406 turns on the CPU that the owner of the busy frame is waiting
  for. With processes above the pagers its fairness would not be justified: they
  may keep the CPU for ever. So it is checked with `Above` empty.
  In `FaultService` pagers interleave freely.
* In `VmLifecycle` the processes of the VM region have ended when `P3_VmShutdown`
  is called, as in all tests: P4 waits for its children. So no pager is in a
  disk operation then, and the pagers, above the caller, have exited before
  their semaphores are freed (`SemFreedUnused` and `ShutdownCompletes` of
  `FaultService` are the two facts used).
* `QuitPreempts` says whether a pager whose disk operation ends can run between
  the two halves of `P3_FreePageTable` (3a:233-239). The repository does not
  show whether phase 1 masks interrupts there. `paging_pagers` has TRUE, the
  other runs FALSE. With TRUE a pager can evict a page whose slot is
  already gone and leave its entry in the table; then `FrameExclusive` does not
  hold, even with one pager.

Fairness: weak fairness of each pager's next step (the kernel runs a ready
process of the highest priority, and the disk answers), of `Resume` and of the
loops of start-up and shutdown. Faulting, quitting and calling
`P3_VmShutdown` are never assumed. In `Paging` only the second half of
`P3_FreePageTable` is assumed to follow the first.

## 5. Proofs

Each safety property that a passing run checks is also a theorem, and so is
each of the refinements; the run shows it on one instance, the theorem for
every value of the constants that its hypotheses allow (they are tabled below;
`paging_shared` checks `Isolation` outside of those of its theorem). The proof modules
extend one another from the general to the particular: `PagingProofs`,
`OnePagerProofs`, `IsolationProofs`, `OneProcessProofs`, `RoomProofs`, each with
an invariant that holds only under one more hypothesis. Every proof of an
invariant has one lemma per action, split by the conjuncts that the action can
disturb.

| module | theorem | property |
|---|---|---|
| `FaultServiceProofs` | `TypeCorrect` | `TypeOK` |
| | `FaultsAreConserved` | `FaultConserved` |
| | `TokensAreFaults` | `TokensMatchFaults` |
| | `FreeIsSafe` | `SemFreedUnused` |
| | `UpMeansStarted` | `StartedWhenUp` |
| | `HandOffImplementsProtocol` | `ImplementsProtocol` |
| `SwapLayoutProofs` | `LayoutOnDisk`, `LayoutDisjoint`, `LayoutComplete` | `HoldsOnDisk`, `HoldsDisjoint`, `DiskUsed` of the loop alone |
| `VmLifecycleProofs` | `TypeCorrect` | `TypeOK` |
| | `SuccessIsUp` | `SuccessMeansUp` |
| | `TablesAreOwned` | `TablesMatchLives` |
| | `FramesGivenOut` | `FramesFromPagers` |
| | `CrashesAfterFailure` | `CrashAfterFailedInit` |
| | `DownIsReleased` | `DownMeansReleased` |
| | `LayoutStaysSound` | the three of the layout, through the whole life cycle |
| `PagingProofs` | `TypeCorrect` | `TypeOK` |
| | `SlotsAreExclusive` | `SlotExclusive` |
| | `MutexesAreFree` | `MutexUncontended` |
| | `BusyIsFilled` | `BusyIsBeingFilled` |
| | `PagingImplementsProtocol` | `ImplementsProtocol` |
| `OnePagerProofs` | `FramesAreExclusive` | `FrameExclusive` |
| | `FreeFramesAreUnmapped` | `FreeFramesUnmapped` |
| | `RecordsDoAgree` | `RecordsAgree` |
| | `CrashesOverOrphans` | `CrashOverOrphan` |
| `IsolationProofs` | `PagesAreIsolated` | `Isolation` |
| | `OnlyTheTable` | the only crash is that of 3d:459 |
| `OneProcessProofs` | `PagingImplementsMemory` | `ImplementsMemory` |
| `RoomProofs` | `NeverCrashes` | `NoCrash` |
| | `CountsAreRight` | `StatsCount` |

The theorems `Inductive`, `LayoutInductive`, `TablesInductive`, `OneInductive`,
`CopiesInductive` and `AccountsInductive` state the invariants that the others
follow from.

### Assumptions

Of the constants: `NumPagers` of `FaultService` is a positive natural, which
3c:384 tests, and `None` is not a process. In `Paging` processes and pagers are
different names, the numbers of frames, pages and blocks are positive
(`SizesAssumption`, `NamesAssumption`); the two switches of the scheduler are
Booleans and processes above the pagers come with time slices
(`SchedulingAssumption`, `PriorityAssumption`). `VmLifecycle` has pids of
processes and pagers apart and numbers of pagers that are any integers. In `SwapLayout` a page divides a track
or is larger than one (`GeometryAssumption`). All of them are `ASSUME`s of the
module that declares the constants, which TLC evaluates in the runs. The
theorems about `Paging` have hypotheses besides:

| theorems | hypotheses | what happens without them |
|---|---|---|
| `PagingProofs`, but `SlotsAreExclusive` | none: any processes, priorities, pagers, slices and preempted quits | |
| `SlotsAreExclusive` | `NoSlices`: one pager, or pagers that lose the CPU only where they block | `slot_race` |
| `OnePagerProofs` | one pager, `~QuitPreempts`; processes of any priority | with two pagers `FrameExclusive`, `FreeFramesUnmapped`, `RecordsAgree` and `CrashOverOrphan` fail in the instance of `double_frame` with one respawn; with `QuitPreempts` a page is evicted after its slot is gone |
| `IsolationProofs` | the same and `Undisturbed`: no process is above the pager, or there is one process | `late_write` with two pagers; with one, see below |
| `OneProcessProofs` | one pager, `~QuitPreempts`, one process | `lost_update`: another process stores during the write |
| `RoomProofs` | the same and `NumPages <= NumBlocks` | `garbage_table`: a kill loses a frame, and the statistics count wrongly |

Where processes are above the pager `Isolation` is false if process slots are used
again: a process stores into its page after the write has ended and before the page
is unmapped (between 3d:440 and 3d:452), the fault ends in a kill, so the frame is
lost and dirty, the process quits, another with its pid is given a slot for that
page, and the clock, which finds the frame again, saves the predecessor's data to
it. TLC finds this with 2 processes, 2 frames, 2 pages, 2 blocks, one respawn
and one process above the pager (a trace of 64 states, too long a search for a run
of this project). `paging_shared` checks `Isolation` for processes above the pager
without respawn.

The single process of `RoomProofs` is needed too. Of two processes, with room
for the pages of both, one can quit while its page is being written to make
room for the other: the frame goes to the free list and to the pager, and
neither `NoCrash` nor `StatsCount` holds (TLC finds this with one frame, one
page each, three blocks).

### The inductive invariants

The properties alone are not inductive. What each invariant adds:

* `FaultServiceProofs`. `StartUp`, where the fork loop stands: pagers are born
  in index order, and only the one being joined may have signalled. `TypeOK`
  needs it, or a start semaphore could count two. `ShutDownFlag` and
  `HeldIsProc` connect the flag with `main` and a pager at work with a process.
  `SleepersCovered` is a counting argument: while shutdown posts its tokens,
  the pagers still asleep are no more than the tokens posted and still to be
  posted. When the last is posted and no pager is ready (`MainRuns`), tokens
  cannot be left while a pager sleeps, so none sleeps, and `pagerSem` may be
  freed. This is where the priority of the pagers is used.
* `SwapLayoutProofs`. `Filled` says that the sectors handed out are exactly
  those before the next Hold: with it the number of Holds, a rounded quotient,
  bounds the track being filled. `Behind` gives disjointness, `Covered` that
  nothing is skipped. A little integer arithmetic (a page that divides a track
  reaches its end exactly) is stated as lemmas first.
* `VmLifecycleProofs`. `Stages` says what each function that `P3_VmInit` and
  `P3_VmShutdown` call next finds done: nothing yet, everything taken down, or
  the parts before it live. In particular a system that a failed `P3_VmInit`
  left half up never gets past `P3PagerShutdown`, whose assertion ends the
  machine; that is why `DownMeansReleased` survives failed starts. `Flags`,
  `SemsKnown`, `Holds`, `Tables`, `Handlers` and `Success` tie flags,
  semaphores by pid, Holds, page tables, handler and result to the stage. It
  includes `LayoutInv`, since `MakeHold` is a step of the loop.
* `PagingProofs`. `Queue` and `Hands`: a fault owed to a process is in the
  queue once or in one pager's hands. `Places` and `Locks`: which frame, slot
  and semaphore each label implies; a semaphore by pid is taken either by a
  pager for itself or by the one pager that has the fault of that pid, so
  nobody waits. `Owned`, `DeadEmpty`: a slot in use is some process's, a process
  that is gone has an empty table. This much, `IndInv`, assumes nothing of the
  scheduler. Who owns a slot does: `SlotInv` has, under `NoSlices`, `OneRuns`
  (one pager at a time is between two blocking calls), `Claiming` (the slot that
  was found still has room when it is claimed, and the page still has none) and
  `SlotReady` (a page being filled has its slot), and with them `SlotExclusive`.
* `OnePagerProofs`. `TableInv` follows the frame in the pager's hands whatever
  processes do at any moment: `OwnTable` (`P3FrameMap`'s temporary mapping is
  the only entry of the pager's own table, so the search for an unused entry at
  3c:234 succeeds), `Filling`, `FaultAbsent` (a page that is waited for is not
  mapped by anyone in the meantime), and the four properties. A chosen frame
  that a living process maps has a slot that names it, by `SlotExclusive` and
  `RecordsAgree` (`OwnTableServes`, `SlotOfFrame`); so a crash means it has lost
  its owner.
* `IsolationProofs`. `DataInv`: `Turns` (the two halves of `P3_FreePageTable`
  fall between blocking calls, and the clock runs only with no frame free),
  `Saving`, `DirtyKept` and `Contents`. `Contents` is the reason for
  `DirtyKept`: a slot whose page was never written holds data of another
  process, and that does no harm only because its page is dirty, so it will be
  written before it is read. It needs `Undisturbed`: a store after the write
  leaves a dirty frame behind that belongs to nobody.
* `OneProcessProofs`. `Copies`: a mapped page that is not dirty is the same on
  the disk, and during a write the buffer is the same as the frame and the
  frame still mapped, because the only process waits. The refinement then
  follows from what a page holds, case by case (`Holds`): its frame when it is
  mapped, zeros before it has a slot, the frame being filled, its slot
  otherwise. `VisibleHolds` and `VisibleNext` show that these cases are
  `Visible`, the refinement mapping, so that the proof never expands a
  `CHOOSE`. No room on disk is needed: a kill ends the process before it can see
  anything.
* `RoomProofs`. `Accounts`: every frame is free, in the pager's hand or mapped
  (`Kept`), and the statistics count free frames, with the one in hand, and free
  slots (`Counts`). That there is a slot for every page is the pigeonhole
  principle (`RoomForAll`): were all slots in use by the other pages, two would
  be of one page. That every frame the clock chooses is in a slot (`Evicted`)
  rules out the unassigned table of 3d:459.

### Only model-checked

The liveness properties `FaultAnswered`, `ShutdownCompletes` and `FaultServed`
(liveness under fairness is out of the prover's reach); `Isolation` for processes
above the pager; and that the seven runs that expect a violation find one.

## 6. Plan

Done: the hand-off; paging with the clock, with and without time-sliced pagers
and with processes below and above them; the life cycle in all builds; the layout
of the swap disk; for all of them the safety properties and refinements as
theorems.

Left, for proof:

1. `RoomProofs` and `OneProcessProofs` for several processes that never quit
   while a page of theirs is written, to see which of the two hypotheses each
   conjunct needs.
2. `Isolation` for processes above the pager that are not respawned, the case
   that only `paging_shared` checks.
3. Which parts of `TableInv` survive several pagers: the properties do not, but
   the pagers' own tables may stay in order.

### Not modelled

* The inside of phase 1, phase 2 and USLOSS, whose source is not here; console
  output (`P3_PrintStats`); tests and build files.
* The counters `new`, `pageIns`, `pageOuts` and `replaced`: no step of the system
  depends on them. `P3_PrintStats` prints them, and tests read `pageIns` and
  `pageOuts` (`phase3d/tests/test_page_inout.c:100`, `test_no_replacement.c:227-228`,
  `test_lots_of_replacement.c:238-239`). `faults`, which `phase3.h:35` declares and
  `phase3d/tests/test_page_inout.c:99` looks at, is incremented nowhere.
* A time slice inside a list operation, a claim or an update of a counter
  (section 4).
* The names of the semaphores of faults (a pid, 3c:341) and of pagers (an index,
  3c:397): whether they collide depends on the pids that phase 1 gives out.
  `VmLifecycle` has pids of processes and pagers apart. The names of the
  semaphores by pid (3d:215), which stay taken after shutdown, are modelled.
* Pages that neither divide a track nor are larger than one: they cannot be
  made with USLOSS's sizes.
* Arguments that no caller passes (a pid or page out of range) and failures of
  `malloc`.
