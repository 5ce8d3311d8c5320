------------------------------- MODULE Paging --------------------------------
(***************************************************************************)
(* Demand paging with a clock: the frames and pagers of phase3c.c, the     *)
(* swap space and clock of phase3d.c, and the processes they serve.        *)
(*                                                                         *)
(* Scheduling.  Phase 1 is external to this repository.  The pagers run at *)
(* P3_PAGER_PRIORITY 2.  A process of lower priority moves only while all  *)
(* pagers are blocked, in P1_P(pagerSem) or in P2_DiskRead or              *)
(* P2_DiskWrite; one of higher priority (Above: the tests of phase 3d use  *)
(* 3 and 1) moves between any two steps of a pager.  With TimeSliced       *)
(* pagers, too, may lose the CPU to each other between any two steps;      *)
(* without, a pager keeps it from one blocking call to the next.  A pager  *)
(* whose disk operation ends preempts a process of lower priority          *)
(* anywhere, even between the halves of P3_FreePageTable.                  *)
(*                                                                         *)
(* A page table entry is the frame it maps, or Absent when incore is 0:    *)
(* the code sets read and write whenever it sets incore.                   *)
(* The REF and DIRTY bits belong to the frame (USLOSS_MmuGetAccess takes   *)
(* a frame) and a pager's own memcpy and memset set them too.              *)
(***************************************************************************)
EXTENDS Integers, Sequences, FiniteSets

CONSTANTS
  Procs,       \* process slots that use the VM region
  Above,       \* those whose priority is above that of the pagers
  Pagers,      \* the pager processes
  None,        \* no process
  NumFrames, NumPages,
  NumBlocks,   \* pages that fit on the swap disk
  Versions,    \* how many different stores to a page are told apart
  TimeSliced,  \* do pagers lose the CPU to each other between blocking calls?
  QuitPreempts, \* can a pager run between the halves of P3_FreePageTable?
  MaxSpawns    \* bound: process slots are used again this many times

ASSUME SizesAssumption == /\ NumFrames \in Nat \ {0} /\ NumPages \in Nat \ {0}
                          /\ NumBlocks \in Nat \ {0} /\ MaxSpawns \in Nat
ASSUME SchedulingAssumption == QuitPreempts \in BOOLEAN /\ TimeSliced \in BOOLEAN
\* A pager that a process has preempted may find another pager on the CPU.
ASSUME PriorityAssumption == Above \subseteq Procs /\ (Above # {} => TimeSliced)
ASSUME NamesAssumption == /\ Procs \cap Pagers = {}
                          /\ None \notin Procs \cup Pagers

Frame  == 0 .. NumFrames - 1
Page   == 0 .. NumPages - 1
Block  == 0 .. NumBlocks - 1
Absent == -1
Zero   == <<>>                                 \* a page of zeros
Stamps(p, g) == {<<p, g, v>> : v \in Versions}
Data   == {Zero} \cup UNION {Stamps(p, g) : p \in Procs, g \in Page}

VARIABLES
  proc,        \* proc[p]: "user", "fault", "quit", "free" (between the two
               \* halves of P3_FreePageTable) or "dead"
  fault,       \* fault[p]: page, kill and wait of p's Fault record
  faultQueue,
  pc,          \* pc[i]: where pager i is; "idle" is P1_P(pagerSem)
  cur, frame,  \* Pager's `fault` and `frame`
  block, buf,  \* the slot and the buffer of a disk operation
  pageTable,   \* pageTables[pid] of processes and pagers
  freeFrames, usedMap, chooseF,    \* the frames whose flag is set
  inFrame,     \* the list `frames` of phase3d.c
  swapSpace,   \* swapSpace[b]: the Hold record of slot b
  hand,
  ref, dirty,  \* the frames whose bit is set
  mem, disk,   \* contents of frames and slots
  mutex,       \* pids whose getSem(pid) semaphore is held
  vmStats,     \* the freeFrames and freeBlocks fields of P3_vmStats
  spawns,      \* counts Spawn, bounded by MaxSpawns
  crash        \* what ended the machine, or "none"

procVars  == <<proc, fault, faultQueue, spawns>>
pagerVars == <<pc, cur, frame, block, buf>>
frameVars == <<freeFrames, usedMap>>
swapVars  == <<chooseF, inFrame, swapSpace, hand, mutex>>
hwVars    == <<ref, dirty, mem, disk>>
vars == <<procVars, pagerVars, pageTable, frameVars, swapVars, hwVars, vmStats,
          crash>>

EmptyTable == [g \in Page |-> Absent]
FreeSlot   == [pid |-> None, page |-> -1, frame |-> -1, room |-> 0]

\* The state after P3_VmInit with one process in every slot.
Init ==
  /\ proc = [p \in Procs |-> "user"]
  /\ fault = [p \in Procs |-> [page |-> 0, kill |-> FALSE, wait |-> 0]]
  /\ faultQueue = <<>>
  /\ pc = [i \in Pagers |-> "idle"]
  /\ cur = [i \in Pagers |-> None]
  /\ frame = [i \in Pagers |-> -1]
  /\ block = [i \in Pagers |-> -1]
  /\ buf = [i \in Pagers |-> Zero]
  /\ pageTable = [q \in Procs \cup Pagers |-> EmptyTable]
  /\ freeFrames = Frame /\ usedMap = {} /\ chooseF = {}
  /\ inFrame = [f \in Frame |-> [pid |-> None, page |-> -1]]
  /\ swapSpace = [b \in Block |-> FreeSlot]
  /\ hand = -1
  /\ ref = {} /\ dirty = {}
  /\ mem = [f \in Frame |-> Zero] /\ disk = [b \in Block |-> Zero]
  /\ mutex = {}
  /\ vmStats = [freeFrames |-> NumFrames, freeBlocks |-> NumBlocks]
  /\ spawns = 0
  /\ crash = "none"

Blocked == {"idle", "writing", "reading"}
PagerRuns(i) == /\ crash = "none"
                /\ TimeSliced \/ \A j \in Pagers \ {i} : pc[j] \in Blocked
                /\ \A p \in Procs : proc[p] = "free" => QuitPreempts /\ p \notin Above
ProcRuns(p) == /\ crash = "none"
               /\ p \in Above \/ \A j \in Pagers : pc[j] \in Blocked

First(x, S) == x \in S /\ \A y \in S : x <= y
Last(x, S)  == x \in S /\ \A y \in S : x >= y

Entries(q, f) == {g \in Page : pageTable[q][g] = f}

\* P3FrameMap by pager i: the last page not in core maps frame f.
FrameMap(i, f) == \E g \in Page : /\ Last(g, Entries(i, Absent))
                                  /\ pageTable' = [pageTable EXCEPT ![i][g] = f]
                                  /\ usedMap' = usedMap \cup {f}

\* P3FrameUnmap by pager i fails unless i maps f and the flag of f is set.
CanUnmap(i, f) == f \in usedMap /\ Entries(i, f) # {}
\* Mutant: the entry stays in the pager's page table.
FrameUnmap_KeepEntry(i, f) == UNCHANGED pageTable /\ usedMap' = usedMap \ {f}

FrameUnmap(i, f) == \E g \in Page : /\ Last(g, Entries(i, f))
                                    /\ pageTable' = [pageTable EXCEPT ![i][g] = Absent]
                                    /\ usedMap' = usedMap \ {f}

Occupied(b, p, g) == swapSpace[b].pid = p /\ swapSpace[b].page = g
Slots(p, g) == {b \in Block : swapSpace[b].room = 1 /\ Occupied(b, p, g)}   \* getSpace
\* Mutant: the room of a slot is not looked at.
Room_Any == Block

Room == {b \in Block : swapSpace[b].room = 0}

Crash(what) == /\ crash' = what
               /\ UNCHANGED <<procVars, pagerVars, pageTable, frameVars,
                              swapVars, hwVars, vmStats>>

\* Mutant: dequeue leaves the head in the list.
Dequeue_KeepHead(i) == /\ faultQueue # <<>>
                       /\ cur' = [cur EXCEPT ![i] = Head(faultQueue)]
                       /\ UNCHANGED faultQueue

Enqueue(p) == faultQueue' = Append(faultQueue, p)
Dequeue(i) == /\ faultQueue # <<>>
              /\ cur' = [cur EXCEPT ![i] = Head(faultQueue)]
              /\ faultQueue' = Tail(faultQueue)

Goto(i, label) == pc' = [pc EXCEPT ![i] = label]

\* Mutant: the answer is posted twice.
Answer_Twice(i, kill) ==
  /\ fault' = [fault EXCEPT ![cur[i]].kill = kill, ![cur[i]].wait = @ + 2]
  /\ Goto(i, "idle")
  /\ cur' = [cur EXCEPT ![i] = None] /\ frame' = [frame EXCEPT ![i] = -1]

\* Mutant: a process that is to quit is not woken.
Answer_SilentKill(i, kill) ==
  /\ fault' = [fault EXCEPT ![cur[i]].kill = kill,
                            ![cur[i]].wait = IF kill THEN @ ELSE @ + 1]
  /\ Goto(i, "idle")
  /\ cur' = [cur EXCEPT ![i] = None] /\ frame' = [frame EXCEPT ![i] = -1]

\* P1_V(fault.wait), with the verdict; the pager goes back to its loop.
Answer(i, kill) ==
  /\ fault' = [fault EXCEPT ![cur[i]].kill = kill, ![cur[i]].wait = @ + 1]
  /\ Goto(i, "idle")
  /\ cur' = [cur EXCEPT ![i] = None] /\ frame' = [frame EXCEPT ![i] = -1]
-----------------------------------------------------------------------------
(* A pager (Pager, P3SwapOut and P3SwapIn), from one call to the next.     *)

\* P1_P(pagerSem) and dequeue.  Spurious wake-ups and access violations are
\* FaultService's business.
Take(i) == /\ pc[i] = "idle" /\ PagerRuns(i)
           /\ Dequeue(i)
           /\ Goto(i, "scan")
           /\ UNCHANGED <<proc, fault, spawns, frame, block, buf, pageTable,
                          frameVars, swapVars, hwVars, vmStats, crash>>

\* The first free frame, which stays marked free until Map.
FreeFrame(i) == /\ pc[i] = "scan" /\ PagerRuns(i)
                /\ \E f \in freeFrames : /\ First(f, freeFrames)
                                         /\ frame' = [frame EXCEPT ![i] = f]
                /\ Goto(i, "in")
                /\ UNCHANGED <<procVars, cur, block, buf, pageTable, frameVars,
                               swapVars, hwVars, vmStats, crash>>

\* No free frame: P3SwapOut takes the mutex of the pager's own pid.
SwapOut(i) == /\ pc[i] = "scan" /\ PagerRuns(i)
              /\ freeFrames = {} /\ i \notin mutex
              /\ mutex' = mutex \cup {i}
              /\ Goto(i, "clock")
              /\ UNCHANGED <<procVars, cur, frame, block, buf, pageTable, frameVars,
                             chooseF, inFrame, swapSpace, hand, hwVars, vmStats, crash>>

\* Mutant: the DIRTY bit is tested with the wrong value (phase3d.c:420).
Chosen_WrongBit(f) == "unmap"

\* A dirty frame is written to swap first.
Chosen(f) == IF f \in dirty THEN "save" ELSE "unmap"

\* One turn of the clock: pass a busy frame, clear the bit of a referenced
\* one, stop at the first that is neither.
Clock(i) ==
  LET f == (hand + 1) % NumFrames IN
  /\ pc[i] = "clock" /\ PagerRuns(i)
  /\ hand' = f
  /\ \/ /\ f \in chooseF
        /\ UNCHANGED <<ref, pc, frame>>
     \/ /\ f \notin chooseF /\ f \in ref
        /\ ref' = ref \ {f}
        /\ UNCHANGED <<pc, frame>>
     \/ /\ f \notin chooseF /\ f \notin ref
        /\ frame' = [frame EXCEPT ![i] = f]
        /\ Goto(i, Chosen(f))
        /\ UNCHANGED ref
  /\ UNCHANGED <<procVars, cur, block, buf, pageTable, frameVars, chooseF, inFrame,
                 swapSpace, mutex, dirty, mem, disk, vmStats, crash>>

\* The slot of the page that inFrame says is in the frame; room is not asked.
SlotsFor(f) == {b \in Block : Occupied(b, inFrame[f].pid, inFrame[f].page)}

\* Map the frame, copy it (which references it) and start P2_DiskWrite.
Save(i) == LET f == frame[i] IN
  /\ pc[i] = "save" /\ PagerRuns(i)
  /\ \E b \in Block : First(b, SlotsFor(f)) /\ block' = [block EXCEPT ![i] = b]
  /\ FrameMap(i, f)
  /\ buf' = [buf EXCEPT ![i] = mem[f]]
  /\ ref' = ref \cup {f}
  /\ Goto(i, "writing")
  /\ UNCHANGED <<procVars, cur, frame, freeFrames, swapVars, dirty, mem, disk,
                 vmStats, crash>>

\* No such slot: `temp` is NULL when its track is read (phase3d.c:434).
SaveNothing(i) == /\ pc[i] = "save" /\ PagerRuns(i)
                  /\ SlotsFor(frame[i]) = {}
                  /\ Crash("null slot")

\* P2_DiskWrite returns.  The result of P3FrameUnmap is not looked at; both
\* bits of the frame are cleared, whatever happened to it during the write.
Written(i) == LET f == frame[i] IN
  /\ pc[i] = "writing" /\ PagerRuns(i)
  /\ disk' = [disk EXCEPT ![block[i]] = buf[i]]
  /\ buf' = [buf EXCEPT ![i] = Zero]
  /\ block' = [block EXCEPT ![i] = -1]
  /\ IF CanUnmap(i, f) THEN FrameUnmap(i, f) ELSE UNCHANGED <<pageTable, usedMap>>
  /\ ref' = ref \ {f} /\ dirty' = dirty \ {f}
  /\ Goto(i, "unmap")
  /\ UNCHANGED <<procVars, cur, frame, freeFrames, swapVars, mem, vmStats, crash>>

\* Mutant: the process keeps its entry for the frame.
Evict_KeepEntry(f) == UNCHANGED pageTable

\* Every slot that names the frame: its process loses its entries for it.
Evict(f) ==
  LET owners == {swapSpace[b].pid : b \in {b \in Block : swapSpace[b].frame = f}}
  IN  pageTable' = [q \in Procs \cup Pagers |->
                      [g \in Page |-> IF q \in owners /\ pageTable[q][g] = f
                                      THEN Absent ELSE pageTable[q][g]]]

\* Mutant: P1_V(mut) is missing.
Unlock_Not(q) == UNCHANGED mutex

Unlock(q) == mutex' = mutex \ {q}

\* Mutant: P3_vmStats.freeFrames is not incremented (phase3c.c:513).
CountEvicted_Not == UNCHANGED vmStats

CountEvicted == vmStats' = [vmStats EXCEPT !.freeFrames = @ + 1]

\* The end of P3SwapOut: the frame becomes busy.
Unmap(i) == /\ pc[i] = "unmap" /\ PagerRuns(i)
            /\ Evict(frame[i])
            /\ chooseF' = chooseF \cup {frame[i]}
            /\ Unlock(i)
            /\ CountEvicted
            /\ Goto(i, "in")
            /\ UNCHANGED <<procVars, cur, frame, block, buf, frameVars, inFrame,
                           swapSpace, hand, hwVars, crash>>

\* No slot names it: `pte` was never assigned when it is given to the MMU
\* (phase3d.c:459).  It may happen to be a page table; if not, an assertion
\* fails.
UnmapGarbage(i) == /\ pc[i] = "unmap" /\ PagerRuns(i)
                   /\ \A b \in Block : swapSpace[b].frame # frame[i]
                   /\ Crash("garbage table")

\* Mutant: the frame stays busy (phase3d.c:564).
NotBusy_Not(f) == UNCHANGED chooseF

NotBusy(f) == chooseF' = chooseF \ {f}

\* Mutant: the record of the frame keeps its last page.
Resident_OldPage(f, p, g) == UNCHANGED inFrame

Resident(f, p, g) == inFrame' = [inFrame EXCEPT ![f] = [pid |-> p, page |-> g]]

\* P3SwapIn, page on disk: map the frame and start P2_DiskRead.
SwapInRead(i) == LET p == cur[i]  g == fault[p].page  f == frame[i] IN
  /\ pc[i] = "in" /\ PagerRuns(i)
  /\ p \notin mutex /\ mutex' = mutex \cup {p}
  /\ Resident(f, p, g)
  /\ \E b \in Block : /\ First(b, Slots(p, g))
                      /\ swapSpace' = [swapSpace EXCEPT ![b].frame = f]
                      /\ block' = [block EXCEPT ![i] = b]
  /\ FrameMap(i, f)
  /\ Goto(i, "reading")
  /\ UNCHANGED <<procVars, cur, frame, buf, freeFrames, chooseF, hand, hwVars,
                 vmStats, crash>>

\* P2_DiskRead returns; P3FrameUnmap must succeed.
ReadDone(i) == LET f == frame[i] IN
  /\ pc[i] = "reading" /\ PagerRuns(i)
  /\ CanUnmap(i, f) /\ FrameUnmap(i, f)
  /\ mem' = [mem EXCEPT ![f] = disk[block[i]]]
  /\ ref' = ref \cup {f} /\ dirty' = dirty \cup {f}
  /\ block' = [block EXCEPT ![i] = -1]
  /\ NotBusy(f)
  /\ Unlock(cur[i])
  /\ Goto(i, "map")
  /\ UNCHANGED <<procVars, cur, frame, buf, freeFrames, inFrame, swapSpace, hand,
                 disk, vmStats, crash>>

ReadDoneAssert(i) == /\ pc[i] = "reading" /\ PagerRuns(i)
                     /\ ~CanUnmap(i, frame[i])
                     /\ Crash("frame not mapped")

\* P3FrameMap finds no unused page in the pager's own table, which entries it
\* failed to unmap have filled.  SwapIn and Pager assert; SwapOut copies from
\* an address it was not given.
MapFails(i) == /\ \/ pc[i] = "in" /\ Slots(cur[i], fault[cur[i]].page) # {}
                  \/ pc[i] = "zero"
                  \/ pc[i] = "save" /\ SlotsFor(frame[i]) # {}
               /\ PagerRuns(i)
               /\ Entries(i, Absent) = {}
               /\ Crash("no page to map")

\* Mutant: the slot is not told its frame (phase3d.c:549).
Claimed_NoFrame(f, p, g) == [pid |-> p, page |-> g, frame |-> -1, room |-> 1]

Claimed(f, p, g) == [pid |-> p, page |-> g, frame |-> f, room |-> 1]

\* P3SwapIn, page never used: the search for the first slot with room.  Only
\* the semaphore of the faulting pid is held.
FindRoom(i) == LET p == cur[i] IN
  /\ pc[i] = "in" /\ PagerRuns(i)
  /\ Slots(p, fault[p].page) = {}
  /\ p \notin mutex /\ mutex' = mutex \cup {p}
  /\ Resident(frame[i], p, fault[p].page)
  /\ \/ \E b \in Block : First(b, Room) /\ block' = [block EXCEPT ![i] = b]
     \/ Room = {} /\ UNCHANGED block
  /\ Goto(i, "claim")
  /\ UNCHANGED <<procVars, cur, frame, buf, pageTable, frameVars, chooseF, swapSpace,
                 hand, hwVars, vmStats, crash>>

\* The slot that was found is claimed, whatever became of it; freeBlocks goes
\* down whether or not there is one (phase3d.c:562).
Claim(i) == LET p == cur[i]  b == block[i] IN
  /\ pc[i] = "claim" /\ PagerRuns(i)
  /\ \/ /\ b # -1
        /\ swapSpace' = [swapSpace EXCEPT ![b] = Claimed(frame[i], p, fault[p].page)]
        /\ Goto(i, "zero")
     \/ b = -1 /\ Goto(i, "kill") /\ UNCHANGED swapSpace
  /\ block' = [block EXCEPT ![i] = -1]
  /\ vmStats' = [vmStats EXCEPT !.freeBlocks = @ - 1]
  /\ NotBusy(frame[i])
  /\ Unlock(p)
  /\ UNCHANGED <<procVars, cur, frame, buf, pageTable, frameVars, inFrame, hand, hwVars,
                 crash>>

\* Mutant: memset is missing.
Clear_Not(f) == UNCHANGED mem

Clear(f) == mem' = [mem EXCEPT ![f] = Zero]

\* P3_EMPTY_PAGE: map, clear and unmap the frame.  Of two entries for it the
\* last is removed.
ZeroFill(i) == LET f == frame[i] IN
  /\ pc[i] = "zero" /\ PagerRuns(i)
  /\ \E g, h \in Page :
       /\ Last(g, Entries(i, Absent)) /\ Last(h, Entries(i, f) \cup {g})
       /\ pageTable' = [pageTable EXCEPT ![i] = [@ EXCEPT ![g] = f, ![h] = Absent]]
  /\ usedMap' = usedMap \ {f}
  /\ Clear(f)
  /\ ref' = ref \cup {f} /\ dirty' = dirty \cup {f}
  /\ Goto(i, "map")
  /\ UNCHANGED <<procVars, cur, frame, block, buf, freeFrames, swapVars, disk,
                 vmStats, crash>>

\* P3_OUT_OF_SWAP: the process is told to quit; the frame is left as it is.
Kill(i) == /\ pc[i] = "kill" /\ PagerRuns(i)
           /\ Answer(i, TRUE)
           /\ UNCHANGED <<proc, faultQueue, spawns, block, buf, pageTable, frameVars,
                          swapVars, hwVars, vmStats, crash>>

\* Mutant: the frame stays in the free list (phase3c.c:542).
InUse_StillFree(f) == UNCHANGED freeFrames

InUse(f) == freeFrames' = freeFrames \ {f}

\* The page table entry, the free list and its count, and the answer.
Map(i) == LET p == cur[i]  f == frame[i] IN
  /\ pc[i] = "map" /\ PagerRuns(i)
  /\ pageTable' = [pageTable EXCEPT ![p][fault[p].page] = f]
  /\ vmStats' = [vmStats EXCEPT !.freeFrames = @ - 1]
  /\ InUse(f)
  /\ Answer(i, FALSE)
  /\ UNCHANGED <<proc, faultQueue, spawns, block, buf, usedMap, swapVars, hwVars,
                 crash>>
-----------------------------------------------------------------------------
(* A process: its accesses through the MMU, and its end.                   *)

Load(p, g) == LET f == pageTable[p][g] IN
  /\ proc[p] = "user" /\ ProcRuns(p) /\ f # Absent
  /\ ref' = ref \cup {f}
  /\ UNCHANGED <<procVars, pagerVars, pageTable, frameVars, swapVars, dirty, mem,
                 disk, vmStats, crash>>

Store(p, g, v) == LET f == pageTable[p][g] IN
  /\ proc[p] = "user" /\ ProcRuns(p) /\ f # Absent
  /\ mem' = [mem EXCEPT ![f] = v]
  /\ ref' = ref \cup {f} /\ dirty' = dirty \cup {f}
  /\ UNCHANGED <<procVars, pagerVars, pageTable, frameVars, swapVars, disk, vmStats,
                 crash>>

\* FaultHandler up to P1_P(wait).
Fault(p, g) ==
  /\ proc[p] = "user" /\ ProcRuns(p) /\ pageTable[p][g] = Absent
  /\ proc' = [proc EXCEPT ![p] = "fault"]
  /\ fault' = [fault EXCEPT ![p] = [page |-> g, kill |-> FALSE, wait |-> 0]]
  /\ Enqueue(p)
  /\ UNCHANGED <<spawns, pagerVars, pageTable, frameVars, swapVars, hwVars, vmStats,
                 crash>>

\* FaultHandler from P1_P(wait) on: P1_Quit if killed.
Resume(p) ==
  /\ proc[p] = "fault" /\ ProcRuns(p) /\ fault[p].wait > 0
  /\ proc' = [proc EXCEPT ![p] = IF fault[p].kill THEN "quit" ELSE "user"]
  /\ fault' = [fault EXCEPT ![p] = [page |-> 0, kill |-> FALSE, wait |-> 0]]
  /\ UNCHANGED <<faultQueue, spawns, pagerVars, pageTable, frameVars, swapVars,
                 hwVars, vmStats, crash>>

Quit(p) == /\ proc[p] = "user" /\ ProcRuns(p)
           /\ proc' = [proc EXCEPT ![p] = "quit"]
           /\ UNCHANGED <<fault, faultQueue, spawns, pagerVars, pageTable, frameVars,
                          swapVars, hwVars, vmStats, crash>>

\* P3_FreePageTable, first half: P3SwapFreeAll.
SwapFreeAll(p) == LET mine == {b \in Block : swapSpace[b].pid = p} IN
  /\ proc[p] = "quit" /\ ProcRuns(p) /\ p \notin mutex
  /\ proc' = [proc EXCEPT ![p] = "free"]
  /\ swapSpace' = [b \in Block |-> IF b \in mine THEN FreeSlot ELSE swapSpace[b]]
  /\ vmStats' = [vmStats EXCEPT !.freeBlocks = @ + Cardinality(mine)]
  /\ UNCHANGED <<fault, faultQueue, spawns, pagerVars, pageTable, frameVars, chooseF,
                 inFrame, hand, mutex, hwVars, crash>>

\* Second half: P3FrameFreeAll, then PageTableFree.
FrameFreeAll(p) == LET mapped == {g \in Page : pageTable[p][g] # Absent} IN
  /\ proc[p] = "free" /\ ProcRuns(p)
  /\ proc' = [proc EXCEPT ![p] = "dead"]
  /\ freeFrames' = freeFrames \cup {pageTable[p][g] : g \in mapped}
  /\ vmStats' = [vmStats EXCEPT !.freeFrames = @ + Cardinality(mapped)]
  /\ pageTable' = [pageTable EXCEPT ![p] = EmptyTable]
  /\ UNCHANGED <<fault, faultQueue, spawns, pagerVars, usedMap, swapVars, hwVars,
                 crash>>

\* The slot is used again: P3_AllocatePageTable, an empty table.
Spawn(p) == /\ proc[p] = "dead" /\ ProcRuns(p) /\ spawns < MaxSpawns
            /\ proc' = [proc EXCEPT ![p] = "user"]
            /\ spawns' = spawns + 1
            /\ UNCHANGED <<fault, faultQueue, pagerVars, pageTable, frameVars,
                           swapVars, hwVars, vmStats, crash>>
-----------------------------------------------------------------------------
SwapOutNext(i) == \/ SwapOut(i) \/ Clock(i) \/ Save(i) \/ SaveNothing(i)
                  \/ Written(i) \/ Unmap(i) \/ UnmapGarbage(i)
SwapInNext(i) == \/ SwapInRead(i) \/ ReadDone(i) \/ ReadDoneAssert(i)
                 \/ FindRoom(i) \/ Claim(i) \/ ZeroFill(i) \/ MapFails(i)
PagerNext(i) == \/ Take(i) \/ FreeFrame(i) \/ SwapOutNext(i) \/ SwapInNext(i)
                \/ Kill(i) \/ Map(i)

Access(p) == \E g \in Page : \/ Load(p, g) \/ Fault(p, g)
                             \/ \E v \in Stamps(p, g) : Store(p, g, v)
Leave(p) == Resume(p) \/ SwapFreeAll(p) \/ FrameFreeAll(p)
ProcNext(p) == Access(p) \/ Leave(p) \/ Quit(p) \/ Spawn(p)

Next == \/ \E i \in Pagers : PagerNext(i)
        \/ \E p \in Procs : ProcNext(p)

\* The kernel runs a pager that is ready, the disk answers, and a process
\* half way through P3_FreePageTable goes on.  Nothing is assumed of the
\* scheduling of processes otherwise.
Fairness == /\ \A i \in Pagers : WF_vars(PagerNext(i))
            /\ \A p \in Procs : WF_vars(FrameFreeAll(p))

Spec == Init /\ [][Next]_vars
FairSpec == Spec /\ Fairness
-----------------------------------------------------------------------------
ProcType ==
  /\ proc \in [Procs -> {"user", "fault", "quit", "free", "dead"}]
  /\ fault \in [Procs -> [page : Page, kill : BOOLEAN, wait : 0 .. 1]]
  /\ faultQueue \in Seq(Procs) /\ spawns \in 0 .. MaxSpawns
  /\ crash \in {"none", "null slot", "garbage table", "frame not mapped",
                "no page to map"}

PagerType ==
  /\ pc \in [Pagers -> {"idle", "scan", "clock", "save", "writing", "unmap", "in",
                        "claim", "reading", "zero", "kill", "map"}]
  /\ cur \in [Pagers -> Procs \cup {None}]
  /\ frame \in [Pagers -> Frame \cup {-1}]
  /\ block \in [Pagers -> Block \cup {-1}]
  /\ buf \in [Pagers -> Data]

FrameType ==
  /\ pageTable \in [Procs \cup Pagers -> [Page -> Frame \cup {Absent}]]
  /\ freeFrames \subseteq Frame /\ usedMap \subseteq Frame /\ chooseF \subseteq Frame
  /\ ref \subseteq Frame /\ dirty \subseteq Frame

SwapType ==
  /\ inFrame \in [Frame -> [pid : Procs \cup {None}, page : Page \cup {-1}]]
  /\ swapSpace \in [Block -> [pid : Procs \cup {None}, page : Page \cup {-1},
                              frame : Frame \cup {-1}, room : {0, 1}]]
  /\ hand \in Frame \cup {-1} /\ mutex \subseteq Procs \cup Pagers

DataType == /\ mem \in [Frame -> Data] /\ disk \in [Block -> Data]
            /\ vmStats \in [freeFrames : Int, freeBlocks : Int]

TypeOK == ProcType /\ PagerType /\ FrameType /\ SwapType /\ DataType

Mapped(p, g) == pageTable[p][g] # Absent
Live(p) == proc[p] \notin {"free", "dead"}
Serving(i, p, g) == pc[i] # "idle" /\ cur[i] = p /\ fault[p].page = g

(* Two pages never share a frame, whoever they belong to.                  *)
FrameExclusive ==
  \A p, q \in Procs : \A g, h \in Page :
    Mapped(p, g) /\ pageTable[p][g] = pageTable[q][h] => p = q /\ g = h

(* The free list, from which Pager takes without looking at any table      *)
(* (phase3c.c:507), never offers a frame that a process still maps: not    *)
(* even after its owner has quit while a pager was writing it out.         *)
FreeFramesUnmapped ==
  \A p \in Procs, g \in Page : Mapped(p, g) => pageTable[p][g] \notin freeFrames

(* A page has at most one slot, a resident page has one, and a slot in use *)
(* belongs to a process that is still there (P3SwapOut follows its pid to  *)
(* a page table, phase3d.c:447).  The notes on synchronization ask for a   *)
(* mutex that pagers share for this (phase3d.c:15-16); there is none.      *)
SlotExclusive ==
  /\ \A b, c \in Block : /\ swapSpace[b].room = 1 /\ swapSpace[c].room = 1
                         /\ Occupied(c, swapSpace[b].pid, swapSpace[b].page)
                         => b = c
  /\ \A p \in Procs, g \in Page : Live(p) /\ Mapped(p, g) => Slots(p, g) # {}
  /\ \A b \in Block : IF swapSpace[b].room = 1 THEN Live(swapSpace[b].pid)
                                               ELSE swapSpace[b] = FreeSlot

(* The three records of where a page is agree while it is resident: the    *)
(* page table, the list by frame that finds its slot when it is written    *)
(* (phase3d.c:425), and the slot that finds its page table when it is      *)
(* unmapped (phase3d.c:445).                                               *)
RecordsAgree ==
  \A p \in Procs, g \in Page : Live(p) /\ Mapped(p, g) =>
    /\ inFrame[pageTable[p][g]] = [pid |-> p, page |-> g]
    /\ \A b \in Slots(p, g) : swapSpace[b].frame = pageTable[p][g]

(* A process finds in its pages only zeros and what it stored there itself.*)
Isolation == \A p \in Procs, g \in Page :
               Mapped(p, g) => mem[pageTable[p][g]] \in {Zero} \cup Stamps(p, g)

(* No assertion of the pagers fails and no pointer is followed that leads  *)
(* nowhere.                                                                *)
NoCrash == crash = "none"

(* With one pager the machine ends only in P3SwapOut, and only over a      *)
(* frame that the clock chose although no living process maps it: it lost  *)
(* its owner to a quit, or to a kill for lack of swap (phase3d.c:434, 459).*)
CrashOverOrphan ==
  crash # "none" => /\ crash \in {"null slot", "garbage table"}
                    /\ \E i \in Pagers : /\ pc[i] \in {"save", "unmap"}
                                         /\ \A p \in Procs, g \in Page :
                                              Live(p) => pageTable[p][g] # frame[i]

(* Between faults the statistics count what phase3.h:33-34 says they do.   *)
StatsCount == (\A i \in Pagers : pc[i] = "idle") =>
                /\ vmStats.freeFrames = Cardinality(freeFrames)
                /\ vmStats.freeBlocks = Cardinality(Room)

(* P1_P(getSem(pid)) never waits: a pid has its own semaphore, and its     *)
(* process is blocked while a pager works for it.  So these semaphores     *)
(* order nothing, and nothing can deadlock on them.                        *)
MutexUncontended ==
  /\ \A i \in Pagers : /\ pc[i] = "scan" => i \notin mutex
                       /\ pc[i] = "in" => cur[i] \notin mutex
  /\ \A p \in Procs : proc[p] = "quit" => p \notin mutex

(* A busy frame is in the hands of the pager that is to fill it.  The      *)
(* clock passes busy frames and turns until it finds another: one that     *)
(* stayed busy would be lost, and with the last frame every pager.         *)
BusyIsBeingFilled ==
  \A f \in chooseF : \E i \in Pagers : /\ frame[i] = f
                                     /\ pc[i] \in {"in", "claim", "reading"}

(* phase3d.c:20: multiple pagers do not choose the same frame.             *)
FramesChosenOnce ==
  \A i, j \in Pagers : frame[i] # -1 /\ frame[i] = frame[j] => i = j

(* A fault is answered, however many others fault and quit meanwhile: the  *)
(* clock stops and the disk returns.                                       *)
Owed(p) == proc[p] = "fault" /\ fault[p].wait = 0
FaultServed == \A p \in Procs : Owed(p) ~> (~Owed(p) \/ crash # "none")
-----------------------------------------------------------------------------
(* What a process would find in its page: in the frame it is mapped to, in *)
(* the frame that a pager is about to map, nothing yet, or on the disk.    *)
Visible(p, g) ==
  LET at(label) == {i \in Pagers : pc[i] = label /\ Serving(i, p, g)}
  IN  IF Mapped(p, g) THEN mem[pageTable[p][g]]
      ELSE IF at("map") # {} THEN mem[frame[CHOOSE i \in at("map") : TRUE]]
      ELSE IF at("zero") # {} \/ Slots(p, g) = {} THEN Zero
      ELSE disk[CHOOSE b \in Slots(p, g) : TRUE]

Gone == [g \in Page |-> <<None>>]       \* no page of a process holds this
Image(p) == IF Live(p) THEN [g \in Page |-> Visible(p, g)] ELSE Gone

Memory == INSTANCE PrivateMemory WITH image <- [p \in Procs |-> Image(p)]

(* Paging is invisible: a page changes only when its process stores to it, *)
(* and is blank again for the next process.                                *)
ImplementsMemory == Memory!Spec

Standing(p) ==
  CASE proc[p] \in {"user", "quit", "free"} -> "running"
    [] proc[p] = "dead" -> "dead"
    [] proc[p] = "fault" /\ fault[p].wait > 0 -> "answered"
    [] Owed(p) /\ (\E i \in Pagers : cur[i] = p) -> "held"
    [] Owed(p) /\ (\A i \in Pagers : cur[i] # p) -> "pending"

Protocol == INSTANCE FaultProtocol WITH st <- [p \in Procs |-> Standing(p)]

(* Swapping included, a fault is still taken by one pager, answered once,  *)
(* and its process goes on only then.                                      *)
ImplementsProtocol == Protocol!Spec
=============================================================================
