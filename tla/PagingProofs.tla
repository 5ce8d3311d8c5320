---------------------------- MODULE PagingProofs -----------------------------
(***************************************************************************)
(* Proofs about Paging for any processes, pagers, frames, pages and slots, *)
(* for pagers that share the CPU at every step or not, for processes below *)
(* and above them, and for quits that are preempted or not.  IndInv says   *)
(* who holds which fault, frame and semaphore at each step of a pager.     *)
(* Who holds which slot, SlotInv, is known only if no pager runs between   *)
(* another's search for a slot and its claim: NoSlices.                    *)
(***************************************************************************)
EXTENDS Paging, FiniteSetTheorems, SequenceTheorems, TLAPS

SwapOutAt == {"clock", "save", "writing", "unmap"}

(* The queue holds the faults that no pager has taken, each once.          *)
Queue ==
  /\ \A k \in 1 .. Len(faultQueue) : /\ Owed(faultQueue[k])
                                     /\ \A i \in Pagers : cur[i] # faultQueue[k]
  /\ \A k, l \in 1 .. Len(faultQueue) : faultQueue[k] = faultQueue[l] => k = l

(* A pager that is not idle has a fault of its own, not answered yet.      *)
Hands ==
  /\ \A i \in Pagers : IF pc[i] = "idle" THEN cur[i] = None
                       ELSE cur[i] \in Procs /\ Owed(cur[i])
  /\ \A i, j \in Pagers : cur[i] \in Procs /\ cur[i] = cur[j] => i = j

(* Where a pager has chosen a frame, and where it has a slot to transfer   *)
(* or to claim.                                                            *)
Places == \A i \in Pagers :
  /\ pc[i] \in {"idle", "scan", "clock"} \/ frame[i] \in Frame
  /\ pc[i] \in {"writing", "reading"} => block[i] \in Block
  /\ pc[i] \notin {"writing", "reading", "claim"} => block[i] = -1

(* Who holds which semaphore of getSem.                                    *)
Locks ==
  /\ \A i \in Pagers : i \in mutex <=> pc[i] \in SwapOutAt
  /\ \A p \in Procs : p \in mutex <=>
       \E i \in Pagers : pc[i] \in {"reading", "claim"} /\ cur[i] = p

(* A slot in use belongs to a page of a process.                           *)
Owned == \A b \in Block : swapSpace[b].room = 1 =>
           swapSpace[b].pid \in Procs /\ swapSpace[b].page \in Page

(* A process that is gone has left no entry in its table.                  *)
DeadEmpty == \A p \in Procs : proc[p] = "dead" => pageTable[p] = EmptyTable

IndInv == /\ TypeOK /\ Queue /\ Hands /\ Places /\ Locks
          /\ Owned /\ DeadEmpty /\ BusyIsBeingFilled

(* Pagers lose the CPU only where they block, or there is only one.        *)
NoSlices == TimeSliced => \A i, j \in Pagers : i = j

(* One pager at a time is between two blocking calls.                      *)
OneRuns == \A i, j \in Pagers : i # j => pc[i] \in Blocked \/ pc[j] \in Blocked

(* A fault that is being filled has its slot already.                      *)
SlotReady == \A i \in Pagers : pc[i] \in {"reading", "zero", "map"} =>
                                 Slots(cur[i], fault[cur[i]].page) # {}

(* A slot that was found for a page that has none is free until claimed.   *)
Claiming == \A i \in Pagers : pc[i] = "claim" =>
              /\ Slots(cur[i], fault[cur[i]].page) = {}
              /\ block[i] # -1 => swapSpace[block[i]].room = 0

SlotInv == OneRuns /\ SlotReady /\ Claiming /\ SlotExclusive
-----------------------------------------------------------------------------
(* Lemmas about what a step leaves alone.                                  *)

(* The slot of a page depends on the Hold records only.                    *)
LEMMA SlotsStay ==
  ASSUME UNCHANGED swapSpace
  PROVE  \A p \in Procs, g \in Page : Slots(p, g)' = Slots(p, g)
BY DEF Slots, Occupied

(* The queue and the pagers' faults are undisturbed.                       *)
LEMMA QueueStays ==
  ASSUME Queue, Hands, UNCHANGED <<proc, fault, faultQueue, cur>>
  PROVE  Queue' /\ (UNCHANGED pc => Hands')
<1>1. \A p \in Procs : Owed(p)' = Owed(p)
  BY DEF Owed
<1>2. Queue'
  BY DEF Queue, Owed
<1> QED BY <1>1, <1>2 DEF Hands

(* The clauses about slots are undisturbed by a step that moves no slot,   *)
(* gives no process an entry and starts or ends none.                      *)
LEMMA SlotExclusiveStays ==
  ASSUME SlotExclusive, Owned, UNCHANGED swapSpace,
         \A p \in Procs : Live(p)' = Live(p),
         \A p \in Procs, g \in Page : Live(p) /\ Mapped(p, g)' => Mapped(p, g)
  PROVE  SlotExclusive'
<1> USE DEF SlotExclusive
<1>1. (\A b, c \in Block : /\ swapSpace[b].room = 1 /\ swapSpace[c].room = 1
                           /\ Occupied(c, swapSpace[b].pid, swapSpace[b].page)
                           => b = c)'
  BY DEF Occupied
<1>2. \A p \in Procs, g \in Page : Live(p)' /\ Mapped(p, g)' => (Slots(p, g) # {})'
  BY SlotsStay
<1>3. (\A b \in Block : IF swapSpace[b].room = 1 THEN Live(swapSpace[b].pid)
                                                 ELSE swapSpace[b] = FreeSlot)'
  BY DEF Owned
<1> QED BY <1>1, <1>2, <1>3

(* There are finitely many pages and slots, and a page 0.                  *)
LEMMA Sizes == IsFiniteSet(Page) /\ IsFiniteSet(Block) /\ 0 \in Page
<1>1. NumPages \in Nat \ {0} /\ NumBlocks \in Nat \ {0}
  BY SizesAssumption
<1>2. IsFiniteSet(0 .. NumPages - 1) /\ IsFiniteSet(0 .. NumBlocks - 1)
  BY <1>1, FS_Interval
<1> QED BY <1>1, <1>2 DEF Page, Block

(* A table entry is written.                                               *)
LEMMA TableEntry ==
  ASSUME pageTable \in [Procs \cup Pagers -> [Page -> Frame \cup {Absent}]],
         NEW q \in Procs \cup Pagers, NEW g \in Page, NEW f \in Frame \cup {Absent},
         pageTable' = [pageTable EXCEPT ![q][g] = f]
  PROVE  /\ pageTable' \in [Procs \cup Pagers -> [Page -> Frame \cup {Absent}]]
         /\ \A r \in Procs \cup Pagers : r # q => pageTable'[r] = pageTable[r]
         /\ \A h \in Page : pageTable'[q][h] = IF h = g THEN f ELSE pageTable[q][h]
OBVIOUS

(* P1_V(fault.wait): the answer of pager i.                                *)
LEMMA AnswerLemma ==
  ASSUME ProcType, PagerType, Hands, NEW i \in Pagers, pc[i] # "idle",
         NEW k \in BOOLEAN, Answer(i, k)
  PROVE  /\ cur[i] \in Procs /\ Owed(cur[i])
         /\ fault' \in [Procs -> [page : Page, kill : BOOLEAN, wait : 0 .. 1]]
         /\ fault'[cur[i]].wait = 1
         /\ \A q \in Procs : /\ fault'[q].page = fault[q].page
                             /\ q # cur[i] => fault'[q] = fault[q]
         /\ pc' = [pc EXCEPT ![i] = "idle"] /\ cur' = [cur EXCEPT ![i] = None]
<1>1. cur[i] \in Procs /\ Owed(cur[i])
  BY DEF Hands
<1>2. /\ fault \in [Procs -> [page : Page, kill : BOOLEAN, wait : 0 .. 1]]
      /\ fault[cur[i]].wait = 0
      /\ fault' = [fault EXCEPT ![cur[i]].kill = k, ![cur[i]].wait = @ + 1]
  BY <1>1 DEF ProcType, Owed, Answer
<1>3. fault' \in [Procs -> [page : Page, kill : BOOLEAN, wait : 0 .. 1]]
  BY <1>1, <1>2
<1>4. fault'[cur[i]].page = fault[cur[i]].page /\ fault'[cur[i]].wait = 1
  BY <1>1, <1>2
<1>5. \A q \in Procs : q # cur[i] => fault'[q] = fault[q]
  BY <1>1, <1>2
<1> QED BY <1>1, <1>3, <1>4, <1>5 DEF Answer, Goto
-----------------------------------------------------------------------------
(* Every step preserves IndInv.                                            *)

(* P1_P(pagerSem) and dequeue: the head of the queue changes hands.        *)
LEMMA TakeStep ==
  ASSUME IndInv, NEW i \in Pagers, Take(i)
  PROVE  IndInv'
<1> USE DEF IndInv, TypeOK, Take, PagerRuns, Goto, procVars, pagerVars,
  frameVars, swapVars, hwVars, Dequeue
<1>q. /\ faultQueue # <<>> /\ Head(faultQueue) \in Procs /\ Tail(faultQueue) \in Seq(Procs)
  BY HeadTailProperties DEF ProcType
<1>1. FrameType' /\ SwapType' /\ DataType'
  BY DEF FrameType, SwapType, DataType
<1>2. Places' /\ Owned' /\ DeadEmpty' /\ BusyIsBeingFilled'
  BY DEF Places, Owned, DeadEmpty, BusyIsBeingFilled
<1>3. ProcType'
  BY <1>q DEF ProcType
<1>4. PagerType'
  BY <1>q DEF PagerType
<1>5. Queue'
  <2>1. /\ Len(faultQueue') \in Nat /\ Len(faultQueue) = Len(faultQueue') + 1
        /\ \A k \in 1 .. Len(faultQueue') : faultQueue'[k] = faultQueue[k + 1]
        /\ Head(faultQueue) = faultQueue[1]
    BY <1>q, HeadTailProperties, LenProperties DEF ProcType
  <2>2. \A q \in Procs : Owed(q)' = Owed(q)
    BY DEF Owed
  <2>3. \A k \in 1 .. Len(faultQueue') : k + 1 \in 1 .. Len(faultQueue)
    BY <2>1
  <2>4. \A k \in 1 .. Len(faultQueue') : /\ Owed(faultQueue[k + 1])
                                         /\ \A j \in Pagers : cur'[j] # faultQueue[k + 1]
    BY <2>1, <2>3 DEF Queue, PagerType
  <2>5. \A k \in 1 .. Len(faultQueue') : faultQueue[k + 1] \in Procs
    BY <2>3, ElementOfSeq DEF ProcType
  <2> QED BY <2>1, <2>2, <2>3, <2>4, <2>5 DEF Queue
<1>6. Hands'
  BY DEF Hands, ProcType, PagerType, Owed, Queue
<1>7. Locks'
  BY DEF Locks, SwapOutAt
<1> QED BY <1>1, <1>2, <1>3, <1>4, <1>5, <1>6, <1>7

(* Pager finds a free frame.                                               *)
LEMMA FreeFrameStep ==
  ASSUME IndInv, NEW i \in Pagers, FreeFrame(i)
  PROVE  IndInv'
<1> USE DEF IndInv, TypeOK, FreeFrame, PagerRuns, Goto, procVars, pagerVars,
  frameVars, swapVars, hwVars, First
<1>1. ProcType' /\ FrameType' /\ SwapType' /\ DataType'
  BY DEF ProcType, FrameType, SwapType, DataType
<1>2. Owned' /\ DeadEmpty' /\ BusyIsBeingFilled'
  BY DEF Owned, DeadEmpty, BusyIsBeingFilled
<1>3. PagerType'
  BY DEF PagerType, FrameType
<1>4. Queue'
  BY DEF Queue, Owed
<1>5. Hands'
  BY DEF Hands, Owed
<1>6. Places'
  BY DEF Places, PagerType, FrameType
<1>7. Locks'
  BY DEF Locks, SwapOutAt
<1> QED BY <1>1, <1>2, <1>3, <1>4, <1>5, <1>6, <1>7

(* P3SwapOut takes the semaphore of the pager's own pid.                   *)
LEMMA SwapOutStep ==
  ASSUME IndInv, NEW i \in Pagers, SwapOut(i)
  PROVE  IndInv'
<1> USE DEF IndInv, TypeOK, SwapOut, PagerRuns, Goto, procVars, pagerVars,
  frameVars, swapVars, hwVars
<1>1. ProcType' /\ PagerType' /\ FrameType' /\ SwapType' /\ DataType'
  BY DEF ProcType, PagerType, FrameType, SwapType, DataType
<1>2. Places' /\ Owned' /\ DeadEmpty' /\ BusyIsBeingFilled'
  BY DEF Places, Owned, DeadEmpty, BusyIsBeingFilled
<1>3. Queue'
  BY DEF Queue, Owed
<1>4. Hands'
  BY DEF Hands, Owed
<1>5. Locks'
  BY NamesAssumption DEF Locks, PagerType, SwapOutAt
<1> QED BY <1>1, <1>2, <1>3, <1>4, <1>5

(* One turn of the clock's loop.                                           *)
LEMMA ClockStep ==
  ASSUME IndInv, NEW i \in Pagers, Clock(i)
  PROVE  IndInv'
<1> USE DEF IndInv, TypeOK, Clock, PagerRuns, Goto, procVars, pagerVars,
  frameVars, swapVars, hwVars, Chosen
<1>f. (hand + 1) % NumFrames \in Frame
  BY SizesAssumption DEF SwapType, Frame
<1>1. ProcType' /\ FrameType' /\ DataType'
  BY DEF ProcType, FrameType, DataType
<1>2. Owned' /\ DeadEmpty'
  BY DEF Owned, DeadEmpty
<1>3. PagerType'
  BY <1>f DEF PagerType
<1>4. SwapType'
  BY <1>f DEF SwapType
<1>5. Queue'
  BY DEF Queue, Owed
<1>6. Hands'
  BY DEF Hands, PagerType, Owed
<1>7. Places'
  BY <1>f DEF Places, PagerType
<1>8. Locks'
  BY DEF Locks, PagerType, SwapOutAt
<1>9. BusyIsBeingFilled'
  BY DEF BusyIsBeingFilled, PagerType
<1> QED BY <1>1, <1>2, <1>3, <1>4, <1>5, <1>6, <1>7, <1>8, <1>9

(* P3SwapOut maps the frame, copies it and starts the write.               *)
LEMMA SaveStep ==
  ASSUME IndInv, NEW i \in Pagers, Save(i)
  PROVE  IndInv'
<1> USE DEF IndInv, TypeOK, Save, PagerRuns, Goto, procVars, pagerVars,
  frameVars, swapVars, hwVars, First, FrameMap
<1>f. frame[i] \in Frame /\ frame[i] \in Frame \cup {Absent}
  BY DEF Places
<1>g. PICK g \in Page : pageTable' = [pageTable EXCEPT ![i][g] = frame[i]]
  BY DEF FrameMap
<1>t. /\ pageTable' \in [Procs \cup Pagers -> [Page -> Frame \cup {Absent}]]
      /\ \A p \in Procs : pageTable'[p] = pageTable[p]
  BY <1>f, <1>g, TableEntry, NamesAssumption DEF FrameType
<1>s. PICK b \in Block : block' = [block EXCEPT ![i] = b]
  OBVIOUS
<1>d. mem[frame[i]] \in Data
  BY <1>f DEF DataType
<1>1. ProcType' /\ SwapType' /\ DataType'
  BY DEF ProcType, SwapType, DataType
<1>2. Owned' /\ BusyIsBeingFilled'
  BY DEF Owned, BusyIsBeingFilled
<1>3. PagerType'
  BY <1>s, <1>d DEF PagerType
<1>4. FrameType'
  BY <1>f, <1>t DEF FrameType, FrameMap
<1>5. Queue'
  BY DEF Queue, Owed
<1>6. Hands'
  BY DEF Hands, Owed
<1>7. Places'
  BY DEF Places, PagerType
<1>8. Locks'
  BY DEF Locks, SwapOutAt
<1>9. DeadEmpty'
  BY NamesAssumption DEF DeadEmpty
<1> QED BY <1>1, <1>2, <1>3, <1>4, <1>5, <1>6, <1>7, <1>8, <1>9

(* P2_DiskWrite returns.                                                   *)
LEMMA WrittenStep ==
  ASSUME IndInv, NEW i \in Pagers, Written(i)
  PROVE  IndInv'
<1> USE DEF IndInv, TypeOK, Written, PagerRuns, Goto, procVars, pagerVars,
  frameVars, swapVars, hwVars, CanUnmap, FrameUnmap, Last
<1>t. /\ pageTable' \in [Procs \cup Pagers -> [Page -> Frame \cup {Absent}]]
      /\ \A p \in Procs : pageTable'[p] = pageTable[p]
  <2>1. CASE UNCHANGED pageTable
    BY <2>1 DEF FrameType
  <2>2. CASE FrameUnmap(i, frame[i])
    <3>1. PICK g \in Page : pageTable' = [pageTable EXCEPT ![i][g] = Absent]
      BY <2>2
    <3> QED BY <3>1, TableEntry, NamesAssumption DEF FrameType
  <2> QED BY <2>1, <2>2
<1>z. Zero \in Data
  BY DEF Data
<1>b. block[i] \in Block
  BY DEF Places
<1>1. ProcType' /\ SwapType'
  BY DEF ProcType, SwapType
<1>2. Owned' /\ BusyIsBeingFilled'
  BY DEF Owned, BusyIsBeingFilled
<1>3. PagerType'
  BY <1>z DEF PagerType
<1>4. FrameType'
  BY <1>t DEF FrameType
<1>5. DataType'
  BY DEF DataType, PagerType
<1>6. Queue'
  BY DEF Queue, Owed
<1>7. Hands'
  BY DEF Hands, Owed
<1>8. Places'
  BY DEF Places, PagerType
<1>9. Locks'
  BY DEF Locks, SwapOutAt
<1>10. DeadEmpty'
  BY NamesAssumption DEF DeadEmpty, FrameType
<1> QED BY <1>1, <1>2, <1>3, <1>4, <1>5, <1>6, <1>7, <1>8, <1>9, <1>10

(* P3SwapOut takes the frame from its process; it is busy from here on.    *)
LEMMA UnmapStep ==
  ASSUME IndInv, NEW i \in Pagers, Unmap(i)
  PROVE  IndInv'
<1> USE DEF IndInv, TypeOK, Unmap, PagerRuns, Goto, procVars, pagerVars,
  frameVars, swapVars, hwVars, Evict, Unlock, CountEvicted
<1>t. /\ pageTable' \in [Procs \cup Pagers -> [Page -> Frame \cup {Absent}]]
      /\ \A q \in Procs \cup Pagers, g \in Page :
           pageTable'[q][g] = pageTable[q][g] \/ pageTable'[q][g] = Absent
  BY DEF FrameType
<1>1. ProcType' /\ PagerType'
  BY DEF ProcType, PagerType
<1>2. Places' /\ Owned'
  BY DEF Places, Owned
<1>3. FrameType'
  BY <1>t DEF FrameType, Places
<1>4. SwapType'
  BY DEF SwapType
<1>5. DataType'
  BY DEF DataType
<1>6. Queue'
  BY DEF Queue, Owed
<1>7. Hands'
  BY DEF Hands, Owed
<1>8. Locks'
  BY NamesAssumption DEF Locks, PagerType, SwapOutAt
<1>9. DeadEmpty'
  BY <1>t DEF DeadEmpty, EmptyTable, FrameType
<1>10. BusyIsBeingFilled'
  BY DEF BusyIsBeingFilled, PagerType
<1> QED BY <1>1, <1>2, <1>3, <1>4, <1>5, <1>6, <1>7, <1>8, <1>9, <1>10

(* P3SwapIn finds the slot of the page and starts the read.                *)
LEMMA SwapInReadStep ==
  ASSUME IndInv, NEW i \in Pagers, SwapInRead(i)
  PROVE  IndInv'
<1> USE DEF IndInv, TypeOK, SwapInRead, PagerRuns, Goto, procVars, pagerVars,
  frameVars, swapVars, hwVars, Resident, First, FrameMap
<1>f. /\ frame[i] \in Frame /\ frame[i] \in Frame \cup {Absent} /\ cur[i] \in Procs
      /\ fault[cur[i]].page \in Page /\ fault[cur[i]] \in [page : Page, kill : BOOLEAN, wait : 0 .. 1]
  BY DEF Places, Hands, ProcType
<1>g. PICK x \in Page : pageTable' = [pageTable EXCEPT ![i][x] = frame[i]]
  BY DEF FrameMap
<1>t. /\ pageTable' \in [Procs \cup Pagers -> [Page -> Frame \cup {Absent}]]
      /\ \A p \in Procs : pageTable'[p] = pageTable[p]
  BY <1>f, <1>g, TableEntry, NamesAssumption DEF FrameType
<1>b. PICK b \in Block : /\ b \in Slots(cur[i], fault[cur[i]].page)
                         /\ swapSpace' = [swapSpace EXCEPT ![b].frame = frame[i]]
                         /\ block' = [block EXCEPT ![i] = b]
  OBVIOUS
<1>s. \A c \in Block : /\ swapSpace'[c].pid = swapSpace[c].pid
                       /\ swapSpace'[c].page = swapSpace[c].page
                       /\ swapSpace'[c].room = swapSpace[c].room
                       /\ c # b => swapSpace'[c] = swapSpace[c]
  BY <1>b, <1>f DEF SwapType
<1>o. \A p \in Procs, g \in Page : Slots(p, g)' = Slots(p, g)
  BY <1>s DEF Slots, Occupied
<1>1. ProcType' /\ PagerType' /\ DataType'
  BY DEF ProcType, PagerType, DataType
<1>2. Owned' /\ BusyIsBeingFilled'
  BY DEF Owned, BusyIsBeingFilled
<1>3. FrameType'
  BY <1>f, <1>t DEF FrameType, FrameMap
<1>4. SwapType'
  <2>1. swapSpace' \in [Block -> [pid : Procs \cup {None}, page : Page \cup {-1},
                            frame : Frame \cup {-1}, room : {0, 1}]]
    <3> DEFINE Hold == [pid : Procs \cup {None}, page : Page \cup {-1},
                        frame : Frame \cup {-1}, room : {0, 1}]
    <3>1. swapSpace \in [Block -> Hold] /\ swapSpace[b] \in Hold
      BY DEF SwapType
    <3>2. [swapSpace[b] EXCEPT !.frame = frame[i]] \in Hold
      BY <3>1, <1>f
    <3> HIDE DEF Hold
    <3>3. swapSpace' \in [Block -> Hold]
      BY <1>b, <3>1, <3>2
    <3> QED BY <3>3 DEF Hold
  <2>2. inFrame' \in [Frame -> [pid : Procs \cup {None}, page : Page \cup {-1}]]
    BY <1>f DEF SwapType
  <2> QED BY <2>1, <2>2, <1>f DEF SwapType
<1>5. Queue'
  BY DEF Queue, Owed
<1>6. Hands'
  BY DEF Hands, Owed
<1>7. Places'
  BY DEF Places, PagerType
<1>8. Locks'
  BY NamesAssumption DEF Locks, PagerType, SwapOutAt
<1>9. DeadEmpty'
  BY NamesAssumption DEF DeadEmpty
<1> QED BY <1>1, <1>2, <1>3, <1>4, <1>5, <1>6, <1>7, <1>8, <1>9

(* P2_DiskRead returns; the frame is no longer busy.                       *)
LEMMA ReadDoneStep ==
  ASSUME IndInv, NEW i \in Pagers, ReadDone(i)
  PROVE  IndInv'
<1> USE DEF IndInv, TypeOK, ReadDone, PagerRuns, Goto, procVars, pagerVars,
  frameVars, swapVars, hwVars, CanUnmap, FrameUnmap, Last, NotBusy, Unlock
<1>f. frame[i] \in Frame /\ block[i] \in Block
  BY DEF Places
<1>1. ProcType' /\ PagerType' /\ FrameType' /\ SwapType'
  BY DEF ProcType, PagerType, FrameType, SwapType
<1>2. Owned' /\ BusyIsBeingFilled'
  BY DEF Owned, BusyIsBeingFilled
<1>3. DataType'
  BY <1>f DEF DataType
<1>4. Queue'
  BY DEF Queue, Owed
<1>5. Hands'
  BY DEF Hands, Owed
<1>6. Places'
  BY DEF Places, PagerType
<1>7. Locks'
  BY NamesAssumption DEF Locks, PagerType, Hands, SwapOutAt
<1>8. DeadEmpty'
  BY NamesAssumption DEF DeadEmpty
<1> QED BY <1>1, <1>2, <1>3, <1>4, <1>5, <1>6, <1>7, <1>8

(* P3SwapIn looks for a slot for a page that has none.                     *)
LEMMA FindRoomStep ==
  ASSUME IndInv, NEW i \in Pagers, FindRoom(i)
  PROVE  IndInv'
<1> USE DEF IndInv, TypeOK, FindRoom, PagerRuns, Goto, procVars, pagerVars,
  frameVars, swapVars, hwVars, Resident, First
<1>f. frame[i] \in Frame /\ cur[i] \in Procs /\ fault[cur[i]].page \in Page
  BY DEF Places, Hands, ProcType
<1>b. \E b \in Block \cup {-1} : block' = [block EXCEPT ![i] = b]
  <2>1. block' = block => block' = [block EXCEPT ![i] = -1]
    BY DEF PagerType, Places
  <2> QED BY <2>1
<1>1. ProcType' /\ FrameType' /\ DataType'
  BY DEF ProcType, FrameType, DataType
<1>2. Owned' /\ DeadEmpty'
  BY DEF Owned, DeadEmpty
<1>3. PagerType'
  BY <1>b DEF PagerType
<1>4. SwapType'
  <2>1. inFrame' \in [Frame -> [pid : Procs \cup {None}, page : Page \cup {-1}]]
    BY <1>f DEF SwapType
  <2> QED BY <2>1, <1>f DEF SwapType
<1>5. Queue'
  BY DEF Queue, Owed
<1>6. Hands'
  BY DEF Hands, Owed
<1>7. Places'
  BY <1>b DEF Places, PagerType
<1>8. Locks'
  BY NamesAssumption DEF Locks, PagerType, SwapOutAt
<1>9. BusyIsBeingFilled'
  BY DEF BusyIsBeingFilled, PagerType
<1> QED BY <1>1, <1>2, <1>3, <1>4, <1>5, <1>6, <1>7, <1>8, <1>9

(* It claims the slot, if it has found one.                                *)
LEMMA ClaimStep ==
  ASSUME IndInv, NEW i \in Pagers, Claim(i)
  PROVE  IndInv'
<1> USE DEF IndInv, TypeOK, Claim, PagerRuns, Goto, procVars, pagerVars,
  frameVars, swapVars, hwVars, NotBusy, Unlock
<1>f. /\ frame[i] \in Frame /\ cur[i] \in Procs /\ fault[cur[i]].page \in Page
      /\ block[i] # -1 => block[i] \in Block
  BY DEF Places, Hands, ProcType, PagerType
<1>l. \E l \in {"zero", "kill"} : pc' = [pc EXCEPT ![i] = l]
  OBVIOUS
<1>b. \/ UNCHANGED swapSpace
      \/ \E b \in Block : swapSpace' =
             [swapSpace EXCEPT ![b] = Claimed(frame[i], cur[i], fault[cur[i]].page)]
  BY <1>f
<1>c. Claimed(frame[i], cur[i], fault[cur[i]].page) \in
        [pid : Procs, page : Page, frame : Frame, room : {1}]
  BY <1>f DEF Claimed
<1>1. ProcType' /\ FrameType'
  BY DEF ProcType, FrameType
<1>2. DeadEmpty'
  BY DEF DeadEmpty
<1>3. PagerType'
  BY <1>l DEF PagerType
<1>4. SwapType'
  BY <1>b, <1>c DEF SwapType
<1>5. DataType'
  BY DEF DataType
<1>6. Queue'
  BY DEF Queue, Owed
<1>7. Hands'
  BY <1>l DEF Hands, PagerType, Owed
<1>8. Places'
  BY <1>l DEF Places, PagerType
<1>9. Locks'
  BY <1>f, <1>l, NamesAssumption DEF Locks, PagerType, Hands, SwapOutAt
<1>10. Owned'
  BY <1>b, <1>c DEF Owned, SwapType
<1>11. BusyIsBeingFilled'
  BY <1>l DEF BusyIsBeingFilled, PagerType
<1> QED BY <1>1, <1>2, <1>3, <1>4, <1>5, <1>6, <1>7, <1>8, <1>9, <1>10, <1>11

(* The first page of its kind is cleared.                                  *)
LEMMA ZeroFillStep ==
  ASSUME IndInv, NEW i \in Pagers, ZeroFill(i)
  PROVE  IndInv'
<1> USE DEF IndInv, TypeOK, ZeroFill, PagerRuns, Goto, procVars, pagerVars,
  frameVars, swapVars, hwVars, Last, Clear
<1>f. frame[i] \in Frame
  BY DEF Places
<1>t. /\ pageTable' \in [Procs \cup Pagers -> [Page -> Frame \cup {Absent}]]
      /\ \A p \in Procs : pageTable'[p] = pageTable[p]
  <2>1. PICK g, h \in Page :
          pageTable' = [pageTable EXCEPT ![i] = [@ EXCEPT ![g] = frame[i], ![h] = Absent]]
    OBVIOUS
  <2>2. [pageTable[i] EXCEPT ![g] = frame[i], ![h] = Absent] \in [Page -> Frame \cup {Absent}]
    BY <1>f DEF FrameType
  <2> QED BY <2>1, <2>2, NamesAssumption DEF FrameType
<1>z. Zero \in Data
  BY DEF Data
<1>1. ProcType' /\ PagerType' /\ SwapType'
  BY DEF ProcType, PagerType, SwapType
<1>2. Places' /\ Owned' /\ BusyIsBeingFilled'
  BY DEF Places, Owned, BusyIsBeingFilled
<1>3. FrameType'
  BY <1>f, <1>t DEF FrameType
<1>4. DataType'
  BY <1>f, <1>z DEF DataType
<1>5. Queue'
  BY DEF Queue, Owed
<1>6. Hands'
  BY DEF Hands, Owed
<1>7. Locks'
  BY DEF Locks, SwapOutAt
<1>8. DeadEmpty'
  BY NamesAssumption DEF DeadEmpty
<1> QED BY <1>1, <1>2, <1>3, <1>4, <1>5, <1>6, <1>7, <1>8

(* The fault is answered: there is no room.                                *)
LEMMA KillStep ==
  ASSUME IndInv, NEW i \in Pagers, Kill(i)
  PROVE  IndInv'
<1> USE DEF IndInv, TypeOK, Kill, PagerRuns, Goto, procVars, pagerVars,
  frameVars, swapVars, hwVars, Answer
<1>a. /\ cur[i] \in Procs /\ Owed(cur[i])
      /\ fault' \in [Procs -> [page : Page, kill : BOOLEAN, wait : 0 .. 1]]
      /\ fault'[cur[i]].wait = 1
      /\ \A q \in Procs : /\ fault'[q].page = fault[q].page
                          /\ q # cur[i] => fault'[q] = fault[q]
      /\ pc' = [pc EXCEPT ![i] = "idle"] /\ cur' = [cur EXCEPT ![i] = None]
  BY AnswerLemma
<1>1. PagerType' /\ FrameType' /\ SwapType' /\ DataType'
  BY DEF PagerType, FrameType, SwapType, DataType
<1>2. Owned' /\ DeadEmpty' /\ BusyIsBeingFilled'
  BY DEF Owned, DeadEmpty, BusyIsBeingFilled
<1>3. ProcType'
  BY <1>a DEF ProcType
<1>4. Queue'
  BY NamesAssumption DEF Queue, ProcType, Hands
<1>5. Hands'
  BY DEF Hands, ProcType
<1>6. Places'
  BY DEF Places, PagerType
<1>7. Locks'
  BY DEF Locks, SwapOutAt
<1> QED BY <1>1, <1>2, <1>3, <1>4, <1>5, <1>6, <1>7

(* The page is mapped and the fault answered.                              *)
LEMMA MapStep ==
  ASSUME IndInv, NEW i \in Pagers, Map(i)
  PROVE  IndInv'
<1> USE DEF IndInv, TypeOK, Map, PagerRuns, Goto, procVars, pagerVars,
  frameVars, swapVars, hwVars, Answer, InUse
<1>a. /\ cur[i] \in Procs /\ Owed(cur[i])
      /\ fault' \in [Procs -> [page : Page, kill : BOOLEAN, wait : 0 .. 1]]
      /\ fault'[cur[i]].wait = 1
      /\ \A q \in Procs : /\ fault'[q].page = fault[q].page
                          /\ q # cur[i] => fault'[q] = fault[q]
      /\ pc' = [pc EXCEPT ![i] = "idle"] /\ cur' = [cur EXCEPT ![i] = None]
  BY AnswerLemma
<1>f. frame[i] \in Frame /\ frame[i] \in Frame \cup {Absent} /\ fault[cur[i]].page \in Page
  BY <1>a DEF Places, ProcType
<1>t. /\ pageTable' \in [Procs \cup Pagers -> [Page -> Frame \cup {Absent}]]
      /\ \A r \in Procs \cup Pagers : r # cur[i] => pageTable'[r] = pageTable[r]
      /\ \A h \in Page : pageTable'[cur[i]][h] = IF h = fault[cur[i]].page THEN frame[i]
                                                 ELSE pageTable[cur[i]][h]
  BY <1>a, <1>f, TableEntry DEF FrameType
<1>1. PagerType' /\ SwapType' /\ DataType'
  BY DEF PagerType, SwapType, DataType
<1>2. Owned' /\ BusyIsBeingFilled'
  BY DEF Owned, BusyIsBeingFilled
<1>3. ProcType'
  BY <1>a DEF ProcType
<1>4. FrameType'
  BY <1>t DEF FrameType, InUse
<1>5. Queue'
  BY NamesAssumption DEF Queue, ProcType, Owed
<1>6. Hands'
  <2>1. \A q \in Procs : q # cur[i] => Owed(q)' = Owed(q)
    BY <1>a DEF Owed
  <2>2. \A j \in Pagers : j # i => cur'[j] = cur[j] /\ pc'[j] = pc[j] /\ cur[j] # cur[i]
    BY <1>a DEF Hands, PagerType
  <2>3. pc'[i] = "idle" /\ cur'[i] = None
    BY <1>a DEF PagerType
  <2> QED BY <2>1, <2>2, <2>3, NamesAssumption DEF Hands
<1>7. Places'
  BY DEF Places, PagerType
<1>8. Locks'
  BY DEF Locks, SwapOutAt
<1>9. DeadEmpty'
  BY DEF DeadEmpty, Hands, Owed
<1> QED BY <1>1, <1>2, <1>3, <1>4, <1>5, <1>6, <1>7, <1>8, <1>9

(* An assertion that fails, or a null pointer, ends the machine and        *)
(* changes nothing else.                                                   *)
LEMMA CrashesStep ==
  ASSUME IndInv, NEW what \in {"null slot", "garbage table", "frame not mapped",
    "no page to map"}, Crash(what)
  PROVE  IndInv'
<1> USE DEF IndInv, TypeOK, Crash, procVars, pagerVars, frameVars, swapVars,
  hwVars
<1>1. ProcType' /\ PagerType' /\ FrameType' /\ SwapType' /\ DataType'
  BY DEF ProcType, PagerType, FrameType, SwapType, DataType
<1>2. Places' /\ Locks' /\ Owned' /\ DeadEmpty' /\ BusyIsBeingFilled'
  BY DEF Places, Locks, Owned, DeadEmpty, BusyIsBeingFilled
<1>3. Queue'
  BY DEF Queue, Owed
<1>4. Hands'
  BY DEF Hands, Owed
<1> QED BY <1>1, <1>2, <1>3, <1>4

(* A load sets the reference bit.                                          *)
LEMMA LoadStep ==
  ASSUME IndInv, NEW p \in Procs, NEW g \in Page, Load(p,g)
  PROVE  IndInv'
<1> USE DEF IndInv, TypeOK, Load, procVars, pagerVars, frameVars, swapVars,
  hwVars
<1>f. pageTable[p][g] \in Frame
  BY DEF FrameType
<1>1. ProcType' /\ PagerType' /\ SwapType' /\ DataType'
  BY DEF ProcType, PagerType, SwapType, DataType
<1>2. Places' /\ Locks' /\ Owned' /\ DeadEmpty' /\ BusyIsBeingFilled'
  BY DEF Places, Locks, Owned, DeadEmpty, BusyIsBeingFilled
<1>3. FrameType'
  BY <1>f DEF FrameType
<1>4. Queue'
  BY QueueStays
<1>5. Hands'
  BY DEF Hands, Owed
<1> QED BY <1>1, <1>2, <1>3, <1>4, <1>5

(* A store changes the frame that is mapped.                               *)
LEMMA StoreStep ==
  ASSUME IndInv, NEW p \in Procs, NEW g \in Page, NEW v \in Stamps(p, g),
    Store(p,g,v)
  PROVE  IndInv'
<1> USE DEF IndInv, TypeOK, Store, procVars, pagerVars, frameVars, swapVars,
  hwVars
<1>f. pageTable[p][g] \in Frame
  BY DEF FrameType
<1>1. ProcType' /\ PagerType' /\ SwapType'
  BY DEF ProcType, PagerType, SwapType
<1>2. Places' /\ Locks' /\ Owned' /\ DeadEmpty' /\ BusyIsBeingFilled'
  BY DEF Places, Locks, Owned, DeadEmpty, BusyIsBeingFilled
<1>3. FrameType'
  BY <1>f DEF FrameType
<1>4. DataType'
  BY <1>f DEF DataType, Data
<1>5. Queue'
  BY QueueStays
<1>6. Hands'
  BY DEF Hands, Owed
<1> QED BY <1>1, <1>2, <1>3, <1>4, <1>5, <1>6

(* A process that was running has no fault in the queue or in a pager's    *)
(* hands.                                                                  *)
LEMMA FaultStep ==
  ASSUME IndInv, NEW p \in Procs, NEW g \in Page, Fault(p,g)
  PROVE  IndInv'
<1> USE DEF IndInv, TypeOK, Fault, Enqueue, procVars, pagerVars, frameVars,
  swapVars, hwVars
<1>c. fault \in [Procs -> [page : Page, kill : BOOLEAN, wait : 0 .. 1]]
      /\ proc \in [Procs -> {"user", "fault", "quit", "free", "dead"}]
  BY DEF ProcType
<1>r. /\ fault' \in [Procs -> [page : Page, kill : BOOLEAN, wait : 0 .. 1]]
      /\ \A q \in Procs : q # p => fault'[q] = fault[q] /\ proc'[q] = proc[q]
      /\ fault'[p].wait = 0
  BY <1>c, Sizes
<1>v. proc'[p] \in {"fault"}
  BY <1>c
<1>h. \A i \in Pagers : cur[i] \in Procs => cur[i] # p
  BY NamesAssumption DEF Hands, Owed
<1>e. \A q \in Procs : q # p => Owed(q)' = Owed(q)
  BY <1>r DEF Owed
<1>1. PagerType' /\ FrameType' /\ SwapType' /\ DataType'
  BY DEF PagerType, FrameType, SwapType, DataType
<1>2. Places' /\ Locks' /\ Owned' /\ BusyIsBeingFilled'
  BY DEF Places, Locks, Owned, BusyIsBeingFilled
<1>3. ProcType'
  <2>1. faultQueue' \in Seq(Procs)
    BY AppendProperties DEF ProcType
  <2> QED BY <1>r, <2>1 DEF ProcType
<1>4. Queue'
  <2>0. faultQueue \in Seq(Procs) /\ faultQueue' = Append(faultQueue, p)
    BY DEF ProcType
  <2>1. /\ Len(faultQueue') = Len(faultQueue) + 1 /\ Len(faultQueue) \in Nat
        /\ \A k \in 1 .. Len(faultQueue) : faultQueue'[k] = faultQueue[k] /\ faultQueue[k] \in Procs
        /\ faultQueue'[Len(faultQueue) + 1] = p
    BY <2>0, AppendProperties, LenProperties, ElementOfSeq
  <2>2. \A k \in 1 .. Len(faultQueue) : faultQueue[k] # p
    BY DEF Queue, Owed
  <2>3. Owed(p)'
    BY <1>r, <1>v DEF Owed
  <2>4. \A k \in 1 .. Len(faultQueue) + 1 : (Owed(faultQueue[k]) /\ \A i \in Pagers : cur[i] # faultQueue[k])'
    <3>1. ASSUME NEW k \in 1 .. Len(faultQueue) PROVE (Owed(faultQueue[k]) /\ \A i \in Pagers : cur[i] # faultQueue[k])'
      <4>1. Owed(faultQueue[k])' = Owed(faultQueue[k])
        BY <1>r, <2>1, <2>2 DEF Owed
      <4> QED BY <4>1, <2>1 DEF Queue
    <3>2. Owed(p)' /\ \A i \in Pagers : cur'[i] # p
      BY <1>h, <2>3
    <3> QED BY <2>1, <3>1, <3>2
  <2>5. \A k, l \in 1 .. Len(faultQueue) + 1 : faultQueue'[k] = faultQueue'[l] => k = l
    BY <2>1, <2>2 DEF Queue
  <2> QED BY <2>1, <2>4, <2>5 DEF Queue
<1>5. Hands'
  BY <1>e, <1>h DEF Hands
<1>6. DeadEmpty'
  BY <1>r, <1>v DEF DeadEmpty
<1> QED BY <1>1, <1>2, <1>3, <1>4, <1>5, <1>6

(* A process goes on when its fault, answered, is in nobody's hands.       *)
LEMMA ResumeStep ==
  ASSUME IndInv, NEW p \in Procs, Resume(p)
  PROVE  IndInv'
<1> USE DEF IndInv, TypeOK, Resume, procVars, pagerVars, frameVars, swapVars,
  hwVars
<1>c. fault \in [Procs -> [page : Page, kill : BOOLEAN, wait : 0 .. 1]]
      /\ proc \in [Procs -> {"user", "fault", "quit", "free", "dead"}]
  BY DEF ProcType
<1>r. /\ fault' \in [Procs -> [page : Page, kill : BOOLEAN, wait : 0 .. 1]]
      /\ \A q \in Procs : q # p => fault'[q] = fault[q] /\ proc'[q] = proc[q]
      /\ fault'[p].wait = 0
  BY <1>c, Sizes
<1>v. proc'[p] \in {"user", "quit"}
  BY <1>c
<1>h. \A i \in Pagers : cur[i] \in Procs => cur[i] # p
  BY NamesAssumption, <1>c DEF Hands, Owed
<1>e. \A q \in Procs : q # p => Owed(q)' = Owed(q)
  BY <1>r DEF Owed
<1>1. PagerType' /\ FrameType' /\ SwapType' /\ DataType'
  BY DEF PagerType, FrameType, SwapType, DataType
<1>2. Places' /\ Locks' /\ Owned' /\ BusyIsBeingFilled'
  BY DEF Places, Locks, Owned, BusyIsBeingFilled
<1>3. ProcType'
  BY <1>r DEF ProcType
<1>4. Queue'
  <2>0. \A k \in 1 .. Len(faultQueue) : faultQueue[k] \in Procs
    BY ElementOfSeq DEF ProcType
  <2>1. \A k \in 1 .. Len(faultQueue) : faultQueue[k] \in Procs /\ faultQueue[k] # p
    BY <2>0 DEF Queue, Owed
  <2> QED BY <2>1, <1>e DEF Queue
<1>5. Hands'
  BY <1>e, <1>h DEF Hands
<1>6. DeadEmpty'
  BY <1>r, <1>v DEF DeadEmpty
<1> QED BY <1>1, <1>2, <1>3, <1>4, <1>5, <1>6

(* A process quits by itself.                                              *)
LEMMA QuitStep ==
  ASSUME IndInv, NEW p \in Procs, Quit(p)
  PROVE  IndInv'
<1> USE DEF IndInv, TypeOK, Quit, procVars, pagerVars, frameVars, swapVars,
  hwVars
<1>r. \A q \in Procs : q # p => proc'[q] = proc[q]
  BY DEF ProcType
<1>v. proc'[p] = "quit"
  BY DEF ProcType
<1>h. \A i \in Pagers : cur[i] \in Procs => cur[i] # p
  BY NamesAssumption DEF Hands, Owed
<1>e. \A q \in Procs : q # p => Owed(q)' = Owed(q)
  BY <1>r DEF Owed
<1>1. ProcType' /\ PagerType' /\ FrameType' /\ SwapType' /\ DataType'
  BY DEF ProcType, PagerType, FrameType, SwapType, DataType
<1>2. Places' /\ Locks' /\ Owned' /\ BusyIsBeingFilled'
  BY DEF Places, Locks, Owned, BusyIsBeingFilled
<1>3. Queue'
  <2>0. \A k \in 1 .. Len(faultQueue) : faultQueue[k] \in Procs
    BY ElementOfSeq DEF ProcType
  <2>1. \A k \in 1 .. Len(faultQueue) : faultQueue[k] \in Procs /\ faultQueue[k] # p
    BY <2>0 DEF Queue, Owed
  <2> QED BY <2>1, <1>e DEF Queue
<1>4. Hands'
  BY <1>e, <1>h DEF Hands
<1>5. DeadEmpty'
  BY <1>r, <1>v DEF DeadEmpty
<1> QED BY <1>1, <1>2, <1>3, <1>4, <1>5

(* P3SwapFreeAll: the slots of the process are free again.                 *)
LEMMA SwapFreeAllStep ==
  ASSUME IndInv, NEW p \in Procs, SwapFreeAll(p)
  PROVE  IndInv'
<1> USE DEF IndInv, TypeOK, SwapFreeAll, procVars, pagerVars, frameVars,
  swapVars, hwVars
<1>r. \A q \in Procs : q # p => proc'[q] = proc[q]
  BY DEF ProcType
<1>v. proc'[p] = "free"
  BY DEF ProcType
<1>h. \A i \in Pagers : cur[i] \in Procs => cur[i] # p
  BY NamesAssumption DEF Hands, Owed
<1>e. \A q \in Procs : q # p => Owed(q)' = Owed(q)
  BY <1>r DEF Owed
<1>s. \A b \in Block : swapSpace'[b] = IF swapSpace[b].pid = p THEN FreeSlot ELSE swapSpace[b]
  OBVIOUS
<1>n. FreeSlot.pid = None /\ FreeSlot.room = 0
  BY DEF FreeSlot
<1>o. \A q \in Procs, g \in Page : q # p => Slots(q, g)' = Slots(q, g)
  BY <1>s, <1>n, NamesAssumption DEF Slots, Occupied
<1>1. ProcType' /\ PagerType' /\ FrameType'
  BY DEF ProcType, PagerType, FrameType
<1>2. Places' /\ Locks' /\ BusyIsBeingFilled'
  BY DEF Places, Locks, BusyIsBeingFilled
<1>3. SwapType'
  <2>1. FreeSlot \in [pid : Procs \cup {None}, page : Page \cup {-1},
                     frame : Frame \cup {-1}, room : {0, 1}]
    BY DEF FreeSlot
  <2> QED BY <2>1 DEF SwapType
<1>4. DataType'
  <2>1. IsFiniteSet({b \in Block : swapSpace[b].pid = p})
    BY Sizes, FS_Subset
  <2>2. Cardinality({b \in Block : swapSpace[b].pid = p}) \in Int
    BY <2>1, FS_CardinalityType
  <2> QED BY <2>2 DEF DataType
<1>5. Queue'
  <2>0. \A k \in 1 .. Len(faultQueue) : faultQueue[k] \in Procs
    BY ElementOfSeq DEF ProcType
  <2>1. \A k \in 1 .. Len(faultQueue) : faultQueue[k] \in Procs /\ faultQueue[k] # p
    BY <2>0 DEF Queue, Owed
  <2> QED BY <2>1, <1>e DEF Queue
<1>6. Hands'
  BY <1>e, <1>h DEF Hands
<1>7. Owned'
  BY <1>s, <1>n DEF Owned
<1>8. DeadEmpty'
  BY <1>r, <1>v DEF DeadEmpty
<1> QED BY <1>1, <1>2, <1>3, <1>4, <1>5, <1>6, <1>7, <1>8

(* P3FrameFreeAll: its table is empty.                                     *)
LEMMA FrameFreeAllStep ==
  ASSUME IndInv, NEW p \in Procs, FrameFreeAll(p)
  PROVE  IndInv'
<1> USE DEF IndInv, TypeOK, FrameFreeAll, procVars, pagerVars, frameVars,
  swapVars, hwVars
<1>r. \A q \in Procs : q # p => proc'[q] = proc[q]
  BY DEF ProcType
<1>v. proc'[p] = "dead"
  BY DEF ProcType
<1>h. \A i \in Pagers : cur[i] \in Procs => cur[i] # p
  BY NamesAssumption DEF Hands, Owed
<1>e. \A q \in Procs : q # p => Owed(q)' = Owed(q)
  BY <1>r DEF Owed
<1>t. /\ pageTable' \in [Procs \cup Pagers -> [Page -> Frame \cup {Absent}]]
      /\ pageTable'[p] = EmptyTable
      /\ \A q \in Procs \cup Pagers : q # p => pageTable'[q] = pageTable[q]
  BY DEF FrameType, EmptyTable
<1>1. ProcType' /\ PagerType' /\ SwapType'
  BY DEF ProcType, PagerType, SwapType
<1>2. Places' /\ Locks' /\ Owned' /\ BusyIsBeingFilled'
  BY DEF Places, Locks, Owned, BusyIsBeingFilled
<1>3. FrameType'
  BY <1>t DEF FrameType
<1>4. DataType'
  <2>1. IsFiniteSet({g \in Page : pageTable[p][g] # Absent})
    BY Sizes, FS_Subset
  <2>2. Cardinality({g \in Page : pageTable[p][g] # Absent}) \in Int
    BY <2>1, FS_CardinalityType
  <2>3. vmStats' \in [freeFrames : Int, freeBlocks : Int]
    BY <2>2 DEF DataType
  <2> QED BY <2>3 DEF DataType
<1>5. Queue'
  <2>0. \A k \in 1 .. Len(faultQueue) : faultQueue[k] \in Procs
    BY ElementOfSeq DEF ProcType
  <2>1. \A k \in 1 .. Len(faultQueue) : faultQueue[k] \in Procs /\ faultQueue[k] # p
    BY <2>0 DEF Queue, Owed
  <2> QED BY <2>1, <1>e DEF Queue
<1>6. Hands'
  BY <1>e, <1>h DEF Hands
<1>7. DeadEmpty'
  BY <1>t, <1>r DEF DeadEmpty
<1> QED BY <1>1, <1>2, <1>3, <1>4, <1>5, <1>6, <1>7

(* The process slot is used again, with the empty table that was left.     *)
LEMMA SpawnStep ==
  ASSUME IndInv, NEW p \in Procs, Spawn(p)
  PROVE  IndInv'
<1> USE DEF IndInv, TypeOK, Spawn, procVars, pagerVars, frameVars, swapVars,
  hwVars
<1>r. \A q \in Procs : q # p => proc'[q] = proc[q]
  BY DEF ProcType
<1>v. proc'[p] = "user"
  BY DEF ProcType
<1>h. \A i \in Pagers : cur[i] \in Procs => cur[i] # p
  BY NamesAssumption DEF Hands, Owed
<1>e. \A q \in Procs : q # p => Owed(q)' = Owed(q)
  BY <1>r DEF Owed
<1>1. PagerType' /\ FrameType' /\ SwapType' /\ DataType'
  BY DEF PagerType, FrameType, SwapType, DataType
<1>2. Places' /\ Locks' /\ Owned' /\ BusyIsBeingFilled'
  BY DEF Places, Locks, Owned, BusyIsBeingFilled
<1>3. ProcType'
  <2>1. spawns + 1 \in 0 .. MaxSpawns
    <3>1. spawns \in 0 .. MaxSpawns /\ MaxSpawns \in Nat /\ spawns < MaxSpawns
      BY SizesAssumption DEF ProcType
    <3> QED BY <3>1
  <2>2. proc' \in [Procs -> {"user", "fault", "quit", "free", "dead"}]
    BY DEF ProcType
  <2> QED BY <2>1, <2>2 DEF ProcType
<1>4. Queue'
  <2>0. \A k \in 1 .. Len(faultQueue) : faultQueue[k] \in Procs
    BY ElementOfSeq DEF ProcType
  <2>1. \A k \in 1 .. Len(faultQueue) : faultQueue[k] \in Procs /\ faultQueue[k] # p
    BY <2>0 DEF Queue, Owed
  <2> QED BY <2>1, <1>e DEF Queue
<1>5. Hands'
  BY <1>e, <1>h DEF Hands
<1>6. DeadEmpty'
  BY <1>r, <1>v DEF DeadEmpty
<1> QED BY <1>1, <1>2, <1>3, <1>4, <1>5, <1>6

(* A stuttering step.                                                      *)
LEMMA SameStep ==
  ASSUME IndInv, UNCHANGED vars
  PROVE  IndInv'
<1> USE DEF IndInv, TypeOK, vars, procVars, pagerVars, frameVars, swapVars,
  hwVars
<1>1. ProcType' /\ PagerType' /\ FrameType' /\ SwapType' /\ DataType'
  BY DEF ProcType, PagerType, FrameType, SwapType, DataType
<1>2. Places' /\ Locks' /\ Owned' /\ DeadEmpty' /\ BusyIsBeingFilled'
  BY DEF Places, Locks, Owned, DeadEmpty, BusyIsBeingFilled
<1>3. Queue'
  BY DEF Queue, Owed
<1>4. Hands'
  BY DEF Hands, Owed
<1> QED BY <1>1, <1>2, <1>3, <1>4

(* A fault queue that is empty and pagers that are idle.                   *)
LEMMA InitInv == Init => IndInv
<1> SUFFICES ASSUME Init PROVE IndInv
  OBVIOUS
<1> USE DEF Init
<1>1. ProcType
  <2>1. 0 \in Page /\ MaxSpawns \in Nat /\ faultQueue \in Seq(Procs)
    BY Sizes, SizesAssumption, EmptySeq
  <2> QED BY <2>1 DEF ProcType
<1>2. PagerType
  BY DEF PagerType, Data
<1>3. FrameType
  BY DEF FrameType, EmptyTable
<1>4. SwapType
  BY DEF SwapType, FreeSlot
<1>5. DataType
  BY SizesAssumption DEF DataType, Data
<1>6. Queue
  <2>1. Len(faultQueue) = 0
    BY EmptySeq
  <2> QED BY <2>1 DEF Queue
<1>7. Hands /\ Places /\ Locks
  <2>1. Hands
    BY NamesAssumption DEF Hands
  <2>2. Places /\ Locks
    BY DEF Places, Locks, SwapOutAt
  <2> QED BY <2>1, <2>2
<1>8. Owned /\ DeadEmpty /\ BusyIsBeingFilled
  BY DEF Owned, DeadEmpty, BusyIsBeingFilled, FreeSlot
<1> QED BY <1>1, <1>2, <1>3, <1>4, <1>5, <1>6, <1>7, <1>8 DEF IndInv, TypeOK

(* The actions together: the invariant is inductive.                       *)
LEMMA StepInv == IndInv /\ [Next]_vars => IndInv'
<1> SUFFICES ASSUME IndInv, [Next]_vars PROVE IndInv'
  OBVIOUS
<1>1. CASE UNCHANGED vars
  BY <1>1, SameStep
<1>2. ASSUME NEW i \in Pagers, PagerNext(i) PROVE IndInv'
  <2>1. CASE Take(i) \/ FreeFrame(i) \/ Kill(i) \/ Map(i)
    BY <2>1, TakeStep, FreeFrameStep, KillStep, MapStep
  <2>2. CASE SwapOutNext(i)
    <3>1. CASE SaveNothing(i) \/ UnmapGarbage(i)
      BY <3>1, CrashesStep DEF SaveNothing, UnmapGarbage
    <3> QED BY <2>2, <3>1, SwapOutStep, ClockStep, SaveStep, WrittenStep, UnmapStep
            DEF SwapOutNext
  <2>3. CASE SwapInNext(i)
    <3>1. CASE ReadDoneAssert(i) \/ MapFails(i)
      BY <3>1, CrashesStep DEF ReadDoneAssert, MapFails
    <3> QED BY <2>3, <3>1, SwapInReadStep, ReadDoneStep, FindRoomStep, ClaimStep, ZeroFillStep
            DEF SwapInNext
  <2> QED BY <1>2, <2>1, <2>2, <2>3 DEF PagerNext
<1>3. ASSUME NEW p \in Procs, ProcNext(p) PROVE IndInv'
  <2>1. CASE Access(p)
    BY <2>1, LoadStep, StoreStep, FaultStep DEF Access
  <2>2. CASE Leave(p)
    BY <2>2, ResumeStep, SwapFreeAllStep, FrameFreeAllStep DEF Leave
  <2> QED BY <1>3, <2>1, <2>2, QuitStep, SpawnStep DEF ProcNext
<1> QED BY <1>1, <1>2, <1>3 DEF Next
-----------------------------------------------------------------------------
(* The conjunction of the results below, for every reachable state.        *)
THEOREM Inductive == Spec => []IndInv
  BY InitInv, StepInv, PTL DEF Spec

(* Every variable keeps its type; in particular the wait semaphore of a    *)
(* Fault record never counts two answers.                                  *)
THEOREM TypeCorrect == Spec => []TypeOK
<1>1. IndInv => TypeOK
  BY DEF IndInv
<1> QED BY <1>1, Inductive, PTL

(* No pager ever waits for a semaphore of getSem, and no process at its    *)
(* end: who works for a pid is alone in it already.                        *)
THEOREM MutexesAreFree == Spec => []MutexUncontended
<1>1. IndInv => MutexUncontended
  <2> SUFFICES ASSUME IndInv PROVE MutexUncontended
    OBVIOUS
  <2>1. ASSUME NEW i \in Pagers PROVE pc[i] = "scan" => i \notin mutex
    BY DEF IndInv, Locks, SwapOutAt
  <2>2. ASSUME NEW i \in Pagers, pc[i] = "in" PROVE cur[i] \notin mutex
    <3>1. cur[i] \in Procs /\ \A j \in Pagers : cur[j] = cur[i] => j = i
      BY <2>2 DEF IndInv, Hands
    <3> QED BY <2>2, <3>1 DEF IndInv, Locks
  <2>3. ASSUME NEW p \in Procs, proc[p] = "quit" PROVE p \notin mutex
    <3>1. ~Owed(p)
      BY <2>3 DEF Owed
    <3>2. \A j \in Pagers : pc[j] \in {"reading", "claim"} => cur[j] # p
      BY <3>1 DEF IndInv, Hands
    <3> QED BY <3>2 DEF IndInv, Locks
  <2> QED BY <2>1, <2>2, <2>3 DEF MutexUncontended
<1> QED BY <1>1, Inductive, PTL

(* A frame is busy only while the pager that took it has not filled it     *)
(* yet: the clock always finds it again.                                   *)
THEOREM BusyIsFilled == Spec => []BusyIsBeingFilled
<1>1. IndInv => BusyIsBeingFilled
  BY DEF IndInv
<1> QED BY <1>1, Inductive, PTL
-----------------------------------------------------------------------------
(* The slots, as long as no pager loses the CPU to another but where it    *)
(* blocks.                                                                 *)

(* The pagers of P3SwapIn and P3SwapOut that may run are alone.            *)
LEMMA OneAtATime ==
  ASSUME NoSlices, NEW i \in Pagers, PagerRuns(i)
  PROVE  \A j \in Pagers \ {i} : pc[j] \in Blocked
BY DEF NoSlices, PagerRuns

(* A pager's step that moves no slot, maps no page of a process and does   *)
(* not begin to claim.                                                     *)
LEMMA PagerSlots ==
  ASSUME NoSlices, IndInv, SlotInv, NEW i \in Pagers, PagerRuns(i),
         UNCHANGED <<proc, swapSpace>>,
         \A j \in Pagers \ {i} : pc'[j] = pc[j] /\ cur'[j] = cur[j],
         \A p \in Procs : fault'[p].page = fault[p].page,
         pc'[i] \in {"reading", "zero", "map"} =>
           cur'[i] = cur[i] /\ pc[i] \in {"reading", "zero", "map"},
         pc'[i] # "claim",
         \A p \in Procs, g \in Page : Live(p) /\ Mapped(p, g)' => Mapped(p, g)
  PROVE  SlotInv'
<1> USE DEF SlotInv
<1>1. OneRuns'
  BY OneAtATime DEF OneRuns, Blocked
<1>2. SlotReady'
  <2> SUFFICES ASSUME NEW j \in Pagers, pc'[j] \in {"reading", "zero", "map"}
               PROVE  (Slots(cur[j], fault[cur[j]].page) # {})'
    BY DEF SlotReady
  <2>1. cur'[j] = cur[j] /\ pc[j] \in {"reading", "zero", "map"}
    OBVIOUS
  <2>2. cur[j] \in Procs /\ fault'[cur[j]].page = fault[cur[j]].page
    BY <2>1 DEF IndInv, Hands
  <2> QED BY <2>1, <2>2 DEF SlotReady, Slots, Occupied
<1>3. Claiming'
  BY OneAtATime DEF Claiming, Blocked
<1>4. SlotExclusive'
  BY SlotExclusiveStays DEF Live, IndInv
<1> QED BY <1>1, <1>2, <1>3, <1>4

(* The pagers' steps of that kind.                                         *)
LEMMA PlainSlots ==
  ASSUME NoSlices, IndInv, SlotInv, NEW i \in Pagers,
         \/ Take(i) \/ FreeFrame(i) \/ SwapOut(i) \/ Clock(i) \/ Save(i) \/ Written(i)
         \/ Unmap(i) \/ ReadDone(i) \/ ZeroFill(i) \/ Kill(i)
  PROVE  SlotInv'
<1> USE DEF procVars, pagerVars, swapVars
<1>t. /\ pc \in [Pagers -> {"idle", "scan", "clock", "save", "writing", "unmap", "in",
                            "claim", "reading", "zero", "kill", "map"}]
      /\ cur \in [Pagers -> Procs \cup {None}]
      /\ pageTable \in [Procs \cup Pagers -> [Page -> Frame \cup {Absent}]]
      /\ fault \in [Procs -> [page : Page, kill : BOOLEAN, wait : 0 .. 1]]
  BY DEF IndInv, TypeOK, PagerType, FrameType, ProcType
<1>1. PagerRuns(i) /\ UNCHANGED <<proc, swapSpace>>
  BY DEF Take, FreeFrame, SwapOut, Clock, Save, Written, Unmap, ReadDone, ZeroFill, Kill
<1>2. \A j \in Pagers \ {i} : pc'[j] = pc[j] /\ cur'[j] = cur[j]
  BY <1>t DEF Take, FreeFrame, SwapOut, Clock, Save, Written, Unmap, ReadDone, ZeroFill,
     Kill, Goto, Answer, Dequeue
<1>3. \A p \in Procs : fault'[p].page = fault[p].page
  <2>1. CASE Kill(i)
    BY <2>1, AnswerLemma DEF Kill, IndInv, TypeOK
  <2>2. CASE UNCHANGED fault
    BY <2>2
  <2> QED BY <2>1, <2>2 DEF Take, FreeFrame, SwapOut, Clock, Save, Written, Unmap,
             ReadDone, ZeroFill
<1>4. /\ pc'[i] # "claim"
      /\ pc'[i] \in {"reading", "zero", "map"} =>
           cur'[i] = cur[i] /\ pc[i] \in {"reading", "zero", "map"}
  BY <1>t DEF Take, FreeFrame, SwapOut, Clock, Chosen, Save, Written, Unmap, ReadDone,
     ZeroFill, Kill, Goto, Answer
<1>5. \A p \in Procs, g \in Page : Mapped(p, g)' => Mapped(p, g)
  <2>1. CASE UNCHANGED pageTable
    BY <2>1 DEF Mapped
  <2>2. CASE Save(i) \/ Written(i) \/ ReadDone(i) \/ ZeroFill(i)
    <3>1. \A p \in Procs : pageTable'[p] = pageTable[p]
      BY <2>2, <1>t, NamesAssumption DEF Save, Written, ReadDone, ZeroFill, FrameMap,
         FrameUnmap
    <3> QED BY <3>1 DEF Mapped
  <2>3. CASE Unmap(i)
    BY <2>3, <1>t DEF Unmap, Evict, Mapped
  <2> QED BY <2>1, <2>2, <2>3 DEF Take, FreeFrame, SwapOut, Clock, Kill
<1> QED BY <1>1, <1>2, <1>3, <1>4, <1>5, PagerSlots

(* P3SwapIn finds the slot of the page; it gets the frame's number.        *)
LEMMA SwapInReadSlots ==
  ASSUME NoSlices, IndInv, SlotInv, NEW i \in Pagers, SwapInRead(i)
  PROVE  SlotInv'
<1> USE DEF SlotInv, SwapInRead, Goto, procVars, pagerVars
<1>t. /\ pc \in [Pagers -> {"idle", "scan", "clock", "save", "writing", "unmap", "in",
                            "claim", "reading", "zero", "kill", "map"}]
      /\ cur[i] \in Procs /\ fault[cur[i]].page \in Page
      /\ swapSpace \in [Block -> [pid : Procs \cup {None}, page : Page \cup {-1},
                                  frame : Frame \cup {-1}, room : {0, 1}]]
  BY DEF IndInv, TypeOK, PagerType, SwapType, ProcType, Hands
<1>a. \A j \in Pagers \ {i} : pc[j] \in Blocked
  BY OneAtATime
<1>b. PICK b \in Block : /\ b \in Slots(cur[i], fault[cur[i]].page)
                         /\ swapSpace' = [swapSpace EXCEPT ![b].frame = frame[i]]
  BY DEF First
<1>s. \A c \in Block : /\ swapSpace'[c].pid = swapSpace[c].pid
                       /\ swapSpace'[c].page = swapSpace[c].page
                       /\ swapSpace'[c].room = swapSpace[c].room
                       /\ c # b => swapSpace'[c] = swapSpace[c]
  BY <1>b, <1>t
<1>o. \A p \in Procs, g \in Page : Slots(p, g)' = Slots(p, g)
  BY <1>s DEF Slots, Occupied
<1>p. pc' = [pc EXCEPT ![i] = "reading"]
  OBVIOUS
<1>1. OneRuns'
  BY <1>a, <1>p, <1>t DEF OneRuns, Blocked
<1>2. SlotReady'
  <2> SUFFICES ASSUME NEW j \in Pagers, pc'[j] \in {"reading", "zero", "map"}
               PROVE  (Slots(cur[j], fault[cur[j]].page) # {})'
    BY DEF SlotReady
  <2>1. cur[j] \in Procs /\ fault[cur[j]].page \in Page
    BY <1>p, <1>t DEF IndInv, TypeOK, Hands, ProcType
  <2>2. Slots(cur[j], fault[cur[j]].page) # {}
    BY <1>b, <1>p, <1>t DEF SlotReady
  <2> QED BY <2>1, <2>2, <1>o
<1>3. Claiming'
  BY <1>a, <1>p, <1>t DEF Claiming, Blocked
<1>4. SlotExclusive'
  <2>1. (\A c, d \in Block : /\ swapSpace[c].room = 1 /\ swapSpace[d].room = 1
                            /\ Occupied(d, swapSpace[c].pid, swapSpace[c].page)
                            => c = d)'
    BY <1>s DEF SlotExclusive, Occupied
  <2>2. \A q \in Procs, h \in Page : Live(q)' /\ Mapped(q, h)' => (Slots(q, h) # {})'
    <3>1. \A q \in Procs : pageTable'[q] = pageTable[q]
      BY NamesAssumption DEF FrameMap, IndInv, TypeOK, FrameType
    <3> QED BY <3>1, <1>o DEF SlotExclusive, Live, Mapped
  <2>3. (\A c \in Block : IF swapSpace[c].room = 1 THEN Live(swapSpace[c].pid)
                                                   ELSE swapSpace[c] = FreeSlot)'
    BY <1>b, <1>s DEF SlotExclusive, Live, Slots
  <2> QED BY <2>1, <2>2, <2>3 DEF SlotExclusive
<1> QED BY <1>1, <1>2, <1>3, <1>4

(* The search: no pager claims the slot before this one does.              *)
LEMMA FindRoomSlots ==
  ASSUME NoSlices, IndInv, SlotInv, NEW i \in Pagers, FindRoom(i)
  PROVE  SlotInv'
<1> USE DEF SlotInv, FindRoom, Goto, procVars, pagerVars
<1>t. /\ pc \in [Pagers -> {"idle", "scan", "clock", "save", "writing", "unmap", "in",
                            "claim", "reading", "zero", "kill", "map"}]
      /\ block \in [Pagers -> Block \cup {-1}] /\ block[i] = -1
  BY DEF IndInv, TypeOK, PagerType, Places
<1>a. \A j \in Pagers \ {i} : pc[j] \in Blocked
  BY OneAtATime
<1>p. pc' = [pc EXCEPT ![i] = "claim"]
  OBVIOUS
<1>1. OneRuns'
  BY <1>a, <1>p, <1>t DEF OneRuns, Blocked
<1>2. SlotReady'
  BY <1>p, <1>t DEF SlotReady, Slots, Occupied
<1>3. Claiming'
  <2> SUFFICES ASSUME NEW j \in Pagers, pc'[j] = "claim"
               PROVE  /\ (Slots(cur[j], fault[cur[j]].page))' = {}
                      /\ block'[j] # -1 => swapSpace'[block'[j]].room = 0
    BY DEF Claiming
  <2>1. j = i
    BY <1>a, <1>p, <1>t DEF Blocked
  <2>2. block'[i] # -1 => block'[i] \in Room
    BY <1>t DEF First
  <2> QED BY <2>1, <2>2 DEF Room, Slots, Occupied
<1>4. SlotExclusive'
  BY SlotExclusiveStays DEF Live, Mapped, IndInv
<1> QED BY <1>1, <1>2, <1>3, <1>4

(* The claim, of a slot that is still free.                                *)
LEMMA ClaimSlots ==
  ASSUME NoSlices, IndInv, SlotInv, NEW i \in Pagers, Claim(i)
  PROVE  SlotInv'
<1> USE DEF SlotInv, Claim, Goto, procVars, pagerVars
<1> DEFINE p == cur[i]  g == fault[p].page  b == block[i]
<1>t. /\ pc \in [Pagers -> {"idle", "scan", "clock", "save", "writing", "unmap", "in",
                            "claim", "reading", "zero", "kill", "map"}]
      /\ swapSpace \in [Block -> [pid : Procs \cup {None}, page : Page \cup {-1},
                                  frame : Frame \cup {-1}, room : {0, 1}]]
      /\ p \in Procs /\ g \in Page /\ (b # -1 => b \in Block) /\ Owed(p)
  BY DEF IndInv, TypeOK, PagerType, SwapType, ProcType, Hands
<1>a. \A j \in Pagers \ {i} : pc[j] \in Blocked
  BY OneAtATime
<1>p. \/ pc' = [pc EXCEPT ![i] = "zero"] /\ b # -1
      \/ pc' = [pc EXCEPT ![i] = "kill"]
  OBVIOUS
<1>n. \A c \in Block : ~(swapSpace[c].room = 1 /\ swapSpace[c].pid = p /\ swapSpace[c].page = g)
  BY DEF Claiming, Slots, Occupied
<1>s. \/ pc'[i] = "kill" /\ UNCHANGED swapSpace
      \/ /\ b \in Block /\ swapSpace[b].room = 0
         /\ \A c \in Block \ {b} : swapSpace'[c] = swapSpace[c]
         /\ swapSpace'[b].pid = p /\ swapSpace'[b].page = g /\ swapSpace'[b].room = 1
  BY <1>t DEF Claimed, Claiming
<1>o. \A q \in Procs, h \in Page : Slots(q, h) # {} => (Slots(q, h) # {})'
  BY <1>s DEF Slots, Occupied
<1>r. pc'[i] = "zero" => (Slots(p, g) # {})'
  BY <1>s DEF Slots, Occupied
<1>1. OneRuns'
  BY <1>a, <1>p, <1>t DEF OneRuns, Blocked
<1>2. SlotReady'
  <2> SUFFICES ASSUME NEW j \in Pagers, pc'[j] \in {"reading", "zero", "map"}
               PROVE  (Slots(cur[j], fault[cur[j]].page) # {})'
    BY DEF SlotReady
  <2>1. CASE j = i
    BY <2>1, <1>r, <1>p, <1>t
  <2>2. CASE j # i
    <3>1. pc[j] = pc'[j]
      BY <2>2, <1>p, <1>t
    <3>2. /\ cur[j] \in Procs /\ fault[cur[j]].page \in Page
          /\ Slots(cur[j], fault[cur[j]].page) # {}
      BY <3>1 DEF IndInv, TypeOK, Hands, ProcType, SlotReady
    <3> QED BY <3>2, <1>o
  <2> QED BY <2>1, <2>2
<1>3. Claiming'
  BY <1>a, <1>p, <1>t DEF Claiming, Blocked
<1>4. SlotExclusive'
  <2>1. Live(p)'
    BY <1>t DEF Live, Owed
  <2>2. (\A c, d \in Block : /\ swapSpace[c].room = 1 /\ swapSpace[d].room = 1
                            /\ Occupied(d, swapSpace[c].pid, swapSpace[c].page)
                            => c = d)'
    BY <1>s, <1>n DEF SlotExclusive, Occupied
  <2>3. \A q \in Procs, h \in Page : Live(q)' /\ Mapped(q, h)' => (Slots(q, h) # {})'
    BY <1>o DEF SlotExclusive, Live, Mapped
  <2>4. (\A c \in Block : IF swapSpace[c].room = 1 THEN Live(swapSpace[c].pid)
                                                   ELSE swapSpace[c] = FreeSlot)'
    BY <1>s, <2>1 DEF SlotExclusive, Live, FreeSlot
  <2> QED BY <2>2, <2>3, <2>4 DEF SlotExclusive
<1> QED BY <1>1, <1>2, <1>3, <1>4

(* The page is mapped, which has its slot by SlotReady.                    *)
LEMMA MapSlots ==
  ASSUME NoSlices, IndInv, SlotInv, NEW i \in Pagers, Map(i)
  PROVE  SlotInv'
<1> USE DEF SlotInv, Map, procVars, pagerVars, swapVars
<1>a. /\ cur[i] \in Procs
      /\ \A q \in Procs : fault'[q].page = fault[q].page
      /\ pc' = [pc EXCEPT ![i] = "idle"] /\ cur' = [cur EXCEPT ![i] = None]
  BY AnswerLemma DEF IndInv, TypeOK
<1>t. /\ pc \in [Pagers -> {"idle", "scan", "clock", "save", "writing", "unmap", "in",
                            "claim", "reading", "zero", "kill", "map"}]
      /\ cur \in [Pagers -> Procs \cup {None}]
      /\ fault[cur[i]].page \in Page
      /\ pageTable \in [Procs \cup Pagers -> [Page -> Frame \cup {Absent}]]
  BY <1>a DEF IndInv, TypeOK, PagerType, FrameType, ProcType
<1>m. \A q \in Procs, h \in Page :
        Mapped(q, h)' => Mapped(q, h) \/ (q = cur[i] /\ h = fault[cur[i]].page)
  BY <1>a, <1>t DEF Mapped
<1>b. \A j \in Pagers \ {i} : pc[j] \in Blocked
  BY OneAtATime
<1>1. OneRuns'
  BY <1>a, <1>b, <1>t DEF OneRuns, Blocked
<1>2. SlotReady'
  <2> SUFFICES ASSUME NEW j \in Pagers, pc'[j] \in {"reading", "zero", "map"}
               PROVE  (Slots(cur[j], fault[cur[j]].page) # {})'
    BY DEF SlotReady
  <2>1. j # i /\ pc[j] = pc'[j] /\ cur'[j] = cur[j]
    BY <1>a, <1>t
  <2>2. cur[j] \in Procs /\ Slots(cur[j], fault[cur[j]].page) # {}
    BY <2>1 DEF IndInv, Hands, SlotReady
  <2> QED BY <1>a, <2>1, <2>2 DEF Slots, Occupied
<1>3. Claiming'
  BY <1>a, <1>b, <1>t DEF Claiming, Blocked
<1>4. SlotExclusive'
  <2>1. Slots(cur[i], fault[cur[i]].page) # {}
    BY DEF SlotReady
  <2>2. \A q \in Procs, h \in Page : Live(q)' /\ Mapped(q, h)' => Slots(q, h) # {}
    BY <2>1, <1>m DEF SlotExclusive, Live
  <2> QED BY <2>2, SlotsStay DEF SlotExclusive, Occupied, Live
<1> QED BY <1>1, <1>2, <1>3, <1>4

(* What a process does leaves the pagers where they are, and the slots of  *)
(* the faults that they serve.                                             *)
LEMMA ProcSlots ==
  ASSUME IndInv, OneRuns, SlotReady, Claiming, NEW p \in Procs,
         UNCHANGED <<pc, cur, block>>, \A i \in Pagers : cur[i] # p,
         \A q \in Procs : q # p => fault'[q] = fault[q],
         \A q \in Procs, g \in Page : q # p => Slots(q, g)' = Slots(q, g),
         \A b \in Block : swapSpace[b].room = 0 => swapSpace'[b].room = 0
  PROVE  OneRuns' /\ SlotReady' /\ Claiming'
<1>1. \A i \in Pagers : pc[i] # "idle" => /\ cur[i] \in Procs /\ cur[i] # p
                                          /\ fault[cur[i]].page \in Page
  BY DEF IndInv, TypeOK, Hands, ProcType
<1>2. OneRuns' /\ SlotReady'
  BY <1>1 DEF OneRuns, SlotReady
<1>3. Claiming'
  <2> SUFFICES ASSUME NEW i \in Pagers, pc[i] = "claim"
               PROVE  /\ (Slots(cur[i], fault[cur[i]].page))' = {}
                      /\ block[i] # -1 => swapSpace'[block[i]].room = 0
    BY DEF Claiming
  <2>1. block[i] # -1 => block[i] \in Block
    BY DEF IndInv, TypeOK, PagerType
  <2> QED BY <1>1, <2>1 DEF Claiming
<1> QED BY <1>2, <1>3

(* The steps of a process.                                                 *)
LEMMA ProcNextSlots ==
  ASSUME IndInv, SlotInv, NEW p \in Procs, ProcNext(p)
  PROVE  SlotInv'
<1> USE DEF pagerVars, procVars, swapVars
<1>t. /\ proc \in [Procs -> {"user", "fault", "quit", "free", "dead"}]
      /\ fault \in [Procs -> [page : Page, kill : BOOLEAN, wait : 0 .. 1]]
      /\ pageTable \in [Procs \cup Pagers -> [Page -> Frame \cup {Absent}]]
      /\ OneRuns /\ SlotReady /\ Claiming /\ SlotExclusive /\ Owned /\ DeadEmpty
  BY DEF IndInv, TypeOK, ProcType, FrameType, SlotInv
<1>c. /\ UNCHANGED <<pc, cur, block>> /\ ~Owed(p)
      /\ \A q \in Procs : q # p => fault'[q] = fault[q] /\ proc'[q] = proc[q]
  BY <1>t DEF ProcNext, Access, Leave, Load, Store, Fault, Resume, Quit, SwapFreeAll,
              FrameFreeAll, Spawn, Owed
<1>h. \A i \in Pagers : cur[i] # p
  BY <1>c, NamesAssumption DEF IndInv, Hands
<1>1. CASE UNCHANGED swapSpace
  <2>1. OneRuns' /\ SlotReady' /\ Claiming'
    BY <1>1, <1>t, <1>c, <1>h, SlotsStay, ProcSlots
  <2>2. CASE UNCHANGED pageTable /\ Live(p)' = Live(p)
    <3>1. \A q \in Procs : Live(q)' = Live(q)
      BY <2>2, <1>c DEF Live
    <3>2. SlotExclusive'
      BY <1>1, <1>t, <2>2, <3>1, SlotExclusiveStays DEF Mapped
    <3> QED BY <2>1, <3>2 DEF SlotInv
  <2>3. CASE FrameFreeAll(p)
    <3>1. \A q \in Procs, h \in Page : Live(q)' /\ Mapped(q, h)' => (Slots(q, h) # {})'
      BY <2>3, <1>1, <1>t, <1>c, SlotsStay DEF FrameFreeAll, SlotExclusive, Live, Mapped
    <3>2. \A b \in Block : swapSpace[b].room = 1 => swapSpace[b].pid # p
      BY <2>3, <1>t DEF FrameFreeAll, SlotExclusive, Live
    <3>3. SlotExclusive'
      BY <1>1, <3>1, <3>2, <1>c, <1>t DEF SlotExclusive, Occupied, Live, Owned
    <3> QED BY <2>1, <3>3 DEF SlotInv
  <2>4. CASE Spawn(p)
    <3>1. \A g \in Page : ~Mapped(p, g)
      BY <2>4, <1>t DEF Spawn, DeadEmpty, EmptyTable, Mapped
    <3>2. \A q \in Procs, g \in Page : Live(q)' /\ Mapped(q, g)' => Slots(q, g) # {}
      BY <2>4, <3>1, <1>c, <1>t DEF Spawn, SlotExclusive, Live, Mapped
    <3>3. \A q \in Procs : Live(q) => Live(q)'
      BY <2>4, <1>c, <1>t DEF Spawn, Live
    <3>4. SlotExclusive'
      BY <1>1, <3>2, <3>3, <1>t, SlotsStay DEF SlotExclusive, Occupied, Owned
    <3> QED BY <2>1, <3>4 DEF SlotInv
  <2>5. ASSUME NEW g \in Page, Fault(p, g) \/ Load(p, g) \/ \E v \in Stamps(p, g) : Store(p, g, v)
        PROVE  UNCHANGED pageTable /\ Live(p)' = Live(p)
    BY <2>5, <1>t DEF Fault, Load, Store, Live
  <2>6. ASSUME Resume(p) \/ Quit(p)
        PROVE  UNCHANGED pageTable /\ Live(p)' = Live(p)
    BY <2>6, <1>t DEF Resume, Quit, Live
  <2>7. CASE SwapFreeAll(p)
    <3>1. \A b \in Block : swapSpace[b].pid # p
      BY <2>7, <1>1, NamesAssumption DEF SwapFreeAll, FreeSlot
    <3>2. SlotExclusive'
      <4>1. \A q \in Procs, h \in Page : Live(q)' /\ Mapped(q, h)' => (Slots(q, h) # {})'
        BY <2>7, <1>1, <1>t, <1>c, SlotsStay DEF SwapFreeAll, SlotExclusive, Live, Mapped
      <4> QED BY <1>1, <3>1, <4>1, <1>c, <1>t DEF SlotExclusive, Occupied, Live, Owned
    <3> QED BY <2>1, <3>2 DEF SlotInv
  <2> QED BY <2>2, <2>3, <2>4, <2>5, <2>6, <2>7 DEF ProcNext, Access, Leave
<1>2. CASE SwapFreeAll(p)
  <2>s. \A b \in Block : swapSpace'[b] = IF swapSpace[b].pid = p THEN FreeSlot ELSE swapSpace[b]
    BY <1>2 DEF SwapFreeAll
  <2>n. FreeSlot.pid = None /\ FreeSlot.room = 0
    BY DEF FreeSlot
  <2>o. \A q \in Procs, g \in Page : q # p => Slots(q, g)' = Slots(q, g)
    BY <2>s, <2>n, NamesAssumption DEF Slots, Occupied
  <2>v. proc'[p] = "free" /\ UNCHANGED pageTable
    BY <1>2, <1>t DEF SwapFreeAll
  <2>1. OneRuns' /\ SlotReady' /\ Claiming'
    BY <2>s, <2>n, <2>o, <1>t, <1>c, <1>h, ProcSlots
  <2>2. (\A b, c \in Block : /\ swapSpace[b].room = 1 /\ swapSpace[c].room = 1
                            /\ Occupied(c, swapSpace[b].pid, swapSpace[b].page)
                            => b = c)'
    BY <2>s, <2>n, <1>t DEF SlotExclusive, Occupied
  <2>3. \A q \in Procs, h \in Page : Live(q)' /\ Mapped(q, h)' => (Slots(q, h) # {})'
    BY <2>o, <2>v, <1>c, <1>t DEF SlotExclusive, Live, Mapped
  <2>4. (\A b \in Block : IF swapSpace[b].room = 1 THEN Live(swapSpace[b].pid)
                                                   ELSE swapSpace[b] = FreeSlot)'
    BY <2>s, <2>n, <1>c, <1>t DEF SlotExclusive, Live, Owned
  <2>5. SlotExclusive'
    BY <2>2, <2>3, <2>4 DEF SlotExclusive
  <2> QED BY <2>1, <2>5 DEF SlotInv
<1> QED BY <1>1, <1>2 DEF ProcNext, Access, Leave, Load, Store, Fault, Resume, Quit,
           FrameFreeAll, Spawn

(* A crash, or a stuttering step.                                          *)
LEMMA SameSlots ==
  ASSUME SlotInv, Owned, UNCHANGED <<procVars, pagerVars, pageTable, swapVars>>
  PROVE  SlotInv'
<1> USE DEF SlotInv, procVars, pagerVars, swapVars
<1>1. OneRuns' /\ SlotReady' /\ Claiming'
  BY DEF OneRuns, SlotReady, Claiming, Slots, Occupied
<1>2. SlotExclusive'
  BY SlotExclusiveStays DEF Live, Mapped
<1> QED BY <1>1, <1>2

(* No slot is in use.                                                     *)
LEMMA InitSlots == Init => SlotInv
BY DEF Init, SlotInv, OneRuns, Blocked, SlotReady, Claiming, SlotExclusive, FreeSlot, Mapped,
       EmptyTable

(* The steps together.                                                     *)
LEMMA StepSlots == NoSlices /\ IndInv /\ SlotInv /\ [Next]_vars => SlotInv'
<1> SUFFICES ASSUME NoSlices, IndInv, SlotInv, [Next]_vars PROVE SlotInv'
  OBVIOUS
<1>1. CASE UNCHANGED vars
  BY <1>1, SameSlots DEF vars, IndInv
<1>2. ASSUME NEW i \in Pagers, PagerNext(i) PROVE SlotInv'
  <2>1. CASE SaveNothing(i) \/ UnmapGarbage(i) \/ ReadDoneAssert(i) \/ MapFails(i)
    BY <2>1, SameSlots DEF SaveNothing, UnmapGarbage, ReadDoneAssert, MapFails, Crash, IndInv
  <2> QED BY <1>2, <2>1, PlainSlots, SwapInReadSlots, FindRoomSlots, ClaimSlots, MapSlots
          DEF PagerNext, SwapOutNext, SwapInNext
<1> QED BY <1>1, <1>2, ProcNextSlots DEF Next

(* Unless a pager can lose the CPU to another between the search for a     *)
(* slot and its claim (phase3d.c:545-550, see the run slot_race) a page    *)
(* has one slot at most, a resident page has one from its first fault      *)
(* until P3SwapFreeAll, and no slot outlives its process.                  *)
THEOREM SlotsAreExclusive ==
  ASSUME NoSlices
  PROVE  Spec => []SlotExclusive
<1>1. SlotInv => SlotExclusive
  BY DEF SlotInv
<1>2. Init => SlotInv
  BY InitSlots
<1>3. IndInv /\ SlotInv /\ [Next]_vars => SlotInv'
  BY StepSlots
<1> QED BY <1>1, <1>2, <1>3, Inductive, PTL DEF Spec
-----------------------------------------------------------------------------
(* Paging implements the fault protocol, whatever becomes of the frames.   *)

Stands == [p \in Procs |-> Standing(p)]
Held(p) == \E i \in Pagers : cur[i] = p

StandingIs(p) ==
  /\ proc[p] \in {"user", "quit", "free"} => Standing(p) = "running"
  /\ proc[p] = "dead" => Standing(p) = "dead"
  /\ proc[p] = "fault" /\ fault[p].wait > 0 => Standing(p) = "answered"
  /\ Owed(p) /\ Held(p) => Standing(p) = "held"
  /\ Owed(p) /\ ~Held(p) => Standing(p) = "pending"

(* Standing, case by case, so that its CASE is expanded only here.         *)
LEMMA StandingCases == \A p \in Procs : StandingIs(p)
  BY DEF StandingIs, Standing, Owed, Held

(* The same in the next state.                                             *)
LEMMA StandingCasesNext == \A p \in Procs : StandingIs(p)'
  BY DEF StandingIs, Standing, Owed, Held

(* A process moves only if its own state or fault does, or the pager that  *)
(* has its fault changes.                                                  *)
LEMMA StandingStays ==
  ASSUME NEW p \in Procs, proc'[p] = proc[p], fault'[p] = fault[p], Held(p)' = Held(p)
  PROVE  Standing(p)' = Standing(p)
  BY DEF Standing, Owed, Held

(* A step that moves one process only is the protocol's step of it.        *)
LEMMA OneMoves ==
  ASSUME NEW p \in Procs, NEW to, Standing(p)' = to,
         \A q \in Procs : q # p => Standing(q)' = Standing(q)
  PROVE  Stands' = [Stands EXCEPT ![p] = to]
  BY DEF Stands

(* Initially every process runs.                                           *)
LEMMA InitRefines == Init => Protocol!Init
<1> SUFFICES ASSUME Init PROVE Protocol!Init
  OBVIOUS
<1>1. \A p \in Procs : proc[p] = "user"
  BY DEF Init
<1>2. \A p \in Procs : Standing(p) = "running"
  BY <1>1, StandingCases DEF StandingIs
<1> QED BY <1>2 DEF Protocol!Init

(* dequeue: the process at the head passes from pending to held.           *)
LEMMA TakeRefines ==
  ASSUME IndInv, NEW i \in Pagers, Take(i)
  PROVE  Protocol!Next
<1>0. faultQueue # <<>> /\ faultQueue \in Seq(Procs)
  BY DEF Take, Dequeue, IndInv, TypeOK, ProcType
<1>1. PICK p \in Procs : p = Head(faultQueue) /\ p = faultQueue[1] /\ 1 \in 1 .. Len(faultQueue)
  BY <1>0, HeadTailProperties, LenProperties, EmptySeq
<1>2. Owed(p) /\ ~Held(p)
  BY <1>1 DEF IndInv, Queue, Held
<1>3. /\ cur' = [cur EXCEPT ![i] = p] /\ cur \in [Pagers -> Procs \cup {None}]
      /\ cur[i] = None /\ UNCHANGED <<proc, fault>>
  BY <1>1 DEF Take, Dequeue, IndInv, TypeOK, PagerType, Hands
<1>4. Owed(p)' /\ Held(p)'
  BY <1>2, <1>3 DEF Owed, Held
<1>5. ASSUME NEW q \in Procs, q # p PROVE Standing(q)' = Standing(q)
  <2>1. Held(q)' = Held(q)
    BY <1>3, <1>5, NamesAssumption DEF Held
  <2> QED BY <1>3, <2>1, StandingStays
<1>6. Standing(p) = "pending" /\ Standing(p)' = "held"
  BY <1>2, <1>4, StandingCases, StandingCasesNext DEF StandingIs
<1>7. Protocol!Take(p)
  BY <1>5, <1>6, OneMoves DEF Stands, Protocol!Take, Protocol!Become
<1> QED BY <1>7 DEF Protocol!Next

(* P1_V(fault.wait): a process whose fault was held has its answer.        *)
LEMMA AnswerRefines ==
  ASSUME IndInv, NEW i \in Pagers, pc[i] # "idle", NEW k \in BOOLEAN, Answer(i, k),
         UNCHANGED proc
  PROVE  Protocol!Next
<1>1. PICK p \in Procs : p = cur[i]
  BY AnswerLemma DEF IndInv, TypeOK
<1>2. /\ Owed(p) /\ fault'[p].wait = 1 /\ cur' = [cur EXCEPT ![i] = None]
      /\ \A q \in Procs : q # p => fault'[q] = fault[q]
      /\ cur \in [Pagers -> Procs \cup {None}]
  BY <1>1, AnswerLemma DEF IndInv, TypeOK, PagerType
<1>3. Standing(p) = "held"
  BY <1>1, <1>2, StandingCases DEF StandingIs, Held
<1>4. Standing(p)' = "answered"
  <2>1. proc'[p] = "fault" /\ fault'[p].wait > 0
    BY <1>2 DEF Owed
  <2> QED BY <2>1, StandingCasesNext DEF StandingIs
<1>5. ASSUME NEW q \in Procs, q # p PROVE Standing(q)' = Standing(q)
  <2>1. Held(q)' = Held(q)
    BY <1>1, <1>2, <1>5, NamesAssumption DEF Held
  <2> QED BY <1>2, <1>5, <2>1, StandingStays
<1>6. Protocol!Answer(p)
  BY <1>3, <1>4, <1>5, OneMoves DEF Stands, Protocol!Answer, Protocol!Become
<1> QED BY <1>6 DEF Protocol!Next

(* The steps of a process: all of the protocol's steps but Take and        *)
(* Answer, of which Killed is two here, of P1_Quit and of its end.         *)
LEMMA ProcRefines ==
  ASSUME IndInv, NEW p \in Procs, ProcNext(p)
  PROVE  Protocol!Next \/ Stands' = Stands
<1>1. /\ proc \in [Procs -> {"user", "fault", "quit", "free", "dead"}]
      /\ fault \in [Procs -> [page : Page, kill : BOOLEAN, wait : 0 .. 1]]
      /\ 0 \in Page
  BY Sizes DEF IndInv, TypeOK, ProcType
<1>2. cur' = cur
  BY DEF ProcNext, Access, Leave, Load, Store, Fault, Resume, Quit, SwapFreeAll,
         FrameFreeAll, Spawn, pagerVars
<1>3. \A q \in Procs : Held(q)' = Held(q)
  BY <1>2 DEF Held
<1>4. \A q \in Procs : q # p => proc'[q] = proc[q] /\ fault'[q] = fault[q]
  BY <1>1 DEF ProcNext, Access, Leave, Load, Store, Fault, Resume, Quit, SwapFreeAll,
              FrameFreeAll, Spawn, procVars
<1>5. \A q \in Procs : q # p => Standing(q)' = Standing(q)
  BY <1>3, <1>4, StandingStays
<1>6. Standing(p)' = Standing(p) => Stands' = Stands
  BY <1>5 DEF Stands
<1>7. CASE \E g \in Page : Load(p, g) \/ \E v \in Stamps(p, g) : Store(p, g, v)
  BY <1>3, <1>6, <1>7, StandingStays DEF Load, Store, procVars
<1>8. ASSUME NEW g \in Page, Fault(p, g) PROVE Protocol!Next
  <2>1. proc[p] = "user" /\ proc'[p] = "fault" /\ fault'[p].wait = 0
    BY <1>1, <1>8 DEF Fault
  <2>2. ~Held(p)'
    BY <2>1, <1>3, NamesAssumption DEF Held, IndInv, Hands, Owed
  <2>3. Standing(p) = "running" /\ Standing(p)' = "pending"
    BY <2>1, <2>2, StandingCases, StandingCasesNext DEF StandingIs, Owed
  <2>4. Protocol!Raise(p)
    BY <2>3, <1>5, OneMoves DEF Stands, Protocol!Raise, Protocol!Become
  <2> QED BY <2>4 DEF Protocol!Next
<1>9. CASE Resume(p)
  <2>1. proc[p] = "fault" /\ fault[p].wait > 0 /\ proc'[p] \in {"user", "quit"}
    BY <1>1, <1>9 DEF Resume
  <2>2. Standing(p) = "answered" /\ Standing(p)' = "running"
    BY <2>1, StandingCases, StandingCasesNext DEF StandingIs
  <2>3. Protocol!Resume(p)
    BY <2>2, <1>5, OneMoves DEF Stands, Protocol!Resume, Protocol!Become
  <2> QED BY <2>3 DEF Protocol!Next
<1>10. CASE Quit(p) \/ SwapFreeAll(p)
  <2>1. proc[p] \in {"user", "quit"} /\ proc'[p] \in {"quit", "free"}
    BY <1>1, <1>10 DEF Quit, SwapFreeAll
  <2>2. Standing(p) = "running" /\ Standing(p)' = "running"
    BY <2>1, StandingCases, StandingCasesNext DEF StandingIs
  <2> QED BY <2>2, <1>6
<1>11. CASE FrameFreeAll(p)
  <2>1. proc[p] = "free" /\ proc'[p] = "dead"
    BY <1>1, <1>11 DEF FrameFreeAll
  <2>2. Standing(p) = "running" /\ Standing(p)' = "dead"
    BY <2>1, StandingCases, StandingCasesNext DEF StandingIs
  <2>3. Protocol!Quit(p)
    BY <2>2, <1>5, OneMoves DEF Stands, Protocol!Quit, Protocol!Become
  <2> QED BY <2>3 DEF Protocol!Next
<1>12. CASE Spawn(p)
  <2>1. proc[p] = "dead" /\ proc'[p] = "user"
    BY <1>1, <1>12 DEF Spawn
  <2>2. Standing(p) = "dead" /\ Standing(p)' = "running"
    BY <2>1, StandingCases, StandingCasesNext DEF StandingIs
  <2>3. Protocol!Spawn(p)
    BY <2>2, <1>5, OneMoves DEF Stands, Protocol!Spawn, Protocol!Become
  <2> QED BY <2>3 DEF Protocol!Next
<1> QED BY <1>7, <1>8, <1>9, <1>10, <1>11, <1>12 DEF ProcNext, Access, Leave

(* Every step moves one process along the protocol or none at all.         *)
LEMMA StepRefines == IndInv /\ [Next]_vars => [Protocol!Next]_Stands
<1> SUFFICES ASSUME IndInv, [Next]_vars
             PROVE  Protocol!Next \/ Stands' = Stands
  OBVIOUS
<1>1. ASSUME UNCHANGED <<proc, fault, cur>> PROVE Stands' = Stands
  BY <1>1 DEF Stands, Standing, Owed
<1>2. ASSUME NEW i \in Pagers, PagerNext(i)
      PROVE  Protocol!Next \/ Stands' = Stands
  <2>1. CASE Take(i)
    BY <2>1, TakeRefines
  <2>2. CASE Kill(i) \/ Map(i)
    BY <2>2, AnswerRefines DEF Kill, Map
  <2>3. CASE FreeFrame(i)
    BY <2>3, <1>1 DEF FreeFrame, procVars
  <2>4. CASE SwapOutNext(i)
    <3>1. UNCHANGED <<proc, fault, cur>>
      BY <2>4 DEF SwapOutNext, SwapOut, Clock, Save, SaveNothing, Written, Unmap,
                  UnmapGarbage, Crash, procVars, pagerVars
    <3> QED BY <3>1, <1>1
  <2>5. CASE SwapInNext(i)
    <3>1. UNCHANGED <<proc, fault, cur>>
      BY <2>5 DEF SwapInNext, SwapInRead, ReadDone, ReadDoneAssert, FindRoom, Claim,
                  ZeroFill, MapFails, Crash, procVars, pagerVars
    <3> QED BY <3>1, <1>1
  <2> QED BY <1>2, <2>1, <2>2, <2>3, <2>4, <2>5 DEF PagerNext
<1>3. CASE UNCHANGED vars
  BY <1>3, <1>1 DEF vars, procVars, pagerVars
<1> QED BY <1>2, <1>3, ProcRefines DEF Next

(* With the swap code in the path of every fault, with any number of       *)
(* pagers, a fault is still taken by one of them, answered once, and its   *)
(* process goes on only then.                                              *)
THEOREM PagingImplementsProtocol == Spec => ImplementsProtocol
<1>1. IndInv /\ [Next]_vars => [Protocol!Next]_[p \in Procs |-> Standing(p)]
  BY StepRefines DEF Stands
<1> QED BY <1>1, InitRefines, Inductive, PTL DEF Spec, ImplementsProtocol, Protocol!Spec
=============================================================================
