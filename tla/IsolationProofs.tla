--------------------------- MODULE IsolationProofs ---------------------------
(***************************************************************************)
(* Proofs about the data of Paging, for any sizes, with one pager that     *)
(* never runs between the halves of P3_FreePageTable, and no process above *)
(* it or only one process at all.  A process above the pager can store     *)
(* into its page after the copy of its frame and before it loses the page. *)
(* If the fault then ends in a kill for lack of swap, the frame is left    *)
(* dirty with no owner; the clock may save it later over a slot that the   *)
(* next process with this pid has claimed.                                 *)
(*                                                                         *)
(* DataInv follows the contents of frames and slots.                       *)
(***************************************************************************)
EXTENDS OnePagerProofs

(* No process moves between two steps of the pager.                        *)
Undisturbed == Above = {} \/ \E p : Procs = {p}

Own(q, h) == {Zero} \cup Stamps(q, h)

(* While the pager runs nothing is between the halves of P3_FreePageTable, *)
(* and the clock runs only when no frame is free.                          *)
Turns == \A i \in Pagers :
  /\ pc[i] \notin Blocked => \A p \in Procs : proc[p] # "free"
  /\ pc[i] \in {"clock", "save"} => freeFrames = {}

(* The frame that is being taken away.                                     *)
Saving == \A i \in Pagers :
  /\ pc[i] = "save" => frame[i] \in dirty
  /\ pc[i] = "writing" => \A q \in Procs, h \in Page :
       Live(q) /\ pageTable[q][h] = frame[i] => block[i] \in Slots(q, h)
  /\ pc[i] = "unmap" => frame[i] \notin dirty
  /\ pc[i] = "map" => frame[i] \in dirty
DirtyKept == \A f \in dirty : \/ f \in freeFrames \/ ~Unmapped(f)
                              \/ \E i \in Pagers : pc[i] = "map" /\ frame[i] = f

(* Whose data is where.                                                    *)
Contents ==
  /\ \A i \in Pagers :
       /\ pc[i] = "map" => mem[frame[i]] \in Own(cur[i], fault[cur[i]].page)
       /\ pc[i] = "writing" /\ swapSpace[block[i]].room = 1 =>
            buf[i] \in Own(swapSpace[block[i]].pid, swapSpace[block[i]].page)
  /\ \A b \in Block : swapSpace[b].room = 1 =>
       \/ disk[b] \in Own(swapSpace[b].pid, swapSpace[b].page)
       \/ pageTable[swapSpace[b].pid][swapSpace[b].page] \in dirty
       \/ \E i \in Pagers : /\ pc[i] \in {"zero", "map"}
                            /\ Serving(i, swapSpace[b].pid, swapSpace[b].page)

(* The page table that P3SwapOut never assigned (phase3d.c:459).           *)
OnlyTableCrash == crash \in {"none", "garbage table"}

DataInv == /\ Turns /\ Saving /\ DirtyKept /\ Contents /\ Isolation /\ OnlyTableCrash
-----------------------------------------------------------------------------
(* Every step preserves DataInv.                                           *)

(* P1_P(pagerSem) and dequeue.                                             *)
LEMMA TakeData ==
  ASSUME IndInv, SlotInv, TableInv, DataInv, ~QuitPreempts, NEW i \in Pagers,
         Pagers = {i}, Take(i)
  PROVE  DataInv'
<1> USE DEF IndInv, SlotInv, TableInv, DataInv, TypeOK, Take, PagerRuns, Goto,
            procVars, pagerVars, frameVars, swapVars, hwVars, Dequeue
<1>1. Turns' /\ Saving' /\ Contents' /\ OnlyTableCrash'
  BY DEF Turns, Saving, Contents, OnlyTableCrash
<1>2. DirtyKept'
  BY DEF DirtyKept, Unmapped
<1>3. Isolation'
  BY DEF Isolation, Mapped
<1> QED BY <1>1, <1>2, <1>3

(* The frame found free is in no table.                                    *)
LEMMA FreeFrameData ==
  ASSUME IndInv, SlotInv, TableInv, DataInv, ~QuitPreempts, NEW i \in Pagers,
         Pagers = {i}, FreeFrame(i)
  PROVE  DataInv'
<1> USE DEF IndInv, SlotInv, TableInv, DataInv, TypeOK, FreeFrame, PagerRuns,
            Goto, procVars, pagerVars, frameVars, swapVars, hwVars, First
<1>1. Turns' /\ Saving' /\ Contents' /\ OnlyTableCrash'
  BY DEF Turns, Saving, Contents, OnlyTableCrash
<1>2. DirtyKept'
  BY DEF DirtyKept, Unmapped
<1>3. Isolation'
  BY DEF Isolation, Mapped
<1> QED BY <1>1, <1>2, <1>3

(* The clock runs only when no frame is free.                              *)
LEMMA SwapOutData ==
  ASSUME IndInv, SlotInv, TableInv, DataInv, ~QuitPreempts, NEW i \in Pagers,
         Pagers = {i}, SwapOut(i)
  PROVE  DataInv'
<1> USE DEF IndInv, SlotInv, TableInv, DataInv, TypeOK, SwapOut, PagerRuns,
            Goto, procVars, pagerVars, frameVars, swapVars, hwVars
<1>1. Turns' /\ Saving' /\ Contents' /\ OnlyTableCrash'
  BY DEF Turns, Saving, Contents, OnlyTableCrash
<1>2. DirtyKept'
  BY DEF DirtyKept, Unmapped
<1>3. Isolation'
  BY DEF Isolation, Mapped
<1> QED BY <1>1, <1>2, <1>3

(* One turn of the clock's loop.                                           *)
LEMMA ClockData ==
  ASSUME IndInv, SlotInv, TableInv, DataInv, ~QuitPreempts, NEW i \in Pagers,
         Pagers = {i}, Clock(i)
  PROVE  DataInv'
<1> USE DEF IndInv, SlotInv, TableInv, DataInv, TypeOK, Clock, PagerRuns, Goto,
            procVars, pagerVars, frameVars, swapVars, hwVars, Chosen
<1>1. Turns' /\ OnlyTableCrash'
  BY DEF Turns, OnlyTableCrash
<1>2. Saving'
  BY DEF Saving, PagerType
<1>3. DirtyKept'
  BY DEF DirtyKept, Unmapped
<1>4. Contents'
  BY DEF Contents, PagerType
<1>5. Isolation'
  BY DEF Isolation, Mapped
<1> QED BY <1>1, <1>2, <1>3, <1>4, <1>5

(* A dirty frame that is not free belongs to a page of a live process,     *)
(* whose data is copied.                                                   *)
LEMMA SaveData ==
  ASSUME IndInv, SlotInv, TableInv, DataInv, ~QuitPreempts, NEW i \in Pagers,
         Pagers = {i}, Save(i)
  PROVE  DataInv'
<1> USE DEF IndInv, SlotInv, TableInv, DataInv, TypeOK, Save, PagerRuns, Goto,
            procVars, pagerVars, frameVars, swapVars, hwVars, First, FrameMap
<1>a. frame[i] \in Frame /\ Absent \notin Frame
  BY SizesAssumption DEF Places, Frame, Absent
<1>m. \E q \in Procs, h \in Page : /\ Live(q) /\ pageTable[q][h] = frame[i]
                                  /\ Mapped(q, h)
  BY <1>a DEF Saving, Turns, DirtyKept, Unmapped, Live, Mapped, DeadEmpty, EmptyTable, Blocked
<1>g. PICK g \in Page : pageTable' = [pageTable EXCEPT ![i][g] = frame[i]]
  BY DEF FrameMap
<1>t. /\ pageTable'[i] = [EmptyTable EXCEPT ![g] = frame[i]]
      /\ \A q \in Procs : pageTable'[q] = pageTable[q]
  BY <1>g, NamesAssumption DEF OwnTable, FrameType
<1>b. pc'[i] = "writing" /\ frame'[i] = frame[i] /\ frame[i] \in usedMap'
  BY DEF PagerType, FrameMap
<1>1. Turns' /\ OnlyTableCrash'
  BY DEF Turns, OnlyTableCrash
<1>2. Saving'
  <2>1. PICK b \in SlotsFor(frame[i]) : block' = [block EXCEPT ![i] = b]
    BY DEF First
  <2>2. ASSUME NEW q \in Procs, NEW h \in Page, Live(q), pageTable[q][h] = frame[i]
        PROVE  b \in Slots(q, h)
    <3>1. inFrame[frame[i]] = [pid |-> q, page |-> h]
      BY <2>2, <1>a DEF RecordsAgree, Mapped
    <3>2. b \in Block /\ Occupied(b, q, h)
      BY <2>1, <3>1 DEF SlotsFor
    <3>3. swapSpace[b] # FreeSlot
      BY <3>2, NamesAssumption DEF Occupied, FreeSlot
    <3> QED BY <3>2, <3>3 DEF SlotExclusive, Slots
  <2>3. \A q \in Procs, h \in Page : Live(q)' /\ pageTable'[q][h] = frame[i] => b \in Slots(q, h)'
    BY <1>t, <2>2 DEF Live, Slots, Occupied
  <2>4. block'[i] = b
    BY <2>1 DEF PagerType
  <2> QED BY <1>b, <2>3, <2>4 DEF Saving
<1>3. DirtyKept'
  BY NamesAssumption DEF DirtyKept, Unmapped
<1>4. Contents'
  <2>1. PICK b \in SlotsFor(frame[i]) : block' = [block EXCEPT ![i] = b]
    BY DEF First
  <2>2. PICK q \in Procs, h \in Page : Live(q) /\ pageTable[q][h] = frame[i] /\ Mapped(q, h)
    BY <1>m
  <2>3. inFrame[frame[i]] = [pid |-> q, page |-> h]
    BY <2>2 DEF RecordsAgree
  <2>4. swapSpace[b].pid = q /\ swapSpace[b].page = h
    BY <2>1, <2>3 DEF SlotsFor, Occupied
  <2>5. mem[frame[i]] \in Own(q, h)
    BY <2>2 DEF Isolation, Own
  <2>6. block'[i] = b /\ buf'[i] = mem[frame[i]] /\ pc'[i] = "writing"
    BY <2>1 DEF PagerType
  <2>7. \A c \in Block : swapSpace[c].room = 1 =>
          \/ disk[c] \in Own(swapSpace[c].pid, swapSpace[c].page)
          \/ pageTable'[swapSpace[c].pid][swapSpace[c].page] \in dirty
    BY <1>t DEF Contents, Owned, Serving
  <2> QED BY <2>4, <2>5, <2>6, <2>7 DEF Contents, Own
<1>5. Isolation'
  BY NamesAssumption DEF Isolation, Mapped
<1> QED BY <1>1, <1>2, <1>3, <1>4, <1>5

(* The write ends: the copy is in the slot of the page that is still       *)
(* mapped.                                                                 *)
LEMMA WrittenData ==
  ASSUME IndInv, SlotInv, TableInv, DataInv, ~QuitPreempts, NEW i \in Pagers,
         Pagers = {i}, Written(i)
  PROVE  DataInv'
<1> USE DEF IndInv, SlotInv, TableInv, DataInv, TypeOK, Written, PagerRuns,
            Goto, procVars, pagerVars, frameVars, swapVars, hwVars, CanUnmap,
            FrameUnmap, Last
<1>a. frame[i] \in Frame /\ Absent \notin Frame
  BY SizesAssumption DEF Places, Frame, Absent
<1>x. PICK x \in Page : pageTable[i] = [EmptyTable EXCEPT ![x] = frame[i]]
  BY DEF OwnTable
<1>y. Entries(i, frame[i]) = {x}
  BY <1>a, <1>x DEF Entries, EmptyTable
<1>t. /\ pageTable'[i] = EmptyTable /\ \A q \in Procs : pageTable'[q] = pageTable[q]
  <2>1. FrameUnmap(i, frame[i])
    BY <1>y DEF OwnTable
  <2>2. pageTable' = [pageTable EXCEPT ![i][x] = Absent]
    BY <1>y, <2>1
  <2> QED BY <2>2, <1>x, NamesAssumption DEF FrameType, EmptyTable
<1>b. block[i] \in Block /\ pc'[i] = "unmap"
  BY DEF Places, PagerType
<1>1. Turns' /\ OnlyTableCrash'
  BY DEF Turns, OnlyTableCrash
<1>2. Saving'
  BY DEF Saving, PagerType
<1>3. DirtyKept'
  BY <1>t, <1>b DEF DirtyKept, Unmapped
<1>4. Contents'
  <2>1. \A b \in Block : disk'[b] = IF b = block[i] THEN buf[i] ELSE disk[b]
    BY <1>b DEF DataType
  <2>2. ASSUME NEW b \in Block, swapSpace[b].room = 1, b # block[i]
        PROVE  \/ disk[b] \in Own(swapSpace[b].pid, swapSpace[b].page)
               \/ pageTable'[swapSpace[b].pid][swapSpace[b].page] \in dirty'
    <3> DEFINE q == swapSpace[b].pid  h == swapSpace[b].page
    <3>1. q \in Procs /\ Live(q)
      BY <2>2 DEF Owned, SlotExclusive
    <3>2. disk[b] \in Own(q, h) \/ pageTable[q][h] \in dirty
      BY <2>2 DEF Contents, Serving
    <3>3. ASSUME pageTable[q][h] = frame[i], h \in Page PROVE FALSE
      <4>1. block[i] \in Slots(q, h)
        BY <3>1, <3>3 DEF Saving
      <4> QED BY <4>1, <1>b, <2>2 DEF SlotExclusive, Slots, Occupied
    <3>4. h \in Page
      BY <2>2 DEF Owned
    <3> QED BY <3>1, <3>2, <3>3, <3>4, <1>t
  <2> QED BY <1>b, <2>1, <2>2 DEF Contents, Own
<1>5. Isolation'
  BY DEF Isolation, FrameType, Mapped
<1> QED BY <1>1, <1>2, <1>3, <1>4, <1>5

(* The slots that name the frame lead to the one table that maps it.       *)
LEMMA UnmapData ==
  ASSUME IndInv, SlotInv, TableInv, DataInv, ~QuitPreempts, NEW i \in Pagers,
         Pagers = {i}, Unmap(i)
  PROVE  DataInv'
<1> USE DEF IndInv, SlotInv, TableInv, DataInv, TypeOK, Unmap, PagerRuns, Goto,
            procVars, pagerVars, frameVars, swapVars, hwVars, Evict, Unlock,
            CountEvicted
<1>b. pc'[i] = "in"
  BY DEF PagerType
<1>t. \A q \in Procs, h \in Page :
        /\ pageTable'[q][h] \in {pageTable[q][h], Absent}
        /\ pageTable[q][h] # frame[i] => pageTable'[q][h] = pageTable[q][h]
  BY DEF FrameType
<1>1. Turns' /\ Saving' /\ OnlyTableCrash'
  BY DEF Turns, Saving, OnlyTableCrash
<1>2. DirtyKept'
  BY DEF DirtyKept, Saving, Unmapped
<1>3. Contents'
  <2>1. ASSUME NEW b \in Block, swapSpace[b].room = 1
        PROVE  \/ disk[b] \in Own(swapSpace[b].pid, swapSpace[b].page)
               \/ pageTable'[swapSpace[b].pid][swapSpace[b].page] \in dirty
    <3> DEFINE q == swapSpace[b].pid  h == swapSpace[b].page
    <3>1. q \in Procs /\ h \in Page
      BY <2>1 DEF Owned
    <3>2. disk[b] \in Own(q, h) \/ pageTable[q][h] \in dirty
      BY <2>1 DEF Contents, Serving
    <3>3. frame[i] \notin dirty
      BY DEF Saving
    <3>4. pageTable[q][h] # frame[i] => pageTable'[q][h] = pageTable[q][h]
      BY <3>1, <1>t
    <3>5. pageTable[q][h] \in dirty => pageTable'[q][h] \in dirty
      BY <3>3, <3>4
    <3> QED BY <3>2, <3>5
  <2>2. swapSpace' = swapSpace /\ disk' = disk /\ dirty' = dirty
    OBVIOUS
  <2>3. (\A b \in Block : swapSpace[b].room = 1 =>
           \/ disk[b] \in Own(swapSpace[b].pid, swapSpace[b].page)
           \/ pageTable[swapSpace[b].pid][swapSpace[b].page] \in dirty)'
    BY <2>1, <2>2 DEF Own
  <2> QED BY <1>b, <2>3 DEF Contents
<1>4. Isolation'
  BY DEF Isolation, Mapped
<1> QED BY <1>1, <1>2, <1>3, <1>4

(* The slot of the page and the list by frame are told the new frame.      *)
LEMMA SwapInReadData ==
  ASSUME IndInv, SlotInv, TableInv, DataInv, ~QuitPreempts, NEW i \in Pagers,
         Pagers = {i}, SwapInRead(i)
  PROVE  DataInv'
<1> USE DEF IndInv, SlotInv, TableInv, DataInv, TypeOK, SwapInRead, PagerRuns,
            Goto, procVars, pagerVars, frameVars, swapVars, hwVars, Resident,
            First, FrameMap
<1> DEFINE p == cur[i]  g == fault[p].page
<1>1. Turns' /\ Saving' /\ OnlyTableCrash'
  BY DEF Turns, Saving, OnlyTableCrash
<1>2. DirtyKept'
  BY NamesAssumption DEF DirtyKept, Unmapped
<1>3. Contents'
  BY NamesAssumption DEF Contents, SwapType
<1>4. Isolation'
  BY NamesAssumption DEF Isolation, Mapped
<1> QED BY <1>1, <1>2, <1>3, <1>4

(* The read ends: the frame holds what the slot of the page held.          *)
LEMMA ReadDoneData ==
  ASSUME IndInv, SlotInv, TableInv, DataInv, ~QuitPreempts, NEW i \in Pagers,
         Pagers = {i}, ReadDone(i)
  PROVE  DataInv'
<1> USE DEF IndInv, SlotInv, TableInv, DataInv, TypeOK, ReadDone, PagerRuns,
            Goto, procVars, pagerVars, frameVars, swapVars, hwVars, CanUnmap,
            FrameUnmap, Last, NotBusy, Unlock
<1>a. frame[i] \in Frame /\ Absent \notin Frame
  BY SizesAssumption DEF Places, Frame, Absent
<1>x. PICK x \in Page : pageTable[i] = [EmptyTable EXCEPT ![x] = frame[i]]
  BY DEF OwnTable
<1>y. Entries(i, frame[i]) = {x}
  BY <1>a, <1>x DEF Entries, EmptyTable
<1>t. /\ pageTable'[i] = EmptyTable /\ \A q \in Procs : pageTable'[q] = pageTable[q]
  <2>1. pageTable' = [pageTable EXCEPT ![i][x] = Absent]
    BY <1>y
  <2> QED BY <2>1, <1>x, NamesAssumption DEF FrameType, EmptyTable
<1> DEFINE p == cur[i]  g == fault[p].page
<1>c. p \in Procs /\ g \in Page /\ Owed(p)
  BY DEF Hands, ProcType
<1>b. pc'[i] = "map" /\ block[i] \in Slots(p, g) /\ mem'[frame[i]] = disk[block[i]]
  BY <1>a DEF Filling, PagerType, DataType
<1>1. Turns' /\ Saving' /\ OnlyTableCrash'
  BY DEF Turns, Saving, OnlyTableCrash
<1>2. DirtyKept'
  BY NamesAssumption DEF DirtyKept, PagerType, Unmapped
<1>3. Contents'
  <2>1. pageTable[p][g] = Absent /\ Absent \notin dirty
    BY <1>a, <1>c DEF FaultAbsent, FrameType
  <2>2. disk[block[i]] \in Own(p, g)
    BY <1>b, <2>1 DEF Contents, Serving, Slots, Occupied
  <2>3. \A c \in Block : swapSpace[c].room = 1 =>
          \/ disk[c] \in Own(swapSpace[c].pid, swapSpace[c].page)
          \/ pageTable'[swapSpace[c].pid][swapSpace[c].page] \in dirty'
    BY <1>t DEF Contents, Owned, Serving
  <2> QED BY <1>b, <2>2, <2>3 DEF Contents, Own
<1>4. Isolation'
  BY DEF Isolation, Filling, Unmapped, Fills, Mapped
<1> QED BY <1>1, <1>2, <1>3, <1>4

(* The slot that is found is not in use yet.                               *)
LEMMA FindRoomData ==
  ASSUME IndInv, SlotInv, TableInv, DataInv, ~QuitPreempts, NEW i \in Pagers,
         Pagers = {i}, FindRoom(i)
  PROVE  DataInv'
<1> USE DEF IndInv, SlotInv, TableInv, DataInv, TypeOK, FindRoom, PagerRuns,
            Goto, procVars, pagerVars, frameVars, swapVars, hwVars, Resident
<1>1. Turns' /\ Saving' /\ OnlyTableCrash'
  BY DEF Turns, Saving, OnlyTableCrash, PagerType
<1>2. DirtyKept'
  BY DEF DirtyKept, Unmapped
<1>3. Contents'
  BY DEF Contents, Own, Serving, PagerType
<1>4. Isolation'
  BY DEF Isolation, Mapped
<1> QED BY <1>1, <1>2, <1>3, <1>4

(* A slot is claimed for a page that has none; it is to be cleared.        *)
LEMMA ClaimData ==
  ASSUME IndInv, SlotInv, TableInv, DataInv, ~QuitPreempts, NEW i \in Pagers,
         Pagers = {i}, Claim(i)
  PROVE  DataInv'
<1> USE DEF IndInv, SlotInv, TableInv, DataInv, TypeOK, Claim, PagerRuns, Goto,
            procVars, pagerVars, frameVars, swapVars, hwVars, NotBusy
<1> DEFINE p == cur[i]  g == fault[p].page
<1>b. \/ pc'[i] = "kill" /\ UNCHANGED swapSpace
      \/ /\ pc'[i] = "zero"
         /\ \E b \in Block : /\ \A c \in Block \ {b} : swapSpace'[c] = swapSpace[c]
                             /\ swapSpace'[b].pid = p /\ swapSpace'[b].page = g
  BY DEF Claimed, PagerType, SwapType
<1>1. Turns' /\ Saving' /\ OnlyTableCrash'
  BY DEF Turns, Saving, OnlyTableCrash, PagerType
<1>2. DirtyKept'
  BY DEF DirtyKept, Unmapped
<1>3. Contents'
  <2>1. \A c \in Block : swapSpace[c].room = 1 =>
          \/ disk[c] \in Own(swapSpace[c].pid, swapSpace[c].page)
          \/ pageTable[swapSpace[c].pid][swapSpace[c].page] \in dirty
    BY DEF Contents, Serving
  <2>2. ASSUME NEW c \in Block, swapSpace'[c].room = 1
        PROVE  \/ disk[c] \in Own(swapSpace'[c].pid, swapSpace'[c].page)
               \/ pageTable[swapSpace'[c].pid][swapSpace'[c].page] \in dirty
               \/ /\ pc'[i] = "zero" /\ swapSpace'[c].pid = p /\ swapSpace'[c].page = g
    BY <1>b, <2>1, <2>2
  <2> QED BY <1>b, <2>2 DEF Contents, Own, Serving
<1>4. Isolation'
  BY DEF Isolation, Mapped
<1> QED BY <1>1, <1>2, <1>3, <1>4

(* The page holds zeros.                                                   *)
LEMMA ZeroFillData ==
  ASSUME IndInv, SlotInv, TableInv, DataInv, ~QuitPreempts, NEW i \in Pagers,
         Pagers = {i}, ZeroFill(i)
  PROVE  DataInv'
<1> USE DEF IndInv, SlotInv, TableInv, DataInv, TypeOK, ZeroFill, PagerRuns,
            Goto, procVars, pagerVars, frameVars, swapVars, hwVars, Last, Clear
<1>a. frame[i] \in Frame /\ Absent \notin Frame
  BY SizesAssumption DEF Places, Frame, Absent
<1>b. pc'[i] = "map"
  BY DEF PagerType
<1>m. mem'[frame[i]] = Zero /\ \A q \in Procs : pageTable'[q] = pageTable[q]
  BY <1>a, NamesAssumption DEF DataType, FrameType
<1>1. Turns' /\ Saving' /\ OnlyTableCrash'
  BY DEF Turns, Saving, OnlyTableCrash
<1>2. DirtyKept'
  BY NamesAssumption DEF DirtyKept, PagerType, Unmapped
<1>3. Contents'
  <2>1. mem'[frame[i]] \in Own(cur[i], fault[cur[i]].page)'
    BY <1>m DEF Own
  <2>2. ASSUME NEW b \in Block, swapSpace[b].room = 1
        PROVE  \/ disk[b] \in Own(swapSpace[b].pid, swapSpace[b].page)
               \/ pageTable'[swapSpace[b].pid][swapSpace[b].page] \in dirty'
               \/ Serving(i, swapSpace[b].pid, swapSpace[b].page)'
    <3>1. swapSpace[b].pid \in Procs
      BY <2>2 DEF Owned
    <3>2. \/ disk[b] \in Own(swapSpace[b].pid, swapSpace[b].page)
          \/ pageTable[swapSpace[b].pid][swapSpace[b].page] \in dirty
          \/ Serving(i, swapSpace[b].pid, swapSpace[b].page)
      BY <2>2 DEF Contents
    <3> QED BY <3>1, <3>2, <1>b, <1>m DEF Serving
  <2>3. swapSpace' = swapSpace /\ disk' = disk
    OBVIOUS
  <2>4. (\A b \in Block : swapSpace[b].room = 1 =>
           \/ disk[b] \in Own(swapSpace[b].pid, swapSpace[b].page)
           \/ pageTable[swapSpace[b].pid][swapSpace[b].page] \in dirty
           \/ \E j \in Pagers : /\ pc[j] \in {"zero", "map"}
                                /\ Serving(j, swapSpace[b].pid, swapSpace[b].page))'
    BY <2>2, <2>3, <1>b DEF Own, Serving
  <2> QED BY <1>b, <2>1, <2>4 DEF Contents
<1>4. Isolation'
  BY NamesAssumption DEF Isolation, Mapped
<1> QED BY <1>1, <1>2, <1>3, <1>4

(* The fault is answered; the frame stays as it is.                        *)
LEMMA KillData ==
  ASSUME IndInv, SlotInv, TableInv, DataInv, ~QuitPreempts, NEW i \in Pagers,
         Pagers = {i}, Kill(i)
  PROVE  DataInv'
<1> USE DEF IndInv, SlotInv, TableInv, DataInv, TypeOK, Kill, PagerRuns, Goto,
            procVars, pagerVars, frameVars, swapVars, hwVars, Answer
<1>1. Turns' /\ Saving' /\ Contents' /\ OnlyTableCrash'
  BY DEF Turns, Saving, Contents, OnlyTableCrash
<1>2. DirtyKept'
  BY DEF DirtyKept, Unmapped
<1>3. Isolation'
  BY DEF Isolation, Mapped
<1> QED BY <1>1, <1>2, <1>3

(* The page was absent and the frame in no table, so the frame has one     *)
(* owner.                                                                  *)
LEMMA MapData ==
  ASSUME IndInv, SlotInv, TableInv, DataInv, ~QuitPreempts, NEW i \in Pagers,
         Pagers = {i}, Map(i)
  PROVE  DataInv'
<1> USE DEF IndInv, SlotInv, TableInv, DataInv, TypeOK, Map, PagerRuns, Goto,
            procVars, pagerVars, frameVars, swapVars, hwVars, Answer, InUse
<1>a. frame[i] \in Frame /\ Absent \notin Frame
  BY SizesAssumption DEF Places, Frame, Absent
<1> DEFINE p == cur[i]  g == fault[p].page
<1>c. p \in Procs /\ g \in Page /\ Owed(p)
  BY DEF Hands, ProcType
<1>t. /\ pageTable'[p][g] = frame[i] /\ pageTable[p][g] = Absent
      /\ \A q \in Procs, h \in Page : q # p \/ h # g => pageTable'[q][h] = pageTable[q][h]
  BY <1>c DEF FaultAbsent, FrameType
<1>w. /\ p \in Procs /\ Owed(p)
      /\ fault' \in [Procs -> [page : Page, kill : BOOLEAN, wait : 0 .. 1]]
      /\ fault'[p].wait = 1
      /\ \A q \in Procs : /\ fault'[q].page = fault[q].page
                          /\ q # p => fault'[q] = fault[q]
      /\ pc' = [pc EXCEPT ![i] = "idle"] /\ cur' = [cur EXCEPT ![i] = None]
  BY AnswerLemma
<1>b. pc'[i] = "idle"
  BY <1>w DEF PagerType
<1>1. Turns' /\ OnlyTableCrash'
  BY DEF Turns, OnlyTableCrash
<1>2. Saving'
  BY DEF Saving, PagerType
<1>3. DirtyKept'
  <2> SUFFICES ASSUME NEW f \in dirty
               PROVE  f \in freeFrames' \/ ~Unmapped(f)'
    BY DEF DirtyKept
  <2>1. CASE f = frame[i]
    BY <2>1, <1>c, <1>t DEF Unmapped
  <2>2. CASE f # frame[i]
    <3>1. f \in freeFrames \/ ~Unmapped(f)
      BY <2>2 DEF DirtyKept
    <3>2. f # Absent
      BY <1>a DEF FrameType
    <3> QED BY <2>2, <3>1, <3>2, <1>t DEF Unmapped
  <2> QED BY <2>1, <2>2
<1>4. Contents'
  <2>1. ASSUME NEW b \in Block, swapSpace[b].room = 1
        PROVE  \/ disk[b] \in Own(swapSpace[b].pid, swapSpace[b].page)
               \/ pageTable'[swapSpace[b].pid][swapSpace[b].page] \in dirty
    <3> DEFINE q == swapSpace[b].pid  h == swapSpace[b].page
    <3>1. q \in Procs /\ h \in Page
      BY <2>1 DEF Owned
    <3>2. \/ disk[b] \in Own(q, h)
          \/ pageTable[q][h] \in dirty
          \/ q = p /\ h = g
      BY <2>1 DEF Contents, Serving
    <3>3. Absent \notin dirty /\ frame[i] \in dirty
      BY <1>a DEF FrameType, Saving
    <3>4. pageTable[q][h] \in dirty => pageTable'[q][h] = pageTable[q][h]
      BY <3>1, <3>3, <1>t
    <3>5. q = p /\ h = g => pageTable'[q][h] \in dirty
      BY <3>3, <1>t
    <3> QED BY <3>2, <3>4, <3>5
  <2>2. swapSpace' = swapSpace /\ disk' = disk /\ dirty' = dirty
    OBVIOUS
  <2>3. (\A b \in Block : swapSpace[b].room = 1 =>
           \/ disk[b] \in Own(swapSpace[b].pid, swapSpace[b].page)
           \/ pageTable[swapSpace[b].pid][swapSpace[b].page] \in dirty)'
    BY <2>1, <2>2 DEF Own
  <2> QED BY <1>b, <2>3 DEF Contents
<1>5. Isolation'
  BY DEF Isolation, Contents, Own, Mapped
<1> QED BY <1>1, <1>2, <1>3, <1>4, <1>5

(* A crash over a page table that was never assigned changes nothing else. *)
LEMMA CrashesData ==
  ASSUME DataInv, Crash("garbage table")
  PROVE  DataInv'
<1> USE DEF DataInv
<1>u. UNCHANGED <<proc, fault, pc, cur, frame, block, buf, pageTable, freeFrames, swapSpace,
                  dirty, mem, disk>>
  BY DEF Crash, procVars, pagerVars, frameVars, swapVars, hwVars
<1>1. Turns'
  BY <1>u DEF Turns
<1>2. Saving'
  <2>1. \A q \in Procs, h \in Page : Live(q)' = Live(q) /\ Slots(q, h)' = Slots(q, h)
    BY <1>u, SlotsStay DEF Live
  <2> QED BY <1>u, <2>1 DEF Saving
<1>3. DirtyKept'
  BY <1>u DEF DirtyKept, Unmapped
<1>4. Contents'
  BY <1>u DEF Contents, Own, Serving
<1>5. Isolation'
  BY <1>u DEF Isolation, Mapped
<1>6. OnlyTableCrash'
  BY DEF Crash, OnlyTableCrash
<1> QED BY <1>1, <1>2, <1>3, <1>4, <1>5, <1>6

(* A load sets the reference bit.                                          *)
LEMMA LoadData ==
  ASSUME IndInv, SlotInv, TableInv, DataInv, ~QuitPreempts, NEW i \in Pagers,
         Pagers = {i}, pc[i] \in Blocked, NEW p \in Procs, NEW g \in Page,
         Load(p,g)
  PROVE  DataInv'
<1> USE DEF IndInv, SlotInv, TableInv, DataInv, TypeOK, Load, procVars,
            pagerVars, frameVars, swapVars, hwVars
<1>1. Turns' /\ OnlyTableCrash'
  BY DEF Turns, OnlyTableCrash
<1>2. Saving'
  BY DEF Saving, Live, Slots, Occupied
<1>3. DirtyKept'
  BY DEF DirtyKept, Unmapped
<1>4. Contents'
  BY DEF Contents, Serving
<1>5. Isolation'
  BY DEF Isolation, Mapped
<1> QED BY <1>1, <1>2, <1>3, <1>4, <1>5

(* A store changes the one page that the frame holds.                      *)
LEMMA StoreData ==
  ASSUME IndInv, SlotInv, TableInv, DataInv, ~QuitPreempts, NEW i \in Pagers,
         Pagers = {i}, pc[i] \in Blocked, NEW p \in Procs, NEW g \in Page,
         NEW v \in Stamps(p, g), Store(p,g,v)
  PROVE  DataInv'
<1> USE DEF IndInv, SlotInv, TableInv, DataInv, TypeOK, Store, procVars,
            pagerVars, frameVars, swapVars, hwVars
<1>f. pageTable[p][g] \in Frame /\ Mapped(p, g)
  BY DEF FrameType, Mapped
<1>1. Turns' /\ OnlyTableCrash'
  BY DEF Turns, OnlyTableCrash
<1>2. Saving'
  BY DEF Saving, Blocked, Live, Slots, Occupied
<1>3. DirtyKept'
  BY DEF DirtyKept, Unmapped
<1>4. Contents'
  BY DEF Contents, Blocked, Serving, Own
<1>5. Isolation'
  <2>1. \A q \in Procs, h \in Page : /\ Mapped(q, h) /\ pageTable[q][h] = pageTable[p][g]
                                       => q = p /\ h = g
    BY <1>f DEF FrameExclusive
  <2>2. \A f \in Frame : mem'[f] = IF f = pageTable[p][g] THEN v ELSE mem[f]
    BY <1>f DEF DataType
  <2>3. \A q \in Procs, h \in Page : Mapped(q, h) => pageTable[q][h] \in Frame
    BY DEF FrameType, Mapped
  <2> QED BY <2>1, <2>2, <2>3 DEF Isolation, Mapped
<1> QED BY <1>1, <1>2, <1>3, <1>4, <1>5

(* A fault is about a page that is absent.                                 *)
LEMMA FaultData ==
  ASSUME IndInv, SlotInv, TableInv, DataInv, ~QuitPreempts, NEW i \in Pagers,
         Pagers = {i}, pc[i] \in Blocked, NEW p \in Procs, NEW g \in Page,
         Fault(p,g)
  PROVE  DataInv'
<1> USE DEF IndInv, SlotInv, TableInv, DataInv, TypeOK, Fault, Enqueue,
            procVars, pagerVars, frameVars, swapVars, hwVars
<1>1. OnlyTableCrash'
  BY DEF OnlyTableCrash
<1>2. Turns'
  BY DEF Turns
<1>3. Saving'
  BY DEF Saving, Live, Slots, Occupied
<1>4. DirtyKept'
  BY DEF DirtyKept, Unmapped
<1>5. Contents'
  BY DEF Contents, Blocked, Serving, Own
<1>6. Isolation'
  BY DEF Isolation, Mapped
<1> QED BY <1>1, <1>2, <1>3, <1>4, <1>5, <1>6

(* A process goes on.                                                      *)
LEMMA ResumeData ==
  ASSUME IndInv, SlotInv, TableInv, DataInv, ~QuitPreempts, NEW i \in Pagers,
         Pagers = {i}, pc[i] \in Blocked, NEW p \in Procs, Resume(p)
  PROVE  DataInv'
<1> USE DEF IndInv, SlotInv, TableInv, DataInv, TypeOK, Resume, procVars,
            pagerVars, frameVars, swapVars, hwVars
<1>1. OnlyTableCrash'
  BY DEF OnlyTableCrash
<1>2. Turns'
  BY DEF Turns
<1>3. Saving'
  BY DEF Saving, Live, Slots, Occupied
<1>4. DirtyKept'
  BY DEF DirtyKept, Unmapped
<1>5. Contents'
  BY DEF Contents, Blocked, Serving, Own
<1>6. Isolation'
  BY DEF Isolation, Mapped
<1> QED BY <1>1, <1>2, <1>3, <1>4, <1>5, <1>6

(* A process quits by itself.                                              *)
LEMMA QuitData ==
  ASSUME IndInv, SlotInv, TableInv, DataInv, ~QuitPreempts, NEW i \in Pagers,
         Pagers = {i}, pc[i] \in Blocked, NEW p \in Procs, Quit(p)
  PROVE  DataInv'
<1> USE DEF IndInv, SlotInv, TableInv, DataInv, TypeOK, Quit, procVars,
            pagerVars, frameVars, swapVars, hwVars
<1>1. OnlyTableCrash'
  BY DEF OnlyTableCrash
<1>2. Turns'
  BY DEF Turns
<1>3. Saving'
  BY DEF Saving, Live, Slots, Occupied
<1>4. DirtyKept'
  BY DEF DirtyKept, Unmapped
<1>5. Contents'
  BY DEF Contents, Serving
<1>6. Isolation'
  BY DEF Isolation, Mapped
<1> QED BY <1>1, <1>2, <1>3, <1>4, <1>5, <1>6

(* P3SwapFreeAll: no slot of another process changes.                      *)
LEMMA SwapFreeAllData ==
  ASSUME IndInv, SlotInv, TableInv, DataInv, ~QuitPreempts, NEW i \in Pagers,
         Pagers = {i}, pc[i] \in Blocked, NEW p \in Procs, SwapFreeAll(p)
  PROVE  DataInv'
<1> USE DEF IndInv, SlotInv, TableInv, DataInv, TypeOK, SwapFreeAll, procVars,
            pagerVars, frameVars, swapVars, hwVars
<1>s. \A b \in Block : swapSpace'[b] = IF swapSpace[b].pid = p THEN FreeSlot ELSE swapSpace[b]
  OBVIOUS
<1>n. FreeSlot.pid = None /\ FreeSlot.room = 0
  BY DEF FreeSlot
<1>o. \A q \in Procs, g \in Page : q # p => /\ Slots(q, g)' = Slots(q, g)
                                         /\ \A b \in Slots(q, g) : swapSpace'[b] = swapSpace[b]
  BY <1>s, <1>n, NamesAssumption DEF Slots, Occupied
<1>r. proc'[p] = "free" /\ \A q \in Procs : q # p => proc'[q] = proc[q]
  BY DEF ProcType
<1>l. \A q \in Procs : Live(q)' => q # p /\ Live(q)
  BY <1>r DEF Live
<1>1. OnlyTableCrash'
  BY DEF OnlyTableCrash
<1>2. Turns'
  BY DEF Turns, Blocked
<1>3. Saving'
  BY <1>o, <1>l DEF Saving, Blocked
<1>4. DirtyKept'
  BY DEF DirtyKept, Unmapped
<1>5. Contents'
  <2>1. \A b \in Block : swapSpace'[b].room = 1 => swapSpace'[b] = swapSpace[b]
    BY <1>s, <1>n
  <2>2. pc[i] = "writing" => block[i] \in Block
    BY DEF Places
  <2> QED BY <2>1, <2>2 DEF Contents, Blocked, Serving, Own
<1>6. Isolation'
  BY DEF Isolation, Mapped
<1> QED BY <1>1, <1>2, <1>3, <1>4, <1>5, <1>6

(* P3FrameFreeAll: no other process maps the frames that become free.      *)
LEMMA FrameFreeAllData ==
  ASSUME IndInv, SlotInv, TableInv, DataInv, ~QuitPreempts, NEW i \in Pagers,
         Pagers = {i}, pc[i] \in Blocked, NEW p \in Procs, FrameFreeAll(p)
  PROVE  DataInv'
<1> USE DEF IndInv, SlotInv, TableInv, DataInv, TypeOK, FrameFreeAll, procVars,
            pagerVars, frameVars, swapVars, hwVars
<1>a. Absent \notin Frame
  BY SizesAssumption DEF Frame, Absent
<1>t. /\ pageTable'[p] = EmptyTable
      /\ \A q \in Procs \cup Pagers : q # p => pageTable'[q] = pageTable[q]
  BY DEF FrameType, EmptyTable
<1>m. \A q \in Procs, h \in Page : Mapped(q, h)' => q # p /\ Mapped(q, h)
  BY <1>t DEF Mapped, EmptyTable
<1>1. OnlyTableCrash'
  BY DEF OnlyTableCrash
<1>2. Turns'
  BY DEF Turns, Blocked
<1>3. Saving'
  BY DEF Saving, Live, Slots, Occupied
<1>4. DirtyKept'
  <2>1. \A f \in Frame : ~Unmapped(f) => f \in freeFrames' \/ ~Unmapped(f)'
    BY <1>a, <1>t DEF Unmapped
  <2>2. pc[i] # "map" /\ dirty \subseteq Frame /\ freeFrames \subseteq freeFrames'
    BY DEF Blocked, FrameType
  <2> QED BY <2>1, <2>2 DEF DirtyKept
<1>5. Contents'
  <2>1. \A b \in Block : swapSpace[b].room = 1 =>
          swapSpace[b].pid # p /\ swapSpace[b].pid \in Procs
    BY DEF SlotExclusive, Live, Owned
  <2>2. \A b \in Block : swapSpace[b].room = 1 =>
          pageTable'[swapSpace[b].pid] = pageTable[swapSpace[b].pid]
    BY <1>t, <2>1
  <2> QED BY <2>2 DEF Contents, Blocked, Serving, Own
<1>6. Isolation'
  <2>1. mem' = mem
    OBVIOUS
  <2> QED BY <1>m, <1>t, <2>1 DEF Isolation
<1> QED BY <1>1, <1>2, <1>3, <1>4, <1>5, <1>6

(* The new process maps nothing yet.                                       *)
LEMMA SpawnData ==
  ASSUME IndInv, SlotInv, TableInv, DataInv, ~QuitPreempts, NEW i \in Pagers,
         Pagers = {i}, pc[i] \in Blocked, NEW p \in Procs, Spawn(p)
  PROVE  DataInv'
<1> USE DEF IndInv, SlotInv, TableInv, DataInv, TypeOK, Spawn, procVars,
            pagerVars, frameVars, swapVars, hwVars
<1>a. Absent \notin Frame
  BY SizesAssumption DEF Frame, Absent
<1>t. \A h \in Page : pageTable[p][h] = Absent
  BY DEF DeadEmpty, EmptyTable
<1>l. \A q \in Procs : Live(q)' => q = p \/ Live(q)
  BY DEF Live, ProcType
<1>1. OnlyTableCrash'
  BY DEF OnlyTableCrash
<1>2. Turns'
  BY DEF Turns
<1>3. Saving'
  <2>1. ASSUME pc[i] = "writing" PROVE frame[i] # Absent
    BY <1>a, <2>1 DEF Places
  <2> QED BY <1>t, <1>l, <2>1 DEF Saving, Blocked, Slots, Occupied
<1>4. DirtyKept'
  BY DEF DirtyKept, Unmapped
<1>5. Contents'
  BY DEF Contents, Serving
<1>6. Isolation'
  BY DEF Isolation, Mapped
<1> QED BY <1>1, <1>2, <1>3, <1>4, <1>5, <1>6

(* A stuttering step.                                                      *)
LEMMA SameData ==
  ASSUME IndInv, SlotInv, TableInv, DataInv, ~QuitPreempts, NEW i \in Pagers,
         Pagers = {i}, UNCHANGED vars
  PROVE  DataInv'
<1> USE DEF IndInv, SlotInv, TableInv, DataInv, TypeOK, vars, procVars,
            pagerVars, frameVars, swapVars, hwVars
<1>1. Turns' /\ OnlyTableCrash'
  BY DEF Turns, OnlyTableCrash
<1>2. Saving'
  BY DEF Saving, Live, Slots, Occupied
<1>3. DirtyKept'
  BY DEF DirtyKept, Unmapped
<1>4. Contents'
  BY DEF Contents, Serving
<1>5. Isolation'
  BY DEF Isolation, Mapped
<1> QED BY <1>1, <1>2, <1>3, <1>4, <1>5

(* Nothing is mapped and no pager works.                                   *)
LEMMA InitData == Init => DataInv
<1> SUFFICES ASSUME Init PROVE DataInv
  OBVIOUS
<1> USE DEF Init
<1>1. Turns /\ Saving /\ DirtyKept
  BY DEF Turns, Blocked, Saving, DirtyKept
<1>2. Contents /\ Isolation /\ OnlyTableCrash
  BY DEF Contents, FreeSlot, Isolation, OnlyTableCrash, Mapped, EmptyTable
<1> QED BY <1>1, <1>2 DEF DataInv

(* P3SwapOut finds the slot of the frame it saves: the frame is dirty, and *)
(* not free, so a live process still maps it.                              *)
LEMMA SlotOfSaved ==
  ASSUME IndInv, SlotInv, TableInv, DataInv, NEW i \in Pagers, Pagers = {i}, pc[i] = "save"
  PROVE  SlotsFor(frame[i]) # {}
<1> USE DEF IndInv, DataInv, TypeOK
<1>1. frame[i] \in Frame /\ Absent \notin Frame
  BY SizesAssumption DEF Places, Frame, Absent
<1>2. \E q \in Procs, h \in Page : Live(q) /\ pageTable[q][h] = frame[i]
  BY <1>1 DEF Saving, Turns, DirtyKept, Unmapped, Live, DeadEmpty, EmptyTable, Blocked
<1> QED BY <1>2, SlotOfFrame

(* A process moves only while the pager is blocked: the pager runs before  *)
(* it, or is idle because its only client does not wait.                   *)
LEMMA PagerBlocked ==
  ASSUME Undisturbed, IndInv, NEW i \in Pagers, NEW p \in Procs, ProcRuns(p), ~Owed(p)
  PROVE  pc[i] \in Blocked
<1>1. CASE Above = {}
  BY <1>1 DEF ProcRuns
<1>2. CASE \E q : Procs = {q}
  BY <1>2 DEF IndInv, Hands, Blocked
<1> QED BY <1>1, <1>2 DEF Undisturbed

(* The actions together.                                                   *)
LEMMA StepData ==
  ASSUME OnePager, ~QuitPreempts, Undisturbed
  PROVE  IndInv /\ SlotInv /\ TableInv /\ DataInv /\ [Next]_vars => DataInv'
<1> SUFFICES ASSUME IndInv, SlotInv, TableInv, DataInv, [Next]_vars PROVE DataInv'
  OBVIOUS
<1>i. PICK i : Pagers = {i}
  BY DEF OnePager
<1>j. i \in Pagers
  BY <1>i
<1>1. CASE UNCHANGED vars
  BY <1>i, <1>j, <1>1, SameData
<1>2. CASE PagerNext(i)
  <2>1. CASE Take(i) \/ FreeFrame(i) \/ Kill(i) \/ Map(i)
    BY <1>i, <1>j, <2>1, TakeData, FreeFrameData, KillData, MapData
  <2>2. CASE SwapOutNext(i)
    <3>1. ~SaveNothing(i)
      BY <1>i, <1>j, SlotOfSaved DEF SaveNothing
    <3>2. CASE UnmapGarbage(i)
      BY <3>2, CrashesData DEF UnmapGarbage
    <3> QED BY <1>i, <1>j, <2>2, <3>1, <3>2, SwapOutData, ClockData, SaveData, WrittenData,
               UnmapData
            DEF SwapOutNext
  <2>3. CASE SwapInNext(i)
    <3>1. ~ReadDoneAssert(i) /\ ~MapFails(i)
      BY <1>j, OwnTableServes DEF ReadDoneAssert, MapFails
    <3> QED BY <1>i, <1>j, <2>3, <3>1, SwapInReadData, ReadDoneData, FindRoomData, ClaimData,
               ZeroFillData
            DEF SwapInNext
  <2> QED BY <1>2, <2>1, <2>2, <2>3 DEF PagerNext
<1>3. ASSUME NEW p \in Procs, ProcNext(p) PROVE DataInv'
  <2>b. pc[i] \in Blocked
    <3>1. ProcRuns(p) /\ ~Owed(p)
      BY <1>3 DEF ProcNext, Access, Leave, Load, Store, Fault, Resume, SwapFreeAll,
                  FrameFreeAll, Quit, Spawn, Owed
    <3> QED BY <1>j, <3>1, PagerBlocked
  <2>1. CASE Access(p)
    BY <1>i, <1>j, <2>b, <2>1, LoadData, StoreData, FaultData DEF Access
  <2>2. CASE Leave(p)
    BY <1>i, <1>j, <2>b, <2>2, ResumeData, SwapFreeAllData, FrameFreeAllData DEF Leave
  <2> QED BY <1>i, <1>j, <1>3, <2>b, <2>1, <2>2, QuitData, SpawnData DEF ProcNext
<1> QED BY <1>i, <1>1, <1>2, <1>3 DEF Next
-----------------------------------------------------------------------------
(* All invariants of one pager.                                            *)
OneInv == SlotInv /\ TableInv /\ DataInv

(* They hold in every reachable state.                                     *)
THEOREM OneInductive ==
  ASSUME OnePager, ~QuitPreempts, Undisturbed
  PROVE  Spec => [](IndInv /\ OneInv)
<1>1. Init => DataInv
  BY InitData
<1>2. IndInv /\ SlotInv /\ TableInv /\ DataInv /\ [Next]_vars => DataInv'
  BY StepData
<1>3. IndInv /\ SlotInv /\ TableInv /\ DataInv => IndInv /\ OneInv
  BY DEF OneInv
<1> QED BY <1>1, <1>2, <1>3, TablesInductive, PTL DEF Spec

(* A process never finds another's data in its pages, whatever was evicted *)
(* and read back in between, nor what was there before it.                 *)
THEOREM PagesAreIsolated ==
  ASSUME OnePager, ~QuitPreempts, Undisturbed
  PROVE  Spec => []Isolation
<1>1. OneInv => Isolation
  BY DEF OneInv, DataInv
<1> QED BY <1>1, OneInductive, PTL

(* Undisturbed, the pager finds the slot of every frame that it saves:     *)
(* only the page table that P3SwapOut never assigned can end the machine   *)
(* (phase3d.c:459).                                                        *)
THEOREM OnlyTheTable ==
  ASSUME OnePager, ~QuitPreempts, Undisturbed
  PROVE  Spec => []OnlyTableCrash
<1>1. OneInv => OnlyTableCrash
  BY DEF OneInv, DataInv
<1> QED BY <1>1, OneInductive, PTL
=============================================================================
