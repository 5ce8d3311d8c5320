--------------------------- MODULE OnePagerProofs ----------------------------
(***************************************************************************)
(* Proofs about Paging with one pager that never runs between the halves   *)
(* of P3_FreePageTable, for processes of any priority and any sizes.       *)
(* More pagers may take the same frame, and a pager between the halves may *)
(* evict a page whose slot is gone: without these hypotheses the results   *)
(* are false.                                                              *)
(*                                                                         *)
(* TableInv follows the frame through the pager's hands: what the tables,  *)
(* the list by frame and the slots say of it at each step.                 *)
(***************************************************************************)
EXTENDS PagingProofs

OnePager == \E i : Pagers = {i}

Fills == {"claim", "reading", "zero", "map"}
Unmapped(f) == \A q \in Procs, h \in Page : pageTable[q][h] # f

(* The pager's own table is empty except during a transfer.                *)
OwnTable == \A i \in Pagers :
  IF pc[i] \in {"writing", "reading"}
  THEN /\ frame[i] \in usedMap
       /\ \E x \in Page : pageTable[i] = [EmptyTable EXCEPT ![x] = frame[i]]
  ELSE pageTable[i] = EmptyTable

(* The frame that is being filled.                                         *)
Filling == \A i \in Pagers :
  /\ pc[i] \in Fills \cup {"in", "kill"} => Unmapped(frame[i])
  /\ pc[i] \in Fills =>
       /\ inFrame[frame[i]] = [pid |-> cur[i], page |-> fault[cur[i]].page]
       /\ \A b \in Slots(cur[i], fault[cur[i]].page) : swapSpace[b].frame = frame[i]
  /\ pc[i] = "reading" => block[i] \in Slots(cur[i], fault[cur[i]].page)
FaultAbsent == \A p \in Procs : Owed(p) => pageTable[p][fault[p].page] = Absent

TableInv == /\ OwnTable /\ Filling /\ FaultAbsent /\ FrameExclusive
            /\ FreeFramesUnmapped /\ RecordsAgree /\ CrashOverOrphan
-----------------------------------------------------------------------------
(* Lemmas about what a step leaves alone.                                  *)

(* The records of frames and slots are not touched.                        *)
LEMMA RecordsStay ==
  ASSUME UNCHANGED <<proc, fault, pc, cur, frame, block, pageTable, inFrame, swapSpace>>
  PROVE  /\ Filling => Filling'
         /\ FrameExclusive => FrameExclusive'
         /\ RecordsAgree => RecordsAgree'
<1>1. Filling => Filling'
  BY DEF Filling, Slots, Occupied, Unmapped
<1>2. FrameExclusive => FrameExclusive'
  BY DEF FrameExclusive, Mapped
<1>3. RecordsAgree => RecordsAgree'
  BY DEF RecordsAgree, Live, Mapped, Slots, Occupied
<1> QED BY <1>1, <1>2, <1>3
-----------------------------------------------------------------------------
(* Every step preserves TableInv.                                          *)

(* P1_P(pagerSem) and dequeue.                                             *)
LEMMA TakeTables ==
  ASSUME IndInv, SlotInv, TableInv, ~QuitPreempts, NEW i \in Pagers,
         Pagers = {i}, Take(i)
  PROVE  TableInv'
<1> USE DEF IndInv, SlotInv, TableInv, TypeOK, Take, PagerRuns, Goto, procVars,
            pagerVars, frameVars, swapVars, hwVars, Dequeue
<1>1. OwnTable'
  BY DEF OwnTable
<1>2. Filling'
  BY DEF Filling, Fills
<1>3. FaultAbsent'
  BY DEF FaultAbsent, Owed
<1>4. FrameExclusive'
  BY DEF FrameExclusive, Mapped
<1>5. FreeFramesUnmapped'
  BY DEF FreeFramesUnmapped, Mapped
<1>6. RecordsAgree'
  BY DEF RecordsAgree, Live, Mapped, Slots, Occupied
<1>7. CrashOverOrphan'
  BY DEF CrashOverOrphan
<1> QED BY <1>1, <1>2, <1>3, <1>4, <1>5, <1>6, <1>7

(* The frame found free is in no table.                                    *)
LEMMA FreeFrameTables ==
  ASSUME IndInv, SlotInv, TableInv, ~QuitPreempts, NEW i \in Pagers,
         Pagers = {i}, FreeFrame(i)
  PROVE  TableInv'
<1> USE DEF IndInv, SlotInv, TableInv, TypeOK, FreeFrame, PagerRuns, Goto,
            procVars, pagerVars, frameVars, swapVars, hwVars, First
<1>a. Absent \notin Frame
  BY SizesAssumption DEF Frame, Absent
<1>1. OwnTable'
  BY DEF OwnTable
<1>2. Filling'
  <2>1. \A f \in freeFrames : Unmapped(f)
    BY <1>a DEF FreeFramesUnmapped, Mapped, Unmapped, FrameType
  <2> QED BY <2>1 DEF Filling, Fills, Unmapped, PagerType
<1>3. FaultAbsent'
  BY DEF FaultAbsent, Owed
<1>4. FrameExclusive'
  BY DEF FrameExclusive, Mapped
<1>5. FreeFramesUnmapped'
  BY DEF FreeFramesUnmapped, Mapped
<1>6. RecordsAgree'
  BY DEF RecordsAgree, Live, Mapped, Slots, Occupied
<1>7. CrashOverOrphan'
  BY DEF CrashOverOrphan
<1> QED BY <1>1, <1>2, <1>3, <1>4, <1>5, <1>6, <1>7

(* The clock runs only when no frame is free.                              *)
LEMMA SwapOutTables ==
  ASSUME IndInv, SlotInv, TableInv, ~QuitPreempts, NEW i \in Pagers,
         Pagers = {i}, SwapOut(i)
  PROVE  TableInv'
<1> USE DEF IndInv, SlotInv, TableInv, TypeOK, SwapOut, PagerRuns, Goto,
            procVars, pagerVars, frameVars, swapVars, hwVars
<1>1. OwnTable' /\ FreeFramesUnmapped'
  BY DEF OwnTable, FreeFramesUnmapped
<1>2. Filling'
  BY DEF Filling, Fills
<1>3. FaultAbsent'
  BY DEF FaultAbsent, Owed
<1>4. FrameExclusive'
  BY DEF FrameExclusive, Mapped
<1>5. RecordsAgree'
  BY DEF RecordsAgree, Live, Mapped, Slots, Occupied
<1>6. CrashOverOrphan'
  BY DEF CrashOverOrphan
<1> QED BY <1>1, <1>2, <1>3, <1>4, <1>5, <1>6

(* One turn of the clock's loop.                                           *)
LEMMA ClockTables ==
  ASSUME IndInv, SlotInv, TableInv, ~QuitPreempts, NEW i \in Pagers,
         Pagers = {i}, Clock(i)
  PROVE  TableInv'
<1> USE DEF IndInv, SlotInv, TableInv, TypeOK, Clock, PagerRuns, Goto, procVars,
            pagerVars, frameVars, swapVars, hwVars, Chosen
<1>1. OwnTable'
  BY DEF OwnTable, PagerType
<1>2. Filling'
  BY DEF Filling, PagerType, Fills
<1>3. FaultAbsent'
  BY DEF FaultAbsent, Owed
<1>4. FrameExclusive'
  BY DEF FrameExclusive, Mapped
<1>5. FreeFramesUnmapped'
  BY DEF FreeFramesUnmapped, Mapped
<1>6. RecordsAgree'
  BY DEF RecordsAgree, Live, Mapped, Slots, Occupied
<1>7. CrashOverOrphan'
  BY DEF CrashOverOrphan
<1> QED BY <1>1, <1>2, <1>3, <1>4, <1>5, <1>6, <1>7

(* The write begins: the pager maps the frame for itself.                  *)
LEMMA SaveTables ==
  ASSUME IndInv, SlotInv, TableInv, ~QuitPreempts, NEW i \in Pagers,
         Pagers = {i}, Save(i)
  PROVE  TableInv'
<1> USE DEF IndInv, SlotInv, TableInv, TypeOK, Save, PagerRuns, Goto, procVars,
            pagerVars, frameVars, swapVars, hwVars, First, FrameMap
<1>g. PICK g \in Page : pageTable' = [pageTable EXCEPT ![i][g] = frame[i]]
  BY DEF FrameMap
<1>t. /\ pageTable'[i] = [EmptyTable EXCEPT ![g] = frame[i]]
      /\ \A q \in Procs : pageTable'[q] = pageTable[q]
  BY <1>g, NamesAssumption DEF OwnTable, FrameType
<1>b. pc'[i] = "writing" /\ frame'[i] = frame[i] /\ frame[i] \in usedMap'
  BY DEF PagerType, FrameMap
<1>1. OwnTable'
  BY <1>t, <1>b DEF OwnTable
<1>2. Filling'
  BY DEF Filling, Fills
<1>3. FaultAbsent'
  BY NamesAssumption DEF FaultAbsent, Owed
<1>4. FrameExclusive'
  BY NamesAssumption DEF FrameExclusive, Mapped
<1>5. FreeFramesUnmapped'
  BY NamesAssumption DEF FreeFramesUnmapped, Mapped
<1>6. RecordsAgree'
  BY NamesAssumption DEF RecordsAgree, Live, Mapped, Slots, Occupied
<1>7. CrashOverOrphan'
  BY DEF CrashOverOrphan
<1> QED BY <1>1, <1>2, <1>3, <1>4, <1>5, <1>6, <1>7

(* The write ends: the pager's table is empty again.                       *)
LEMMA WrittenTables ==
  ASSUME IndInv, SlotInv, TableInv, ~QuitPreempts, NEW i \in Pagers,
         Pagers = {i}, Written(i)
  PROVE  TableInv'
<1> USE DEF IndInv, SlotInv, TableInv, TypeOK, Written, PagerRuns, Goto,
            procVars, pagerVars, frameVars, swapVars, hwVars, CanUnmap,
            FrameUnmap, Last
<1>a. frame[i] \in Frame /\ Absent \notin Frame
  BY SizesAssumption DEF Places, Frame, Absent
<1>x. PICK x \in Page : pageTable[i] = [EmptyTable EXCEPT ![x] = frame[i]]
  BY DEF OwnTable
<1>y. Entries(i, frame[i]) = {x}
  BY <1>a, <1>x DEF Entries, EmptyTable
<1>t. /\ pageTable'[i] = EmptyTable /\ \A q \in Procs : pageTable'[q] = pageTable[q]
  <2>1. FrameUnmap(i, frame[i])
    BY <1>y DEF OwnTable
  <2>2. pageTable' = [pageTable EXCEPT ![i][x] = Absent]
    BY <1>y, <2>1
  <2> QED BY <2>2, <1>x, NamesAssumption DEF FrameType, EmptyTable
<1>b. block[i] \in Block /\ pc'[i] = "unmap"
  BY DEF Places, PagerType
<1>1. OwnTable'
  BY <1>t, <1>b DEF OwnTable
<1>2. Filling'
  BY DEF Filling, Fills
<1>3. FaultAbsent'
  BY NamesAssumption DEF FaultAbsent, FrameType, Owed
<1>4. FrameExclusive'
  BY DEF FrameExclusive, FrameType, Mapped
<1>5. FreeFramesUnmapped'
  BY DEF FreeFramesUnmapped, FrameType, Mapped
<1>6. RecordsAgree'
  BY DEF RecordsAgree, FrameType, Live, Mapped, Slots, Occupied
<1>7. CrashOverOrphan'
  BY DEF CrashOverOrphan
<1> QED BY <1>1, <1>2, <1>3, <1>4, <1>5, <1>6, <1>7

(* The slots that name the frame lead to the one table that maps it.       *)
LEMMA UnmapTables ==
  ASSUME IndInv, SlotInv, TableInv, ~QuitPreempts, NEW i \in Pagers,
         Pagers = {i}, Unmap(i)
  PROVE  TableInv'
<1> USE DEF IndInv, SlotInv, TableInv, TypeOK, Unmap, PagerRuns, Goto, procVars,
            pagerVars, frameVars, swapVars, hwVars, Evict, Unlock, CountEvicted
<1>a. frame[i] \in Frame /\ Absent \notin Frame
  BY SizesAssumption DEF Places, Frame, Absent
<1>b. pc'[i] = "in"
  BY DEF PagerType
<1>t. \A q \in Procs, h \in Page :
        /\ pageTable'[q][h] \in {pageTable[q][h], Absent}
        /\ pageTable[q][h] # frame[i] => pageTable'[q][h] = pageTable[q][h]
  BY DEF FrameType
<1>1. OwnTable'
  BY DEF OwnTable, EmptyTable
<1>2. Filling'
  <2>1. ASSUME NEW q \in Procs, NEW h \in Page, pageTable[q][h] = frame[i]
        PROVE  pageTable'[q][h] = Absent
    <3>1. Live(q) /\ Mapped(q, h)
      BY <1>a, <2>1 DEF DeadEmpty, EmptyTable, Live, Mapped, ProcType
    <3>2. Slots(q, h) # {} /\ \A b \in Slots(q, h) : swapSpace[b].frame = frame[i]
      <4>1. Slots(q, h) # {}
        BY <3>1 DEF SlotExclusive
      <4> QED BY <4>1, <2>1, <3>1 DEF RecordsAgree
    <3>b. PICK b \in Slots(q, h) : swapSpace[b].frame = frame[i]
      BY <3>2
    <3>3. swapSpace[b].pid = q
      BY <3>b DEF Slots, Occupied
    <3> QED BY <2>1, <3>b, <3>3 DEF Slots
  <2>2. Unmapped(frame[i])'
    BY <1>a, <1>t, <2>1 DEF Unmapped
  <2> QED BY <1>b, <2>2 DEF Filling, Fills, Unmapped
<1>3. FaultAbsent'
  BY DEF FaultAbsent, ProcType, Owed
<1>4. FrameExclusive'
  BY DEF FrameExclusive, Mapped
<1>5. FreeFramesUnmapped'
  BY DEF FreeFramesUnmapped, Mapped
<1>6. RecordsAgree'
  BY DEF RecordsAgree, Live, Mapped, Slots, Occupied
<1>7. CrashOverOrphan'
  BY DEF CrashOverOrphan
<1> QED BY <1>1, <1>2, <1>3, <1>4, <1>5, <1>6, <1>7

(* The slot of the page and the list by frame are told the new frame.      *)
LEMMA SwapInReadTables ==
  ASSUME IndInv, SlotInv, TableInv, ~QuitPreempts, NEW i \in Pagers,
         Pagers = {i}, SwapInRead(i)
  PROVE  TableInv'
<1> USE DEF IndInv, SlotInv, TableInv, TypeOK, SwapInRead, PagerRuns, Goto,
            procVars, pagerVars, frameVars, swapVars, hwVars, Resident, First,
            FrameMap
<1>a. frame[i] \in Frame /\ Absent \notin Frame
  BY SizesAssumption DEF Places, Frame, Absent
<1> DEFINE p == cur[i]  g == fault[p].page
<1>g. PICK x \in Page : pageTable' = [pageTable EXCEPT ![i][x] = frame[i]]
  BY DEF FrameMap
<1>t. /\ pageTable'[i] = [EmptyTable EXCEPT ![x] = frame[i]]
      /\ \A q \in Procs : pageTable'[q] = pageTable[q]
  BY <1>g, NamesAssumption DEF OwnTable, FrameType
<1>b. PICK b \in Slots(p, g) : /\ swapSpace' = [swapSpace EXCEPT ![b].frame = frame[i]]
                              /\ block' = [block EXCEPT ![i] = b]
  BY DEF First
<1>l. /\ pc'[i] = "reading" /\ block'[i] = b
      /\ inFrame'[frame[i]] = [pid |-> p, page |-> g]
  BY <1>a, <1>b DEF PagerType, SwapType
<1>s. \A c \in Block : /\ swapSpace'[c].pid = swapSpace[c].pid
                       /\ swapSpace'[c].page = swapSpace[c].page
                       /\ swapSpace'[c].room = swapSpace[c].room
  BY <1>b DEF Slots, SwapType
<1>f. swapSpace'[b].frame = frame[i]
  BY <1>b DEF Slots, SwapType
<1>1. OwnTable'
  BY <1>t, <1>l DEF OwnTable, FrameMap
<1>2. Filling'
  <2>1. Unmapped(frame[i])'
    BY <1>t DEF Filling, Unmapped
  <2>2. Slots(p, g)' = Slots(p, g)
    BY <1>s DEF Slots, Occupied
  <2>3. \A c \in Slots(p, g) : c = b
    BY <1>b DEF SlotExclusive, Slots, Occupied
  <2> QED BY <1>b, <1>l, <1>f, <2>1, <2>2, <2>3 DEF Filling, Unmapped
<1>3. FaultAbsent'
  BY NamesAssumption DEF FaultAbsent, Owed
<1>4. FrameExclusive'
  BY NamesAssumption DEF FrameExclusive, Mapped
<1>5. FreeFramesUnmapped'
  BY NamesAssumption DEF FreeFramesUnmapped, Mapped
<1>6. RecordsAgree'
  BY NamesAssumption DEF RecordsAgree, Hands, Filling, FaultAbsent, Unmapped,
    Live, Mapped, Slots, Occupied
<1>7. CrashOverOrphan'
  BY DEF CrashOverOrphan
<1> QED BY <1>1, <1>2, <1>3, <1>4, <1>5, <1>6, <1>7

(* The read ends: the frame is in no table yet.                            *)
LEMMA ReadDoneTables ==
  ASSUME IndInv, SlotInv, TableInv, ~QuitPreempts, NEW i \in Pagers,
         Pagers = {i}, ReadDone(i)
  PROVE  TableInv'
<1> USE DEF IndInv, SlotInv, TableInv, TypeOK, ReadDone, PagerRuns, Goto,
            procVars, pagerVars, frameVars, swapVars, hwVars, CanUnmap,
            FrameUnmap, Last, NotBusy, Unlock
<1>a. frame[i] \in Frame /\ Absent \notin Frame
  BY SizesAssumption DEF Places, Frame, Absent
<1>x. PICK x \in Page : pageTable[i] = [EmptyTable EXCEPT ![x] = frame[i]]
  BY DEF OwnTable
<1>y. Entries(i, frame[i]) = {x}
  BY <1>a, <1>x DEF Entries, EmptyTable
<1>t. /\ pageTable'[i] = EmptyTable /\ \A q \in Procs : pageTable'[q] = pageTable[q]
  <2>1. pageTable' = [pageTable EXCEPT ![i][x] = Absent]
    BY <1>y
  <2> QED BY <2>1, <1>x, NamesAssumption DEF FrameType, EmptyTable
<1> DEFINE p == cur[i]  g == fault[p].page
<1>b. pc'[i] = "map" /\ block[i] \in Slots(p, g) /\ mem'[frame[i]] = disk[block[i]]
  BY <1>a DEF Filling, PagerType, DataType
<1>1. OwnTable'
  BY <1>t, <1>b DEF OwnTable
<1>2. Filling'
  BY NamesAssumption DEF Filling, PagerType, Unmapped, Fills, Slots, Occupied
<1>3. FaultAbsent'
  BY DEF FaultAbsent, Owed
<1>4. FrameExclusive'
  BY DEF FrameExclusive, Mapped
<1>5. FreeFramesUnmapped'
  BY DEF FreeFramesUnmapped, Mapped
<1>6. RecordsAgree'
  BY DEF RecordsAgree, Live, Mapped, Slots, Occupied
<1>7. CrashOverOrphan'
  BY DEF CrashOverOrphan
<1> QED BY <1>1, <1>2, <1>3, <1>4, <1>5, <1>6, <1>7

(* The list by frame is told the page; no living process maps the frame.   *)
LEMMA FindRoomTables ==
  ASSUME IndInv, SlotInv, TableInv, ~QuitPreempts, NEW i \in Pagers,
         Pagers = {i}, FindRoom(i)
  PROVE  TableInv'
<1> USE DEF IndInv, SlotInv, TableInv, TypeOK, FindRoom, PagerRuns, Goto,
            procVars, pagerVars, frameVars, swapVars, hwVars, Resident
<1>a. frame[i] \in Frame /\ Absent \notin Frame
  BY SizesAssumption DEF Places, Frame, Absent
<1>l. /\ pc'[i] = "claim" /\ frame'[i] = frame[i]
      /\ inFrame'[frame[i]] = [pid |-> cur[i], page |-> fault[cur[i]].page]
  BY <1>a DEF PagerType, SwapType
<1>1. OwnTable'
  BY <1>l DEF OwnTable
<1>2. Filling'
  <2>1. Unmapped(frame[i])'
    BY DEF Filling, Unmapped
  <2>2. Slots(cur[i], fault[cur[i]].page)' = {}
    BY DEF Slots, Occupied
  <2> QED BY <1>l, <2>1, <2>2 DEF Filling, Fills
<1>3. FaultAbsent'
  BY DEF FaultAbsent, Owed
<1>4. FrameExclusive'
  BY DEF FrameExclusive, Mapped
<1>5. FreeFramesUnmapped'
  BY DEF FreeFramesUnmapped, Mapped
<1>6. RecordsAgree'
  BY DEF RecordsAgree, SwapType, Filling, Unmapped, Live, Mapped, Slots, Occupied
<1>7. CrashOverOrphan'
  BY DEF CrashOverOrphan
<1> QED BY <1>1, <1>2, <1>3, <1>4, <1>5, <1>6, <1>7

(* A slot is claimed for a page that has none, and names its frame.        *)
LEMMA ClaimTables ==
  ASSUME IndInv, SlotInv, TableInv, ~QuitPreempts, NEW i \in Pagers,
         Pagers = {i}, Claim(i)
  PROVE  TableInv'
<1> USE DEF IndInv, SlotInv, TableInv, TypeOK, Claim, PagerRuns, Goto, procVars,
            pagerVars, frameVars, swapVars, hwVars, NotBusy
<1> DEFINE p == cur[i]  g == fault[p].page
<1>c. p \in Procs /\ g \in Page
  BY DEF Hands, ProcType
<1>b. \/ pc'[i] = "kill" /\ UNCHANGED swapSpace
      \/ /\ pc'[i] = "zero"
         /\ \E b \in Block : /\ swapSpace[b].room = 0
                             /\ \A c \in Block \ {b} : swapSpace'[c] = swapSpace[c]
                             /\ swapSpace'[b].pid = p /\ swapSpace'[b].page = g
                             /\ swapSpace'[b].room = 1 /\ swapSpace'[b].frame = frame[i]
  BY DEF Claiming, Claimed, PagerType, SwapType
<1>n. Slots(p, g) = {}
  BY DEF Claiming
<1>o. \A q \in Procs, h \in Page, c \in Block : c \in Slots(q, h)' =>
        \/ c \in Slots(q, h) /\ swapSpace'[c] = swapSpace[c]
        \/ q = p /\ h = g /\ swapSpace'[c].frame = frame[i]
  BY <1>b DEF Slots, Occupied
<1>1. OwnTable'
  BY <1>b DEF OwnTable
<1>2. Filling'
  <2>1. Unmapped(frame[i])' /\ inFrame'[frame[i]] = [pid |-> p, page |-> g]
    BY DEF Filling, Fills, Unmapped
  <2>2. \A c \in Slots(p, g)' : swapSpace'[c].frame = frame[i]
    BY <1>c, <1>n, <1>o DEF Slots
  <2> QED BY <1>b, <2>1, <2>2 DEF Filling, Fills, Slots, Occupied
<1>3. FaultAbsent'
  BY DEF FaultAbsent, Owed
<1>4. FrameExclusive'
  BY DEF FrameExclusive, Mapped
<1>5. FreeFramesUnmapped'
  BY DEF FreeFramesUnmapped, Mapped
<1>6. RecordsAgree'
  <2> SUFFICES ASSUME NEW q \in Procs, NEW h \in Page, Live(q), Mapped(q, h)
               PROVE  /\ inFrame[pageTable[q][h]] = [pid |-> q, page |-> h]
                      /\ \A c \in Slots(q, h)' : swapSpace'[c].frame = pageTable[q][h]
    BY DEF RecordsAgree, Live, Mapped
  <2>1. q # p \/ h # g
    BY <1>n DEF SlotExclusive
  <2> QED BY <1>o, <2>1 DEF RecordsAgree, Slots
<1>7. CrashOverOrphan'
  BY DEF CrashOverOrphan
<1> QED BY <1>1, <1>2, <1>3, <1>4, <1>5, <1>6, <1>7

(* The frame is cleared; of the pager's entries none is left.              *)
LEMMA ZeroFillTables ==
  ASSUME IndInv, SlotInv, TableInv, ~QuitPreempts, NEW i \in Pagers,
         Pagers = {i}, ZeroFill(i)
  PROVE  TableInv'
<1> USE DEF IndInv, SlotInv, TableInv, TypeOK, ZeroFill, PagerRuns, Goto,
            procVars, pagerVars, frameVars, swapVars, hwVars, Last, Clear
<1>a. frame[i] \in Frame /\ Absent \notin Frame
  BY SizesAssumption DEF Places, Frame, Absent
<1>t. pageTable'[i] = EmptyTable
  <2>1. PICK g, h \in Page :
          /\ Last(h, Entries(i, frame[i]) \cup {g})
          /\ pageTable' = [pageTable EXCEPT ![i] = [@ EXCEPT ![g] = frame[i], ![h] = Absent]]
    OBVIOUS
  <2>2. pageTable[i] = EmptyTable
    BY DEF OwnTable
  <2>3. Entries(i, frame[i]) = {}
    BY <1>a, <2>2 DEF Entries, EmptyTable
  <2>4. h = g
    BY <2>1, <2>3
  <2> QED BY <2>1, <2>2, <2>4 DEF FrameType, EmptyTable
<1>b. pc'[i] = "map"
  BY DEF PagerType
<1>1. OwnTable'
  BY <1>t, <1>b DEF OwnTable
<1>2. Filling'
  BY NamesAssumption DEF Filling, Unmapped, Fills, Slots, Occupied
<1>3. FaultAbsent'
  BY NamesAssumption DEF FaultAbsent, Owed
<1>4. FrameExclusive'
  BY NamesAssumption DEF FrameExclusive, Mapped
<1>5. FreeFramesUnmapped'
  BY NamesAssumption DEF FreeFramesUnmapped, Mapped
<1>6. RecordsAgree'
  BY NamesAssumption DEF RecordsAgree, Live, Mapped, Slots, Occupied
<1>7. CrashOverOrphan'
  BY DEF CrashOverOrphan
<1> QED BY <1>1, <1>2, <1>3, <1>4, <1>5, <1>6, <1>7

(* The fault is answered; the frame stays as it is.                        *)
LEMMA KillTables ==
  ASSUME IndInv, SlotInv, TableInv, ~QuitPreempts, NEW i \in Pagers,
         Pagers = {i}, Kill(i)
  PROVE  TableInv'
<1> USE DEF IndInv, SlotInv, TableInv, TypeOK, Kill, PagerRuns, Goto, procVars,
            pagerVars, frameVars, swapVars, hwVars, Answer
<1>w. /\ cur[i] \in Procs /\ Owed(cur[i])
      /\ fault' \in [Procs -> [page : Page, kill : BOOLEAN, wait : 0 .. 1]]
      /\ fault'[cur[i]].wait = 1
      /\ \A q \in Procs : /\ fault'[q].page = fault[q].page
                          /\ q # cur[i] => fault'[q] = fault[q]
      /\ pc' = [pc EXCEPT ![i] = "idle"] /\ cur' = [cur EXCEPT ![i] = None]
  BY AnswerLemma
<1>1. OwnTable'
  BY DEF OwnTable
<1>2. Filling'
  BY DEF Filling, PagerType, Fills
<1>3. FaultAbsent'
  BY <1>w DEF FaultAbsent, Owed
<1>4. FrameExclusive'
  BY DEF FrameExclusive, Mapped
<1>5. FreeFramesUnmapped'
  BY DEF FreeFramesUnmapped, Mapped
<1>6. RecordsAgree'
  BY DEF RecordsAgree, Live, Mapped, Slots, Occupied
<1>7. CrashOverOrphan'
  BY DEF CrashOverOrphan
<1> QED BY <1>1, <1>2, <1>3, <1>4, <1>5, <1>6, <1>7

(* The page was absent and the frame in no table, so the frame has one     *)
(* owner.                                                                  *)
LEMMA MapTables ==
  ASSUME IndInv, SlotInv, TableInv, ~QuitPreempts, NEW i \in Pagers,
         Pagers = {i}, Map(i)
  PROVE  TableInv'
<1> USE DEF IndInv, SlotInv, TableInv, TypeOK, Map, PagerRuns, Goto, procVars,
            pagerVars, frameVars, swapVars, hwVars, Answer, InUse
<1> DEFINE p == cur[i]  g == fault[p].page
<1>c. p \in Procs /\ g \in Page /\ Owed(p)
  BY DEF Hands, ProcType
<1>t. /\ pageTable'[p][g] = frame[i] /\ pageTable[p][g] = Absent
      /\ \A q \in Procs, h \in Page : q # p \/ h # g => pageTable'[q][h] = pageTable[q][h]
  BY <1>c DEF FaultAbsent, FrameType
<1>w. /\ p \in Procs /\ Owed(p)
      /\ fault' \in [Procs -> [page : Page, kill : BOOLEAN, wait : 0 .. 1]]
      /\ fault'[p].wait = 1
      /\ \A q \in Procs : /\ fault'[q].page = fault[q].page
                          /\ q # p => fault'[q] = fault[q]
      /\ pc' = [pc EXCEPT ![i] = "idle"] /\ cur' = [cur EXCEPT ![i] = None]
  BY AnswerLemma
<1>o. pageTable'[i] = pageTable[i]
  BY <1>c, NamesAssumption DEF FrameType
<1>b. pc'[i] = "idle"
  BY <1>w DEF PagerType
<1>1. OwnTable'
  BY <1>o, <1>b DEF OwnTable
<1>2. Filling'
  BY DEF Filling, PagerType, Fills
<1>3. FaultAbsent'
  BY <1>w, <1>t DEF FaultAbsent, Owed
<1>4. FrameExclusive'
  BY DEF FrameExclusive, Filling, Unmapped, Fills, Mapped
<1>5. FreeFramesUnmapped'
  BY DEF FreeFramesUnmapped, Mapped
<1>6. RecordsAgree'
  BY DEF RecordsAgree, Filling, Fills, Live, Mapped, Slots, Occupied
<1>7. CrashOverOrphan'
  BY DEF CrashOverOrphan
<1> QED BY <1>1, <1>2, <1>3, <1>4, <1>5, <1>6, <1>7

(* A crash over a frame that no living process maps changes nothing else.  *)
LEMMA CrashesTables ==
  ASSUME TableInv, NEW i \in Pagers, pc[i] \in {"save", "unmap"},
         \A p \in Procs, g \in Page : Live(p) => pageTable[p][g] # frame[i],
         NEW what \in {"null slot", "garbage table"}, Crash(what)
  PROVE  TableInv'
<1> USE DEF TableInv
<1>u. UNCHANGED <<proc, fault, pc, cur, frame, block, pageTable, freeFrames, usedMap,
                inFrame, swapSpace>>
  BY DEF Crash, procVars, pagerVars, frameVars, swapVars
<1>1. OwnTable'
  BY <1>u DEF OwnTable
<1>2. Filling' /\ FrameExclusive' /\ RecordsAgree'
  BY <1>u, RecordsStay
<1>3. FaultAbsent'
  BY <1>u DEF FaultAbsent, Owed
<1>4. FreeFramesUnmapped'
  BY <1>u DEF FreeFramesUnmapped, Mapped
<1>5. CrashOverOrphan'
  <2>1. crash' \in {"null slot", "garbage table"}
    BY DEF Crash
  <2>2. \A p \in Procs, g \in Page : Live(p)' => pageTable'[p][g] # frame'[i]
    BY <1>u DEF Live
  <2>3. pc'[i] \in {"save", "unmap"}
    BY <1>u
  <2> QED BY <2>1, <2>2, <2>3 DEF CrashOverOrphan
<1> QED BY <1>1, <1>2, <1>3, <1>4, <1>5

(* A load sets the reference bit.                                          *)
LEMMA LoadTables ==
  ASSUME IndInv, SlotInv, TableInv, ~QuitPreempts, NEW i \in Pagers,
         Pagers = {i}, NEW p \in Procs, NEW g \in Page, Load(p,g)
  PROVE  TableInv'
<1> USE DEF IndInv, SlotInv, TableInv, TypeOK, Load, procVars, pagerVars,
            frameVars, swapVars, hwVars
<1>1. OwnTable'
  BY DEF OwnTable
<1>2. Filling'
  BY DEF Filling, Unmapped, Slots, Occupied
<1>3. FaultAbsent'
  BY DEF FaultAbsent, Owed
<1>4. FrameExclusive'
  BY DEF FrameExclusive, Mapped
<1>5. FreeFramesUnmapped'
  BY DEF FreeFramesUnmapped, Mapped
<1>6. RecordsAgree'
  BY DEF RecordsAgree, Live, Mapped, Slots, Occupied
<1>7. CrashOverOrphan'
  BY DEF CrashOverOrphan, ProcRuns
<1> QED BY <1>1, <1>2, <1>3, <1>4, <1>5, <1>6, <1>7

(* A store changes the one page that the frame holds.                      *)
LEMMA StoreTables ==
  ASSUME IndInv, SlotInv, TableInv, ~QuitPreempts, NEW i \in Pagers,
         Pagers = {i}, NEW p \in Procs, NEW g \in Page, NEW v \in Stamps(p, g),
         Store(p,g,v)
  PROVE  TableInv'
<1> USE DEF IndInv, SlotInv, TableInv, TypeOK, Store, procVars, pagerVars,
            frameVars, swapVars, hwVars
<1>1. OwnTable'
  BY DEF OwnTable
<1>2. Filling'
  BY DEF Filling, Unmapped, Slots, Occupied
<1>3. FaultAbsent'
  BY DEF FaultAbsent, Owed
<1>4. FrameExclusive'
  BY DEF FrameExclusive, Mapped
<1>5. FreeFramesUnmapped'
  BY DEF FreeFramesUnmapped, Mapped
<1>6. RecordsAgree'
  BY DEF RecordsAgree, Live, Mapped, Slots, Occupied
<1>7. CrashOverOrphan'
  BY DEF CrashOverOrphan, ProcRuns
<1> QED BY <1>1, <1>2, <1>3, <1>4, <1>5, <1>6, <1>7

(* A fault is about a page that is absent.                                 *)
LEMMA FaultTables ==
  ASSUME IndInv, SlotInv, TableInv, ~QuitPreempts, NEW i \in Pagers,
         Pagers = {i}, NEW p \in Procs, NEW g \in Page, Fault(p,g)
  PROVE  TableInv'
<1> USE DEF IndInv, SlotInv, TableInv, TypeOK, Fault, Enqueue, procVars,
            pagerVars, frameVars, swapVars, hwVars
<1>h. pc[i] \in Fills => /\ cur[i] \in Procs /\ cur[i] # p
                        /\ fault[cur[i]].page \in Page
  <2>1. pc[i] \in Fills => cur[i] \in Procs /\ Owed(cur[i])
    BY DEF Fills, Hands
  <2>2. ~Owed(p)
    BY DEF Owed
  <2> QED BY <2>1, <2>2 DEF ProcType
<1>r. \A q \in Procs : q # p => fault'[q] = fault[q]
  BY DEF ProcType
<1>1. OwnTable'
  BY DEF OwnTable
<1>2. Filling'
  BY <1>h, <1>r DEF Filling, Fills, Unmapped, Slots, Occupied
<1>3. FaultAbsent'
  BY DEF FaultAbsent, ProcType, Owed
<1>4. FrameExclusive'
  BY DEF FrameExclusive, Mapped
<1>5. FreeFramesUnmapped'
  BY DEF FreeFramesUnmapped, Mapped
<1>6. RecordsAgree'
  BY DEF RecordsAgree, Live, Mapped, Slots, Occupied
<1>7. CrashOverOrphan'
  BY DEF CrashOverOrphan, ProcRuns
<1> QED BY <1>1, <1>2, <1>3, <1>4, <1>5, <1>6, <1>7

(* A process goes on.                                                      *)
LEMMA ResumeTables ==
  ASSUME IndInv, SlotInv, TableInv, ~QuitPreempts, NEW i \in Pagers,
         Pagers = {i}, NEW p \in Procs, Resume(p)
  PROVE  TableInv'
<1> USE DEF IndInv, SlotInv, TableInv, TypeOK, Resume, procVars, pagerVars,
            frameVars, swapVars, hwVars
<1>h. pc[i] \in Fills => /\ cur[i] \in Procs /\ cur[i] # p
                        /\ fault[cur[i]].page \in Page
  <2>1. pc[i] \in Fills => cur[i] \in Procs /\ Owed(cur[i])
    BY DEF Fills, Hands
  <2>2. ~Owed(p)
    BY DEF Owed
  <2> QED BY <2>1, <2>2 DEF ProcType
<1>r. \A q \in Procs : q # p => fault'[q] = fault[q]
  BY DEF ProcType
<1>1. OwnTable'
  BY DEF OwnTable
<1>2. Filling'
  BY <1>h, <1>r DEF Filling, Fills, Unmapped, Slots, Occupied
<1>3. FaultAbsent'
  BY DEF FaultAbsent, ProcType, Owed
<1>4. FrameExclusive'
  BY DEF FrameExclusive, Mapped
<1>5. FreeFramesUnmapped'
  BY DEF FreeFramesUnmapped, Mapped
<1>6. RecordsAgree'
  BY DEF RecordsAgree, Live, Mapped, Slots, Occupied
<1>7. CrashOverOrphan'
  BY DEF CrashOverOrphan, ProcRuns
<1> QED BY <1>1, <1>2, <1>3, <1>4, <1>5, <1>6, <1>7

(* A process quits by itself.                                              *)
LEMMA QuitTables ==
  ASSUME IndInv, SlotInv, TableInv, ~QuitPreempts, NEW i \in Pagers,
         Pagers = {i}, NEW p \in Procs, Quit(p)
  PROVE  TableInv'
<1> USE DEF IndInv, SlotInv, TableInv, TypeOK, Quit, procVars, pagerVars,
            frameVars, swapVars, hwVars
<1>1. OwnTable'
  BY DEF OwnTable
<1>2. Filling'
  BY DEF Filling, Unmapped, Slots, Occupied
<1>3. FaultAbsent'
  BY DEF FaultAbsent, Owed
<1>4. FrameExclusive'
  BY DEF FrameExclusive, Mapped
<1>5. FreeFramesUnmapped'
  BY DEF FreeFramesUnmapped, Mapped
<1>6. RecordsAgree'
  BY DEF RecordsAgree, Live, Mapped, Slots, Occupied
<1>7. CrashOverOrphan'
  BY DEF CrashOverOrphan, ProcRuns
<1> QED BY <1>1, <1>2, <1>3, <1>4, <1>5, <1>6, <1>7

(* P3SwapFreeAll: no slot of another process changes.                      *)
LEMMA SwapFreeAllTables ==
  ASSUME IndInv, SlotInv, TableInv, ~QuitPreempts, NEW i \in Pagers,
         Pagers = {i}, NEW p \in Procs, SwapFreeAll(p)
  PROVE  TableInv'
<1> USE DEF IndInv, SlotInv, TableInv, TypeOK, SwapFreeAll, procVars, pagerVars,
            frameVars, swapVars, hwVars
<1>h. pc[i] \in Fills => /\ cur[i] \in Procs /\ cur[i] # p
                        /\ fault[cur[i]].page \in Page
  <2>1. pc[i] \in Fills => cur[i] \in Procs /\ Owed(cur[i])
    BY DEF Fills, Hands
  <2>2. ~Owed(p)
    BY DEF Owed
  <2> QED BY <2>1, <2>2 DEF ProcType
<1>s. \A b \in Block : swapSpace'[b] = IF swapSpace[b].pid = p THEN FreeSlot ELSE swapSpace[b]
  OBVIOUS
<1>n. FreeSlot.pid = None /\ FreeSlot.room = 0
  BY DEF FreeSlot
<1>o. \A q \in Procs, g \in Page : q # p => /\ Slots(q, g)' = Slots(q, g)
                                         /\ \A b \in Slots(q, g) : swapSpace'[b] = swapSpace[b]
  BY <1>s, <1>n, NamesAssumption DEF Slots, Occupied
<1>r. proc'[p] = "free" /\ \A q \in Procs : q # p => proc'[q] = proc[q]
  BY DEF ProcType
<1>l. \A q \in Procs : Live(q)' => q # p /\ Live(q)
  BY <1>r DEF Live
<1>1. OwnTable'
  BY DEF OwnTable
<1>2. Filling'
  <2>1. pc[i] \in Fills =>
          /\ Slots(cur[i], fault[cur[i]].page)' = Slots(cur[i], fault[cur[i]].page)
          /\ \A b \in Slots(cur[i], fault[cur[i]].page) : swapSpace'[b] = swapSpace[b]
    BY <1>o, <1>h
  <2> QED BY <2>1 DEF Filling, Fills, Unmapped
<1>3. FaultAbsent'
  BY DEF FaultAbsent, Owed
<1>4. FrameExclusive'
  BY DEF FrameExclusive, Mapped
<1>5. FreeFramesUnmapped'
  BY DEF FreeFramesUnmapped, Mapped
<1>6. RecordsAgree'
  <2>1. ASSUME NEW q \in Procs, NEW g \in Page, Live(q)', Mapped(q, g)'
        PROVE  /\ q # p /\ Live(q) /\ Mapped(q, g)
               /\ Slots(q, g)' = Slots(q, g)
               /\ \A b \in Slots(q, g) : swapSpace'[b] = swapSpace[b]
    BY <1>o, <1>l, <2>1 DEF Mapped
  <2>2. UNCHANGED <<inFrame, pageTable>>
    OBVIOUS
  <2> HIDE DEF IndInv, SlotInv, TypeOK, SwapFreeAll
  <2> QED BY <2>1, <2>2 DEF RecordsAgree
<1>7. CrashOverOrphan'
  BY DEF CrashOverOrphan, ProcRuns
<1> QED BY <1>1, <1>2, <1>3, <1>4, <1>5, <1>6, <1>7

(* P3FrameFreeAll: no other process maps the frames that become free.      *)
LEMMA FrameFreeAllTables ==
  ASSUME IndInv, SlotInv, TableInv, ~QuitPreempts, NEW i \in Pagers,
         Pagers = {i}, NEW p \in Procs, FrameFreeAll(p)
  PROVE  TableInv'
<1> USE DEF IndInv, SlotInv, TableInv, TypeOK, FrameFreeAll, procVars,
            pagerVars, frameVars, swapVars, hwVars
<1>a. Absent \notin Frame
  BY SizesAssumption DEF Frame, Absent
<1>t. /\ pageTable'[p] = EmptyTable
      /\ \A q \in Procs \cup Pagers : q # p => pageTable'[q] = pageTable[q]
  BY DEF FrameType, EmptyTable
<1>m. \A q \in Procs, h \in Page : Mapped(q, h)' => q # p /\ Mapped(q, h)
  BY <1>t DEF Mapped, EmptyTable
<1>1. OwnTable'
  <2>1. \A j \in Pagers : pageTable'[j] = pageTable[j]
    BY <1>t, NamesAssumption
  <2> QED BY <2>1 DEF OwnTable
<1>2. Filling'
  <2>1. pc[i] \in Fills \cup {"in", "kill"} => frame[i] # Absent
    BY <1>a DEF Places, Fills
  <2>2. pc[i] \in Fills \cup {"in", "kill"} => Unmapped(frame[i])'
    BY <1>t, <2>1 DEF Filling, Unmapped, EmptyTable
  <2> QED BY <2>2 DEF Filling, Fills, Slots, Occupied, Unmapped
<1>3. FaultAbsent'
  BY DEF FaultAbsent, Owed
<1>4. FrameExclusive'
  <2>1. \A q \in Procs, h \in Page : q # p => pageTable'[q][h] = pageTable[q][h]
    BY <1>t
  <2>2. \A h \in Page : pageTable'[p][h] = Absent
    BY <1>t DEF EmptyTable
  <2> QED BY <2>1, <2>2 DEF FrameExclusive, Mapped
<1>5. FreeFramesUnmapped'
  <2>1. ASSUME NEW q \in Procs, NEW h \in Page, Mapped(q, h)', NEW g \in Page, Mapped(p, g)
        PROVE  pageTable'[q][h] # pageTable[p][g]
    BY <1>m, <1>t, <2>1 DEF FrameExclusive
  <2>2. \A q \in Procs, h \in Page : Mapped(q, h)' => pageTable'[q][h] \notin freeFrames
    BY <1>m, <1>t DEF FreeFramesUnmapped
  <2> QED BY <2>1, <2>2 DEF FreeFramesUnmapped, Mapped
<1>6. RecordsAgree'
  BY DEF RecordsAgree, Live, Mapped, Slots, Occupied
<1>7. CrashOverOrphan'
  BY DEF CrashOverOrphan, ProcRuns
<1> QED BY <1>1, <1>2, <1>3, <1>4, <1>5, <1>6, <1>7

(* The new process maps nothing yet.                                       *)
LEMMA SpawnTables ==
  ASSUME IndInv, SlotInv, TableInv, ~QuitPreempts, NEW i \in Pagers,
         Pagers = {i}, NEW p \in Procs, Spawn(p)
  PROVE  TableInv'
<1> USE DEF IndInv, SlotInv, TableInv, TypeOK, Spawn, procVars, pagerVars,
            frameVars, swapVars, hwVars
<1>t. \A h \in Page : pageTable[p][h] = Absent
  BY DEF DeadEmpty, EmptyTable
<1>l. \A q \in Procs : Live(q)' => q = p \/ Live(q)
  BY DEF Live, ProcType
<1>1. OwnTable'
  BY DEF OwnTable
<1>2. Filling'
  BY DEF Filling, Unmapped, Slots, Occupied
<1>3. FaultAbsent'
  BY DEF FaultAbsent, Owed
<1>4. FrameExclusive'
  BY DEF FrameExclusive, Mapped
<1>5. FreeFramesUnmapped'
  BY DEF FreeFramesUnmapped, Mapped
<1>6. RecordsAgree'
  BY <1>t, <1>l DEF RecordsAgree, Mapped, Slots, Occupied
<1>7. CrashOverOrphan'
  BY DEF CrashOverOrphan, ProcRuns
<1> QED BY <1>1, <1>2, <1>3, <1>4, <1>5, <1>6, <1>7

(* A stuttering step.                                                      *)
LEMMA SameTables ==
  ASSUME IndInv, SlotInv, TableInv, ~QuitPreempts, NEW i \in Pagers,
         Pagers = {i}, UNCHANGED vars
  PROVE  TableInv'
<1> USE DEF IndInv, SlotInv, TableInv, TypeOK, vars, procVars, pagerVars,
            frameVars, swapVars, hwVars
<1>1. OwnTable'
  BY DEF OwnTable
<1>2. Filling'
  BY DEF Filling, Unmapped, Slots, Occupied
<1>3. FaultAbsent'
  BY DEF FaultAbsent, Owed
<1>4. FrameExclusive'
  BY DEF FrameExclusive, Mapped
<1>5. FreeFramesUnmapped'
  BY DEF FreeFramesUnmapped, Mapped
<1>6. RecordsAgree'
  BY DEF RecordsAgree, Live, Mapped, Slots, Occupied
<1>7. CrashOverOrphan'
  BY DEF CrashOverOrphan, Live
<1> QED BY <1>1, <1>2, <1>3, <1>4, <1>5, <1>6, <1>7

(* Nothing is mapped and no pager works.                                   *)
LEMMA InitTables == Init => TableInv
<1> SUFFICES ASSUME Init PROVE TableInv
  OBVIOUS
<1> USE DEF Init
<1>1. OwnTable /\ Filling /\ FaultAbsent
  BY DEF OwnTable, Filling, Fills, FaultAbsent, Owed
<1>2. FrameExclusive /\ FreeFramesUnmapped /\ RecordsAgree /\ CrashOverOrphan
  BY DEF FrameExclusive, FreeFramesUnmapped, RecordsAgree, CrashOverOrphan, Mapped, EmptyTable
<1> QED BY <1>1, <1>2 DEF TableInv

(* P3SwapOut finds the slot of a frame that a living process maps, and     *)
(* some slot names it.                                                     *)
LEMMA SlotOfFrame ==
  ASSUME IndInv, SlotInv, TableInv, NEW i \in Pagers, pc[i] \in {"save", "unmap"},
         NEW p \in Procs, NEW g \in Page, Live(p), pageTable[p][g] = frame[i]
  PROVE  /\ SlotsFor(frame[i]) # {}
         /\ \E b \in Block : swapSpace[b].frame = frame[i]
<1> USE DEF IndInv, SlotInv, TableInv
<1>1. frame[i] \in Frame /\ Absent \notin Frame
  BY SizesAssumption DEF Places, Frame, Absent
<1>2. Mapped(p, g)
  BY <1>1 DEF Mapped
<1>3. PICK b \in Slots(p, g) : TRUE
  BY <1>2 DEF SlotExclusive
<1>4. swapSpace[b].frame = frame[i] /\ inFrame[frame[i]] = [pid |-> p, page |-> g]
  BY <1>2, <1>3 DEF RecordsAgree
<1> QED BY <1>3, <1>4 DEF Slots, SlotsFor

(* P3FrameMap and P3FrameUnmap by the pager succeed.                       *)
LEMMA OwnTableServes ==
  ASSUME IndInv, TableInv, NEW i \in Pagers
  PROVE  /\ pc[i] = "reading" => CanUnmap(i, frame[i])
         /\ pc[i] \in {"in", "zero", "save"} => Entries(i, Absent) # {}
<1> USE DEF IndInv, TableInv, TypeOK
<1>1. ASSUME pc[i] = "reading" PROVE CanUnmap(i, frame[i])
  <2>1. PICK x \in Page : pageTable[i] = [EmptyTable EXCEPT ![x] = frame[i]]
    BY <1>1 DEF OwnTable
  <2>2. x \in Entries(i, frame[i])
    BY <2>1 DEF Entries, EmptyTable
  <2> QED BY <1>1, <2>2 DEF OwnTable, CanUnmap
<1>2. ASSUME pc[i] \in {"in", "zero", "save"} PROVE Entries(i, Absent) # {}
  <2>1. pageTable[i] = EmptyTable
    BY <1>2 DEF OwnTable
  <2>2. 0 \in Entries(i, Absent)
    BY <2>1, Sizes DEF Entries, EmptyTable
  <2> QED BY <2>2
<1> QED BY <1>1, <1>2

(* The actions together: with IndInv and SlotInv, TableInv is inductive.   *)
LEMMA StepTables ==
  ASSUME OnePager, ~QuitPreempts
  PROVE  IndInv /\ SlotInv /\ TableInv /\ [Next]_vars => TableInv'
<1> SUFFICES ASSUME IndInv, SlotInv, TableInv, [Next]_vars PROVE TableInv'
  OBVIOUS
<1>i. PICK i : Pagers = {i}
  BY DEF OnePager
<1>j. i \in Pagers
  BY <1>i
<1>1. CASE UNCHANGED vars
  BY <1>i, <1>j, <1>1, SameTables
<1>2. CASE PagerNext(i)
  <2>1. CASE Take(i) \/ FreeFrame(i) \/ Kill(i) \/ Map(i)
    BY <1>i, <1>j, <2>1, TakeTables, FreeFrameTables, KillTables, MapTables
  <2>2. CASE SwapOutNext(i)
    <3>1. CASE SaveNothing(i)
      BY <1>j, <3>1, SlotOfFrame, CrashesTables DEF SaveNothing
    <3>2. CASE UnmapGarbage(i)
      BY <1>j, <3>2, SlotOfFrame, CrashesTables DEF UnmapGarbage
    <3> QED BY <1>i, <1>j, <2>2, <3>1, <3>2, SwapOutTables, ClockTables, SaveTables,
               WrittenTables, UnmapTables
            DEF SwapOutNext
  <2>3. CASE SwapInNext(i)
    <3>1. ~ReadDoneAssert(i) /\ ~MapFails(i)
      BY <1>j, OwnTableServes DEF ReadDoneAssert, MapFails
    <3> QED BY <1>i, <1>j, <2>3, <3>1, SwapInReadTables, ReadDoneTables, FindRoomTables,
               ClaimTables, ZeroFillTables
            DEF SwapInNext
  <2> QED BY <1>2, <2>1, <2>2, <2>3 DEF PagerNext
<1>3. ASSUME NEW p \in Procs, ProcNext(p) PROVE TableInv'
  <2>1. CASE Access(p)
    BY <1>i, <1>j, <2>1, LoadTables, StoreTables, FaultTables DEF Access
  <2>2. CASE Leave(p)
    BY <1>i, <1>j, <2>2, ResumeTables, SwapFreeAllTables, FrameFreeAllTables DEF Leave
  <2> QED BY <1>i, <1>j, <1>3, <2>1, <2>2, QuitTables, SpawnTables DEF ProcNext
<1> QED BY <1>i, <1>1, <1>2, <1>3 DEF Next
-----------------------------------------------------------------------------
(* The three invariants hold in every reachable state.                     *)
THEOREM TablesInductive ==
  ASSUME OnePager, ~QuitPreempts
  PROVE  Spec => [](IndInv /\ SlotInv /\ TableInv)
<1>0. NoSlices
  BY DEF OnePager, NoSlices
<1>1. Init => IndInv /\ SlotInv /\ TableInv
  BY InitInv, InitSlots, InitTables
<1>2. IndInv /\ SlotInv /\ TableInv /\ [Next]_vars => (IndInv /\ SlotInv /\ TableInv)'
  BY <1>0, StepInv, StepSlots, StepTables
<1> QED BY <1>1, <1>2, PTL DEF Spec

(* Two pages never share a frame.                                          *)
THEOREM FramesAreExclusive ==
  ASSUME OnePager, ~QuitPreempts
  PROVE  Spec => []FrameExclusive
<1>1. TableInv => FrameExclusive
  BY DEF TableInv
<1> QED BY <1>1, TablesInductive, PTL

(* The free list never offers a frame that a process maps, not even one    *)
(* that was being written out when its owner quit.                         *)
THEOREM FreeFramesAreUnmapped ==
  ASSUME OnePager, ~QuitPreempts
  PROVE  Spec => []FreeFramesUnmapped
<1>1. TableInv => FreeFramesUnmapped
  BY DEF TableInv
<1> QED BY <1>1, TablesInductive, PTL

(* Page table, list by frame and slot agree about every resident page.     *)
THEOREM RecordsDoAgree ==
  ASSUME OnePager, ~QuitPreempts
  PROVE  Spec => []RecordsAgree
<1>1. TableInv => RecordsAgree
  BY DEF TableInv
<1> QED BY <1>1, TablesInductive, PTL

(* The machine ends only where P3SwapOut follows the slot (phase3d.c:434)  *)
(* or the page table (phase3d.c:459) of a frame that no living process     *)
(* maps any more.                                                          *)
THEOREM CrashesOverOrphans ==
  ASSUME OnePager, ~QuitPreempts
  PROVE  Spec => []CrashOverOrphan
<1>1. TableInv => CrashOverOrphan
  BY DEF TableInv
<1> QED BY <1>1, TablesInductive, PTL
=============================================================================
