------------------------------ MODULE RoomProofs ------------------------------
(***************************************************************************)
(* Proofs about Paging with one process, one pager and room on the swap    *)
(* disk for all pages of the process, for any other sizes.  Accounts says  *)
(* that every frame is free, in the pager's hand or mapped, and that the   *)
(* statistics count just that.  A kill for lack of room loses a frame, and *)
(* with a second process a quit during the write of one of its pages gives *)
(* the frame to the free list and to the pager: without the hypotheses the *)
(* results are false.                                                      *)
(***************************************************************************)
EXTENDS OneProcessProofs

InHand  == {i \in Pagers : pc[i] \in {"in", "claim", "reading", "zero", "map"}}
Counted == freeFrames \cup {frame[i] : i \in InHand}

(* No assertion fails, and there is always room for a page.                *)
NoTrouble == /\ crash = "none"
             /\ \A i \in Pagers : pc[i] # "kill" /\ (pc[i] = "claim" => block[i] # -1)

(* A frame that is not free is mapped, or being filled.                    *)
Kept == /\ \A f \in Frame : f \in Counted \/ ~Unmapped(f)
        /\ \A i \in Pagers : pc[i] \in SwapOutAt => freeFrames = {}

(* Between and during faults.                                              *)
Counts == /\ vmStats.freeFrames = Cardinality(Counted)
          /\ vmStats.freeBlocks = Cardinality(Room)

Accounts == NoTrouble /\ Kept /\ Counts
-----------------------------------------------------------------------------
(* Room, and frames that have an owner.                                    *)

(* There are finitely many frames.                                         *)
LEMMA FrameSize == IsFiniteSet(Frame) /\ Cardinality(Frame) = NumFrames
<1>1. NumFrames \in Nat \ {0}
  BY SizesAssumption
<1>2. /\ IsFiniteSet(0 .. NumFrames - 1)
      /\ Cardinality(0 .. NumFrames - 1) = NumFrames
  BY <1>1, FS_Interval
<1> QED BY <1>2 DEF Frame

(* The frame that P3SwapOut gives up is mapped by the process, and its     *)
(* slot says so.                                                           *)
LEMMA Evicted ==
  ASSUME NEW p, NEW i, Alone(p, i), IndInv, OneInv, Accounts, pc[i] = "unmap"
  PROVE  /\ frame[i] \in Frame
         /\ \E h \in Page : pageTable[p][h] = frame[i] /\ Mapped(p, h) /\ Slots(p, h) # {}
<1>1. p \in Procs /\ i \in Pagers
  BY DEF Alone
<1>2. Live(p)
  BY Working
<1>3. frame[i] \in Frame /\ frame[i] # Absent
  BY <1>1, SizesAssumption DEF IndInv, Places, Frame, Absent
<1>4. frame[i] \notin Counted
  <2>1. freeFrames = {}
    BY <1>1 DEF Accounts, Kept, SwapOutAt
  <2>2. InHand = {}
    BY DEF Alone, InHand
  <2> QED BY <2>1, <2>2 DEF Counted
<1>5. PICK h \in Page : pageTable[p][h] = frame[i]
  BY <1>3, <1>4 DEF Accounts, Kept, Unmapped, Alone
<1>6. Mapped(p, h)
  BY <1>3, <1>5 DEF Mapped
<1>7. Slots(p, h) # {}
  BY <1>1, <1>2, <1>6 DEF OneInv, SlotInv, SlotExclusive
<1> QED BY <1>3, <1>5, <1>6, <1>7

(* There is a slot for every page: were all slots in use, one of them      *)
(* would be the page's.                                                    *)
LEMMA RoomForAll ==
  ASSUME NEW p, NEW i, Alone(p, i), NumPages <= NumBlocks, IndInv, SlotInv,
         NEW g \in Page, Slots(p, g) = {}
  PROVE  Room # {}
<1> SUFFICES ASSUME Room = {} PROVE FALSE
  OBVIOUS
<1>1. \A b \in Block : /\ swapSpace[b].room = 1 /\ swapSpace[b].pid = p
                       /\ swapSpace[b].page \in Page \ {g}
  BY DEF Room, Alone, IndInv, TypeOK, SwapType, Owned, Slots, Occupied
<1>2. Cardinality(Block) = NumBlocks
  BY FS_Interval, SizesAssumption DEF Block
<1>3. IsFiniteSet(Page \ {g}) /\ Cardinality(Page \ {g}) = NumPages - 1
  <2>1. Cardinality(Page) = NumPages
    BY FS_Interval, SizesAssumption DEF Page
  <2> QED BY <2>1, Sizes, FS_RemoveElement
<1> DEFINE pageOf == [b \in Block |-> swapSpace[b].page]
<1>4. pageOf \in [Block -> Page \ {g}]
  BY <1>1
<1>5. Cardinality(Page \ {g}) < Cardinality(Block)
  BY <1>2, <1>3, SizesAssumption
<1>6. PICK b, c \in Block : b # c /\ pageOf[b] = pageOf[c]
  <2> HIDE DEF pageOf
  <2> QED BY <1>3, <1>4, <1>5, FS_PigeonHole, Sizes
<1>7. Occupied(c, swapSpace[b].pid, swapSpace[b].page)
  BY <1>1, <1>6 DEF Occupied
<1> QED BY <1>1, <1>6, <1>7 DEF SlotInv, SlotExclusive

(* The assertions of the pager hold, and it kills nobody.                  *)
LEMMA NoTroubleAhead ==
  ASSUME NEW p, NEW i, Alone(p, i), IndInv, OneInv, Accounts
  PROVE  ~UnmapGarbage(i) /\ ~Kill(i)
<1>1. i \in Pagers
  BY DEF Alone
<1>2. ~Kill(i)
  BY <1>1 DEF Accounts, NoTrouble, Kill
<1>3. ~UnmapGarbage(i)
  <2> SUFFICES ASSUME pc[i] = "unmap" PROVE \E b \in Block : swapSpace[b].frame = frame[i]
    BY DEF UnmapGarbage
  <2>1. PICK h \in Page : pageTable[p][h] = frame[i] /\ Mapped(p, h) /\ Slots(p, h) # {}
    BY Evicted
  <2>2. Live(p) /\ p \in Procs
    BY Working DEF Alone
  <2>3. PICK b \in Slots(p, h) : TRUE
    BY <2>1
  <2> QED BY <2>1, <2>2, <2>3 DEF OneInv, TableInv, RecordsAgree, Slots
<1> QED BY <1>2, <1>3
-----------------------------------------------------------------------------
(* What a step leaves alone.                                               *)

(* Frames that are neither taken nor given.                                *)
LEMMA KeptStays ==
  ASSUME NEW p, NEW i, Alone(p, i), Kept, pageTable'[p] = pageTable[p],
         Counted' = Counted, UNCHANGED freeFrames,
         pc'[i] \in SwapOutAt => pc[i] \in SwapOutAt
  PROVE  Kept'
<1>1. \A f \in Frame : Unmapped(f)' = Unmapped(f)
  BY DEF Unmapped, Alone
<1>2. (\A f \in Frame : f \in Counted \/ ~Unmapped(f))'
  BY <1>1 DEF Kept
<1> QED BY <1>2 DEF Kept, Alone

(* The counts.                                                             *)
LEMMA CountsStay ==
  ASSUME Counts, Counted' = Counted, UNCHANGED <<vmStats, swapSpace>>
  PROVE  Counts'
BY DEF Counts, Room

(* A process that leaves the pager, the frames and the slots alone.        *)
LEMMA AccountsStay ==
  ASSUME NEW p, NEW i, Alone(p, i), Accounts,
         UNCHANGED <<pc, frame, block, pageTable, freeFrames, swapSpace, vmStats, crash>>
  PROVE  Accounts'
<1>1. Counted' = Counted
  BY DEF Counted, InHand
<1>2. NoTrouble'
  BY DEF Accounts, NoTrouble
<1> QED BY <1>1, <1>2, KeptStays, CountsStay DEF Accounts
-----------------------------------------------------------------------------
(* Every step preserves Accounts.                                          *)

(* P1_P(pagerSem) and dequeue.                                             *)
LEMMA TakeAccounts ==
  ASSUME NEW p, NEW i, Alone(p, i), IndInv, Accounts, Take(i)
  PROVE  Accounts'
<1> USE DEF Take, Goto, procVars, pagerVars, frameVars, swapVars, hwVars
<1>0. i \in Pagers /\ pc'[i] = "scan" /\ pc[i] = "idle"
  BY DEF Alone, IndInv, TypeOK, PagerType
<1>1. Counted' = Counted
  BY <1>0 DEF Counted, InHand, Alone
<1>2. NoTrouble'
  BY <1>0 DEF Accounts, NoTrouble, Alone
<1> QED BY <1>0, <1>1, <1>2, KeptStays, CountsStay DEF Accounts, SwapOutAt

(* A free frame is in the pager's hand, and still counted.                 *)
LEMMA FreeFrameAccounts ==
  ASSUME NEW p, NEW i, Alone(p, i), IndInv, Accounts, FreeFrame(i)
  PROVE  Accounts'
<1> USE DEF FreeFrame, First, Goto, procVars, pagerVars, frameVars, swapVars, hwVars
<1>0. i \in Pagers /\ pc'[i] = "in" /\ pc[i] = "scan" /\ frame'[i] \in freeFrames
  BY DEF Alone, IndInv, TypeOK, PagerType
<1>1. Counted' = Counted
  BY <1>0 DEF Counted, InHand, Alone
<1>2. NoTrouble'
  BY <1>0 DEF Accounts, NoTrouble, Alone
<1> QED BY <1>0, <1>1, <1>2, KeptStays, CountsStay DEF Accounts, SwapOutAt

(* P3SwapOut begins with no frame free.                                    *)
LEMMA SwapOutAccounts ==
  ASSUME NEW p, NEW i, Alone(p, i), IndInv, Accounts, SwapOut(i)
  PROVE  Accounts'
<1> USE DEF SwapOut, Goto, procVars, pagerVars, frameVars, swapVars, hwVars
<1>0. i \in Pagers /\ pc'[i] = "clock" /\ pc[i] = "scan"
  BY DEF Alone, IndInv, TypeOK, PagerType
<1>1. Counted' = Counted
  BY <1>0 DEF Counted, InHand, Alone
<1>2. NoTrouble'
  BY <1>0 DEF Accounts, NoTrouble, Alone
<1>3. Kept'
  <2>1. (\A f \in Frame : f \in Counted \/ ~Unmapped(f))'
    BY <1>1 DEF Accounts, Kept, Unmapped
  <2> QED BY <2>1 DEF Kept
<1> QED BY <1>0, <1>1, <1>2, <1>3, CountsStay DEF Accounts

(* A turn of the clock.                                                    *)
LEMMA ClockAccounts ==
  ASSUME NEW p, NEW i, Alone(p, i), IndInv, Accounts, Clock(i)
  PROVE  Accounts'
<1> USE DEF Clock, Chosen, Goto, procVars, pagerVars, frameVars, swapVars, hwVars
<1>0. i \in Pagers /\ pc'[i] \in {"clock", "save", "unmap"} /\ pc[i] = "clock"
  BY DEF Alone, IndInv, TypeOK, PagerType
<1>1. Counted' = Counted
  BY <1>0 DEF Counted, InHand, Alone
<1>2. NoTrouble'
  BY <1>0 DEF Accounts, NoTrouble, Alone
<1> QED BY <1>0, <1>1, <1>2, KeptStays, CountsStay DEF Accounts, SwapOutAt

(* A page is saved: its slot is in use already.                            *)
LEMMA SaveAccounts ==
  ASSUME NEW p, NEW i, Alone(p, i), IndInv, Accounts, Save(i)
  PROVE  Accounts'
<1> USE DEF Save, FrameMap, Goto, procVars, pagerVars, frameVars, swapVars, hwVars
<1>0. i \in Pagers /\ p \in Procs /\ pc'[i] = "writing" /\ pc[i] = "save"
  BY DEF Alone, IndInv, TypeOK, PagerType
<1>t. pageTable'[p] = pageTable[p]
  BY <1>0, NamesAssumption DEF IndInv, TypeOK, FrameType
<1>1. Counted' = Counted
  BY <1>0 DEF Counted, InHand, Alone
<1>2. NoTrouble'
  BY <1>0 DEF Accounts, NoTrouble, Alone
<1> QED BY <1>0, <1>t, <1>1, <1>2, KeptStays, CountsStay DEF Accounts, SwapOutAt

(* The write ends.                                                         *)
LEMMA WrittenAccounts ==
  ASSUME NEW p, NEW i, Alone(p, i), IndInv, Accounts, Written(i)
  PROVE  Accounts'
<1> USE DEF Written, Goto, FrameUnmap, procVars, pagerVars, frameVars, swapVars, hwVars
<1>0. i \in Pagers /\ p \in Procs /\ pc'[i] = "unmap" /\ pc[i] = "writing"
  BY DEF Alone, IndInv, TypeOK, PagerType
<1>t. pageTable'[p] = pageTable[p]
  BY <1>0, NamesAssumption DEF IndInv, TypeOK, FrameType
<1>1. Counted' = Counted
  BY <1>0 DEF Counted, InHand, Alone
<1>2. NoTrouble'
  BY <1>0 DEF Accounts, NoTrouble, Alone
<1> QED BY <1>0, <1>t, <1>1, <1>2, KeptStays, CountsStay DEF Accounts, SwapOutAt

(* The evicted frame is in the pager's hand, and counted.                  *)
LEMMA UnmapAccounts ==
  ASSUME NEW p, NEW i, Alone(p, i), IndInv, OneInv, Accounts, Unmap(i)
  PROVE  Accounts'
<1> USE DEF Unmap, Goto, Evict, CountEvicted, procVars, pagerVars, frameVars, swapVars, hwVars
<1>0. /\ i \in Pagers /\ p \in Procs /\ pc'[i] = "in" /\ pc[i] = "unmap"
      /\ freeFrames = {} /\ frame[i] \in Frame /\ Absent \notin Frame
  BY Evicted, SizesAssumption
     DEF Alone, IndInv, TypeOK, PagerType, Accounts, Kept, SwapOutAt, Frame, Absent
<1>t. \A g \in Page : pageTable'[p][g] = IF pageTable[p][g] = frame[i] THEN Absent
                                         ELSE pageTable[p][g]
  <2>1. PICK h \in Page : pageTable[p][h] = frame[i] /\ Mapped(p, h) /\ Slots(p, h) # {}
    BY <1>0, Evicted
  <2>2. PICK b \in Slots(p, h) : TRUE
    BY <2>1
  <2>3. Live(p)
    BY <1>0, Working
  <2>4. swapSpace[b].pid = p /\ swapSpace[b].frame = frame[i] /\ b \in Block
    BY <1>0, <2>1, <2>2, <2>3 DEF OneInv, TableInv, RecordsAgree, Slots, Occupied
  <2> QED BY <1>0, <2>4
<1>1. Counted = {} /\ Counted' = {frame[i]}
  BY <1>0 DEF Counted, InHand, Alone
<1>2. NoTrouble'
  BY <1>0 DEF Accounts, NoTrouble, Alone
<1>3. Kept'
  <2>1. ASSUME NEW f \in Frame, f # frame[i] PROVE ~Unmapped(f)'
    <3>1. PICK h \in Page : pageTable[p][h] = f
      BY <1>1 DEF Accounts, Kept, Unmapped, Alone
    <3> QED BY <1>0, <1>t, <2>1, <3>1 DEF Unmapped
  <2> QED BY <1>0, <1>1, <2>1 DEF Kept, Alone, SwapOutAt
<1>4. Counts'
  <2>1. /\ vmStats.freeFrames = 0 /\ vmStats'.freeFrames = 1
        /\ vmStats'.freeBlocks = vmStats.freeBlocks
    BY <1>1, FS_EmptySet DEF Accounts, Counts, IndInv, TypeOK, DataType
  <2>2. Cardinality(Counted)' = 1
    BY <1>1, FS_Singleton
  <2> QED BY <2>1, <2>2 DEF Accounts, Counts, Room
<1> QED BY <1>2, <1>3, <1>4 DEF Accounts

(* P3SwapIn of a page that has a slot starts to read it.                   *)
LEMMA SwapInReadAccounts ==
  ASSUME NEW p, NEW i, Alone(p, i), IndInv, Accounts, SwapInRead(i)
  PROVE  Accounts'
<1> USE DEF SwapInRead, First, Goto, FrameMap, procVars, pagerVars, frameVars, swapVars, hwVars
<1>0. i \in Pagers /\ p \in Procs /\ pc'[i] = "reading" /\ pc[i] = "in"
  BY DEF Alone, IndInv, TypeOK, PagerType
<1>t. pageTable'[p] = pageTable[p]
  BY <1>0, NamesAssumption DEF IndInv, TypeOK, FrameType
<1>s. \A b \in Block : /\ swapSpace'[b].room = swapSpace[b].room
                       /\ swapSpace'[b].pid = swapSpace[b].pid
                       /\ swapSpace'[b].page = swapSpace[b].page
  BY DEF IndInv, TypeOK, SwapType
<1>1. Counted' = Counted
  BY <1>0 DEF Counted, InHand, Alone
<1>2. NoTrouble'
  BY <1>0 DEF Accounts, NoTrouble, Alone
<1>3. Counts'
  BY <1>1, <1>s DEF Accounts, Counts, Room
<1> QED BY <1>0, <1>t, <1>1, <1>2, <1>3, KeptStays DEF Accounts, SwapOutAt

(* The read ends.                                                          *)
LEMMA ReadDoneAccounts ==
  ASSUME NEW p, NEW i, Alone(p, i), IndInv, Accounts, ReadDone(i)
  PROVE  Accounts'
<1> USE DEF ReadDone, Goto, FrameUnmap, procVars, pagerVars, frameVars, swapVars, hwVars
<1>0. i \in Pagers /\ p \in Procs /\ pc'[i] = "map" /\ pc[i] = "reading"
  BY DEF Alone, IndInv, TypeOK, PagerType
<1>t. pageTable'[p] = pageTable[p]
  BY <1>0, NamesAssumption DEF IndInv, TypeOK, FrameType
<1>1. Counted' = Counted
  BY <1>0 DEF Counted, InHand, Alone
<1>2. NoTrouble'
  BY <1>0 DEF Accounts, NoTrouble, Alone
<1> QED BY <1>0, <1>t, <1>1, <1>2, KeptStays, CountsStay DEF Accounts, SwapOutAt

(* A page that has no slot finds one with room.                            *)
LEMMA FindRoomAccounts ==
  ASSUME NEW p, NEW i, Alone(p, i), NumPages <= NumBlocks, IndInv, OneInv, Accounts, FindRoom(i)
  PROVE  Accounts'
<1> USE DEF FindRoom, First, Goto, procVars, pagerVars, frameVars, swapVars, hwVars
<1>0. /\ i \in Pagers /\ p \in Procs /\ pc[i] = "in" /\ pc'[i] = "claim"
      /\ cur[i] = p /\ fault[p].page \in Page
  BY Working DEF Alone, IndInv, TypeOK, PagerType
<1>b. block'[i] # -1
  <2>1. Room # {}
    BY <1>0, RoomForAll DEF OneInv
  <2>2. PICK b \in Block : block' = [block EXCEPT ![i] = b]
    BY <2>1
  <2> QED BY <1>0, <2>2, SizesAssumption DEF IndInv, TypeOK, PagerType, Block
<1>1. Counted' = Counted
  BY <1>0 DEF Counted, InHand, Alone
<1>2. NoTrouble'
  BY <1>0, <1>b DEF Accounts, NoTrouble, Alone
<1> QED BY <1>0, <1>1, <1>2, KeptStays, CountsStay DEF Accounts, SwapOutAt

(* The slot that was found has room still.                                 *)
LEMMA ClaimAccounts ==
  ASSUME NEW p, NEW i, Alone(p, i), IndInv, OneInv, Accounts, Claim(i)
  PROVE  Accounts'
<1> USE DEF Claim, Claimed, Goto, procVars, pagerVars, frameVars, swapVars, hwVars
<1>0. i \in Pagers /\ p \in Procs /\ pc[i] = "claim" /\ block[i] # -1
  BY DEF Alone, Accounts, NoTrouble
<1>b. block[i] \in Room
  <2>1. block[i] \in Block
    BY <1>0 DEF IndInv, TypeOK, PagerType
  <2> QED BY <1>0, <2>1 DEF OneInv, SlotInv, Claiming, Room
<1>z. pc'[i] = "zero"
  BY <1>0 DEF IndInv, TypeOK, PagerType
<1>s. /\ swapSpace'[block[i]].room = 1 /\ block[i] \in Block
      /\ \A c \in Block : c # block[i] => swapSpace'[c] = swapSpace[c]
  BY <1>0, <1>b DEF IndInv, TypeOK, SwapType, Room
<1>1. Counted' = Counted
  BY <1>0, <1>z DEF Counted, InHand, Alone
<1>2. NoTrouble'
  BY <1>z DEF Accounts, NoTrouble, Alone
<1>3. Counts'
  <2>1. Room' = Room \ {block[i]}
    BY <1>s DEF Room
  <2>2. IsFiniteSet(Room)
    BY Sizes, FS_Subset DEF Room
  <2>3. Cardinality(Room') = Cardinality(Room) - 1
    BY <1>b, <2>1, <2>2, FS_RemoveElement
  <2>4. /\ vmStats'.freeFrames = vmStats.freeFrames
        /\ vmStats'.freeBlocks = vmStats.freeBlocks - 1
    BY DEF IndInv, TypeOK, DataType
  <2> QED BY <1>1, <2>3, <2>4 DEF Accounts, Counts
<1> QED BY <1>0, <1>z, <1>1, <1>2, <1>3, KeptStays DEF Accounts, SwapOutAt

(* The frame is cleared.                                                   *)
LEMMA ZeroFillAccounts ==
  ASSUME NEW p, NEW i, Alone(p, i), IndInv, Accounts, ZeroFill(i)
  PROVE  Accounts'
<1> USE DEF ZeroFill, Clear, Goto, procVars, pagerVars, frameVars, swapVars, hwVars
<1>0. i \in Pagers /\ p \in Procs /\ pc'[i] = "map" /\ pc[i] = "zero"
  BY DEF Alone, IndInv, TypeOK, PagerType
<1>t. pageTable'[p] = pageTable[p]
  BY <1>0, NamesAssumption DEF IndInv, TypeOK, FrameType
<1>1. Counted' = Counted
  BY <1>0 DEF Counted, InHand, Alone
<1>2. NoTrouble'
  BY <1>0 DEF Accounts, NoTrouble, Alone
<1> QED BY <1>0, <1>t, <1>1, <1>2, KeptStays, CountsStay DEF Accounts, SwapOutAt

(* The frame goes from the pager's hand, or the free list, to the process. *)
LEMMA MapAccounts ==
  ASSUME NEW p, NEW i, Alone(p, i), IndInv, OneInv, Accounts, Map(i)
  PROVE  Accounts'
<1> USE DEF Map, Answer, InUse, Goto, procVars, pagerVars, frameVars, swapVars, hwVars
<1>0. /\ i \in Pagers /\ p \in Procs /\ pc'[i] = "idle" /\ pc[i] = "map" /\ cur[i] = p
      /\ fault[p].page \in Page /\ ~Mapped(p, fault[p].page)
      /\ frame[i] \in Frame
  BY Working DEF Alone, IndInv, TypeOK, PagerType, Places
<1>t. \A g \in Page : pageTable'[p][g] = IF g = fault[p].page THEN frame[i] ELSE pageTable[p][g]
  BY <1>0 DEF IndInv, TypeOK, FrameType
<1>1. Counted' = Counted \ {frame[i]} /\ frame[i] \in Counted
  BY <1>0 DEF Counted, InHand, Alone
<1>2. NoTrouble'
  BY <1>0 DEF Accounts, NoTrouble, Alone
<1>3. Kept'
  <2>1. ASSUME NEW f \in Frame, f # frame[i], f \notin Counted PROVE ~Unmapped(f)'
    <3>1. PICK h \in Page : pageTable[p][h] = f
      BY <2>1 DEF Accounts, Kept, Unmapped, Alone
    <3>2. h # fault[p].page
      BY <1>0, <3>1, SizesAssumption DEF Mapped, Frame, Absent
    <3> QED BY <1>0, <1>t, <3>1, <3>2 DEF Unmapped
  <2>2. ASSUME NEW f \in Frame, f = frame[i] PROVE ~Unmapped(f)'
    BY <1>0, <1>t, <2>2 DEF Unmapped
  <2>3. (\A f \in Frame : f \in Counted \/ ~Unmapped(f))'
    <3> SUFFICES ASSUME NEW f \in Frame, f \notin Counted' PROVE ~Unmapped(f)'
      OBVIOUS
    <3> QED BY <1>1, <2>1, <2>2
  <2> QED BY <1>0, <2>3 DEF Kept, Alone, SwapOutAt
<1>4. Counts'
  <2>1. IsFiniteSet(Counted)
    <3>1. IsFiniteSet(freeFrames)
      BY FrameSize, FS_Subset DEF IndInv, TypeOK, FrameType
    <3>2. Counted = freeFrames \cup {frame[i]}
      BY <1>0 DEF Counted, InHand, Alone
    <3> QED BY <3>1, <3>2, FS_AddElement
  <2>2. Cardinality(Counted') = Cardinality(Counted) - 1
    BY <1>1, <2>1, FS_RemoveElement
  <2>3. /\ vmStats'.freeFrames = vmStats.freeFrames - 1
        /\ vmStats'.freeBlocks = vmStats.freeBlocks
    BY DEF IndInv, TypeOK, DataType
  <2> QED BY <2>2, <2>3 DEF Accounts, Counts, Room
<1> QED BY <1>2, <1>3, <1>4 DEF Accounts

(* A process that runs, stores, faults, resumes or quits takes no frame    *)
(* and gives none.                                                         *)
LEMMA RunAccounts ==
  ASSUME NEW p, NEW i, Alone(p, i), Accounts,
         Access(p) \/ Resume(p) \/ Quit(p)
  PROVE  Accounts'
<1>1. UNCHANGED <<pc, frame, block, pageTable, freeFrames, swapSpace, vmStats, crash>>
  BY DEF Access, Load, Store, Fault, Resume, Quit, procVars, pagerVars, frameVars, swapVars, hwVars
<1> QED BY <1>1, AccountsStay

(* P3SwapFreeAll: the slots of the process have room again.                *)
LEMMA SwapFreeAllAccounts ==
  ASSUME NEW p, NEW i, Alone(p, i), IndInv, OneInv, Accounts, SwapFreeAll(p)
  PROVE  Accounts'
<1> USE DEF SwapFreeAll, procVars, pagerVars, frameVars, swapVars, hwVars
<1>0. p \in Procs /\ i \in Pagers /\ pc[i] = "idle" /\ proc'[p] = "free"
  BY Waiting DEF Alone, Owed, IndInv, TypeOK, ProcType
<1>1. Counted' = Counted
  BY DEF Counted, InHand
<1>2. NoTrouble'
  BY DEF Accounts, NoTrouble
<1>3. Kept'
  BY <1>1, KeptStays DEF Accounts
<1> DEFINE mine == {b \in Block : swapSpace[b].pid = p}
<1>4. \A b \in Block : b \in mine => swapSpace[b].room = 1
  BY <1>0, NamesAssumption DEF IndInv, OneInv, SlotInv, TypeOK, SwapType, SlotExclusive, FreeSlot
<1>5. Room' = Room \cup mine /\ Room \cap mine = {}
  BY <1>4 DEF Room, FreeSlot
<1>6. IsFiniteSet(Room) /\ IsFiniteSet(mine)
  <2>1. Room \in SUBSET Block /\ mine \in SUBSET Block
    BY DEF Room
  <2> HIDE DEF mine
  <2> QED BY <2>1, Sizes, FS_Subset
<1>7. Cardinality(Room') = Cardinality(Room) + Cardinality(mine)
  <2>1. Cardinality(Room \cup mine) =
          Cardinality(Room) + Cardinality(mine) - Cardinality(Room \cap mine)
    <3> HIDE DEF mine
    <3> QED BY <1>6, FS_Union
  <2>2. Cardinality(Room \cap mine) = 0 /\ Cardinality(Room) \in Int /\ Cardinality(mine) \in Int
    <3>1. Cardinality(Room) \in Nat /\ Cardinality(mine) \in Nat
      <4> HIDE DEF mine
      <4> QED BY <1>6, FS_CardinalityType
    <3>2. Cardinality(Room \cap mine) = 0
      BY <1>5, FS_EmptySet
    <3> QED BY <3>1, <3>2
  <2> HIDE DEF mine
  <2> QED BY <1>5, <2>1, <2>2
<1>8. Counts'
  <2>1. /\ vmStats'.freeFrames = vmStats.freeFrames
        /\ vmStats'.freeBlocks = vmStats.freeBlocks + Cardinality(mine)
    BY DEF IndInv, TypeOK, DataType
  <2> HIDE DEF mine
  <2> QED BY <1>1, <1>7, <2>1 DEF Accounts, Counts
<1> QED BY <1>2, <1>3, <1>8 DEF Accounts

(* P3FrameFreeAll: the frames of the process are free again, as many as it *)
(* had pages in.                                                           *)
LEMMA FrameFreeAllAccounts ==
  ASSUME NEW p, NEW i, Alone(p, i), IndInv, OneInv, Accounts, FrameFreeAll(p)
  PROVE  Accounts'
<1> USE DEF FrameFreeAll, procVars, pagerVars, frameVars, swapVars, hwVars
<1>0. p \in Procs /\ i \in Pagers /\ pc[i] = "idle" /\ proc'[p] = "dead"
  BY Waiting DEF Alone, Owed, IndInv, TypeOK, ProcType
<1> DEFINE mapped == {g \in Page : pageTable[p][g] # Absent}
           theirs == {pageTable[p][g] : g \in mapped}
<1>1. Counted = freeFrames /\ Counted' = freeFrames \cup theirs
  BY <1>0 DEF Counted, InHand, Alone
<1>2. NoTrouble'
  BY DEF Accounts, NoTrouble
<1>3. Kept'
  <2>1. \A f \in Frame : f \in freeFrames \/ f \in theirs
    BY <1>1, SizesAssumption DEF Accounts, Kept, Unmapped, Alone, Frame, Absent
  <2> QED BY <1>0, <1>1, <2>1 DEF Kept, SwapOutAt, Alone
<1>4. freeFrames \cap theirs = {}
  BY <1>0 DEF OneInv, TableInv, FreeFramesUnmapped, Mapped
<1>5. IsFiniteSet(freeFrames)
  BY FrameSize, FS_Subset DEF IndInv, TypeOK, FrameType
<1>6. IsFiniteSet(theirs) /\ Cardinality(theirs) = Cardinality(mapped)
  <2> DEFINE at == [g \in mapped |-> pageTable[p][g]]
  <2>1. at \in Bijection(mapped, theirs)
    <3>1. at \in [mapped -> theirs]
      OBVIOUS
    <3>2. \A g, h \in mapped : at[g] = at[h] => g = h
      BY <1>0 DEF OneInv, TableInv, FrameExclusive, Mapped
    <3>3. \A f \in theirs : \E g \in mapped : at[g] = f
      OBVIOUS
    <3> HIDE DEF at, mapped, theirs
    <3> QED BY <3>1, <3>2, <3>3 DEF Bijection, Injection, IsInjective, Surjection
  <2>2. IsFiniteSet(mapped)
    BY Sizes, FS_Subset
  <2> HIDE DEF mapped, theirs, at
  <2> QED BY <2>1, <2>2, FS_Bijection DEF ExistsBijection
<1>7. Cardinality(freeFrames \cup theirs) = Cardinality(freeFrames) + Cardinality(mapped)
  <2>1. Cardinality(freeFrames \cup theirs) =
          Cardinality(freeFrames) + Cardinality(theirs) - Cardinality(freeFrames \cap theirs)
    <3> HIDE DEF theirs
    <3> QED BY <1>5, <1>6, FS_Union
  <2>2. /\ Cardinality(freeFrames \cap theirs) = 0
        /\ Cardinality(freeFrames) \in Int /\ Cardinality(theirs) \in Int
    <3>1. Cardinality(freeFrames) \in Nat /\ Cardinality(theirs) \in Nat
      <4> HIDE DEF theirs
      <4> QED BY <1>5, <1>6, FS_CardinalityType
    <3>2. Cardinality(freeFrames \cap theirs) = 0
      BY <1>4, FS_EmptySet
    <3> QED BY <3>1, <3>2
  <2> HIDE DEF theirs, mapped
  <2> QED BY <1>6, <2>1, <2>2
<1>8. Counts'
  <2>1. /\ vmStats'.freeFrames = vmStats.freeFrames + Cardinality(mapped)
        /\ vmStats'.freeBlocks = vmStats.freeBlocks
    BY DEF IndInv, TypeOK, DataType
  <2> HIDE DEF mapped, theirs
  <2> QED BY <1>1, <1>7, <2>1 DEF Accounts, Counts, Room
<1> QED BY <1>2, <1>3, <1>8 DEF Accounts

(* The next process in the slot has no page yet.                           *)
LEMMA SpawnAccounts ==
  ASSUME NEW p, NEW i, Alone(p, i), IndInv, OneInv, Accounts, Spawn(p)
  PROVE  Accounts'
<1> USE DEF Spawn, procVars, pagerVars, frameVars, swapVars, hwVars
<1>0. /\ p \in Procs /\ i \in Pagers /\ pc[i] = "idle"
      /\ pageTable[p] = EmptyTable
  BY Waiting DEF Alone, Owed, IndInv, DeadEmpty
<1>1. Counted' = Counted
  BY DEF Counted, InHand
<1>2. NoTrouble'
  BY DEF Accounts, NoTrouble
<1> QED BY <1>1, <1>2, KeptStays, CountsStay DEF Accounts

(* The actions together.                                                   *)
LEMMA StepAccounts ==
  ASSUME NEW p, NEW i, Alone(p, i), NumPages <= NumBlocks, IndInv, OneInv, Accounts, [Next]_vars
  PROVE  Accounts'
<1>1. CASE UNCHANGED vars
  BY <1>1, AccountsStay DEF vars, procVars, pagerVars, frameVars, swapVars, hwVars
<1>2. CASE PagerNext(i)
  BY <1>2, NoTroubleAhead, NoAssertionFails, TakeAccounts, FreeFrameAccounts,
     SwapOutAccounts, ClockAccounts, SaveAccounts, WrittenAccounts, UnmapAccounts,
     SwapInReadAccounts, ReadDoneAccounts, FindRoomAccounts, ClaimAccounts,
     ZeroFillAccounts, MapAccounts
     DEF PagerNext, SwapOutNext, SwapInNext
<1>3. CASE ProcNext(p)
  BY <1>3, RunAccounts, SwapFreeAllAccounts, FrameFreeAllAccounts, SpawnAccounts
     DEF ProcNext, Leave
<1> QED BY <1>1, <1>2, <1>3 DEF Next, Alone

(* A system that has just come up.                                         *)
LEMMA InitAccounts ==
  ASSUME NEW p, NEW i, Alone(p, i), Init
  PROVE  Accounts
<1> USE DEF Init
<1>0. p \in Procs /\ i \in Pagers /\ pc[i] = "idle"
  BY DEF Alone
<1>1. Counted = Frame /\ Room = Block
  BY <1>0 DEF Counted, InHand, Alone, Room, FreeSlot
<1>2. Cardinality(Frame) = NumFrames /\ Cardinality(Block) = NumBlocks
  BY FS_Interval, SizesAssumption DEF Frame, Block
<1>3. Counts
  BY <1>1, <1>2 DEF Counts
<1>4. Kept
  BY <1>0, <1>1 DEF Kept, SwapOutAt, Alone
<1>6. NoTrouble
  BY DEF NoTrouble
<1> QED BY <1>3, <1>4, <1>6 DEF Accounts
-----------------------------------------------------------------------------
(* The three invariants hold in every reachable state.                     *)
THEOREM AccountsInductive ==
  ASSUME NumPages <= NumBlocks, \E p, i : Alone(p, i)
  PROVE  Spec => [](IndInv /\ OneInv /\ Accounts)
<1>1. Init => Accounts
  BY InitAccounts
<1>2. IndInv /\ OneInv /\ Accounts /\ [Next]_vars => Accounts'
  BY StepAccounts
<1>3. Spec => [](IndInv /\ OneInv)
  BY OneInductive DEF OnePager, Undisturbed, Alone
<1> QED BY <1>1, <1>2, <1>3, PTL DEF Spec

(* No assertion of the pager fails and no pointer is followed that leads   *)
(* nowhere: with a slot for every page none is ever killed, and every      *)
(* frame that the clock chooses has a slot that names it.                  *)
THEOREM NeverCrashes ==
  ASSUME NumPages <= NumBlocks, \E p, i : Alone(p, i)
  PROVE  Spec => []NoCrash
<1>1. Accounts => NoCrash
  BY DEF Accounts, NoTrouble, NoCrash
<1>2. Spec => []Accounts
  BY AccountsInductive, PTL
<1> QED BY <1>1, <1>2, PTL

(* Between faults P3_vmStats counts the free frames and the free slots.    *)
THEOREM CountsAreRight ==
  ASSUME NumPages <= NumBlocks, \E p, i : Alone(p, i)
  PROVE  Spec => []StatsCount
<1>1. Accounts => StatsCount
  <2> SUFFICES ASSUME Accounts, \A i \in Pagers : pc[i] = "idle"
               PROVE  /\ vmStats.freeFrames = Cardinality(freeFrames)
                      /\ vmStats.freeBlocks = Cardinality(Room)
    BY DEF StatsCount
  <2>1. Counted = freeFrames
    BY DEF Counted, InHand
  <2> QED BY <2>1 DEF Accounts, Counts
<1>2. Spec => []Accounts
  BY AccountsInductive, PTL
<1> QED BY <1>1, <1>2, PTL
=============================================================================
