-------------------------- MODULE OneProcessProofs ---------------------------
(***************************************************************************)
(* Proofs about Paging with one process and one pager, for any sizes.  The *)
(* process waits while the pager works: nothing is stored to a frame that  *)
(* is being written, and nothing quits.  So paging implements private      *)
(* memory, also when the swap disk is too small for its pages and it is    *)
(* killed in the end.  With a second process this is false: a store during *)
(* the write of its page is lost.                                          *)
(***************************************************************************)
EXTENDS IsolationProofs

Alone(p, i) == Procs = {p} /\ Pagers = {i} /\ ~QuitPreempts

(* A page that is not dirty is the same on the disk.                       *)
InStep(p, g) == Live(p) /\ Mapped(p, g) /\ pageTable[p][g] \notin dirty =>
                  \A b \in Slots(p, g) : disk[b] = mem[pageTable[p][g]]

(* A page that is being written is the same in the buffer, and still in    *)
(* its frame.                                                              *)
Writing(i) == pc[i] = "writing" => buf[i] = mem[frame[i]] /\ ~Unmapped(frame[i])

Copies == /\ \A p \in Procs, g \in Page : InStep(p, g)
          /\ \A i \in Pagers : Writing(i)
-----------------------------------------------------------------------------
(* The process and the pager.                                              *)

(* A pager that is not idle works for the process, which waits.            *)
LEMMA Working ==
  ASSUME NEW p, NEW i, Alone(p, i), IndInv, OneInv, pc[i] # "idle"
  PROVE  /\ cur[i] = p /\ Owed(p) /\ Live(p) /\ ~Mapped(p, fault[p].page)
         /\ fault[p].page \in Page
<1>1. p \in Procs /\ i \in Pagers
  BY DEF Alone
<1>2. cur[i] = p /\ Owed(p)
  BY <1>1 DEF Alone, IndInv, Hands
<1>3. fault[p].page \in Page
  BY <1>1 DEF IndInv, TypeOK, ProcType
<1>4. Live(p) /\ ~Mapped(p, fault[p].page)
  BY <1>1, <1>2 DEF OneInv, SlotInv, TableInv, DataInv, FaultAbsent, Live, Mapped, Owed
<1> QED BY <1>2, <1>3, <1>4

(* A process that does not wait finds the pager idle.                      *)
LEMMA Waiting ==
  ASSUME NEW p, NEW i, Alone(p, i), IndInv, OneInv, ~Owed(p)
  PROVE  pc[i] = "idle"
BY Working

(* The frame that has been written is mapped by the process, and the slot  *)
(* is that of the page in it.                                              *)
LEMMA WrittenPage ==
  ASSUME NEW p, NEW i, Alone(p, i), IndInv, OneInv, Copies, pc[i] = "writing"
  PROVE  \E h \in Page : /\ pageTable[p][h] = frame[i] /\ Mapped(p, h)
                         /\ block[i] \in Slots(p, h)
<1>1. p \in Procs /\ i \in Pagers /\ Live(p)
  BY Working DEF Alone
<1>2. PICK h \in Page : pageTable[p][h] = frame[i]
  BY <1>1 DEF Copies, Writing, Unmapped, Alone
<1>3. frame[i] \in Frame /\ frame[i] # Absent
  BY <1>1, SizesAssumption DEF IndInv, Places, Frame, Absent
<1> QED BY <1>1, <1>2, <1>3 DEF OneInv, SlotInv, TableInv, DataInv, Saving, Mapped

(* With one pager the only assertion left is that of the unassigned table. *)
LEMMA NoAssertionFails ==
  ASSUME NEW p, NEW i, Alone(p, i), IndInv, OneInv
  PROVE  ~SaveNothing(i) /\ ~ReadDoneAssert(i) /\ ~MapFails(i)
<1>1. i \in Pagers
  BY DEF Alone
<1>2. ~SaveNothing(i)
  BY <1>1, SlotOfSaved DEF SaveNothing, Alone, OneInv
<1> QED BY <1>1, <1>2, OwnTableServes DEF ReadDoneAssert, MapFails, OneInv
-----------------------------------------------------------------------------
(* Every step preserves Copies.                                            *)

(* A step after which the pager is not writing.                            *)
LEMMA CopiesNext ==
  ASSUME NEW p, NEW i, Alone(p, i), \A g \in Page : InStep(p, g)', pc'[i] # "writing"
  PROVE  Copies'
BY DEF Copies, Writing, Alone

(* A step that leaves frames, slots and contents alone.                    *)
LEMMA CopiesStay ==
  ASSUME NEW p, NEW i, Alone(p, i), Copies, UNCHANGED <<mem, disk, dirty>>,
         \A g \in Page : Slots(p, g)' = Slots(p, g),
         pageTable'[p] = pageTable[p], Live(p)' = Live(p), pc'[i] # "writing"
  PROVE  Copies'
<1> SUFFICES ASSUME NEW g \in Page PROVE InStep(p, g)'
  BY CopiesNext
<1>1. /\ Mapped(p, g)' = Mapped(p, g) /\ pageTable'[p][g] = pageTable[p][g]
      /\ Slots(p, g)' = Slots(p, g)
  BY DEF Mapped
<1>2. InStep(p, g)
  BY DEF Copies, Alone
<1> QED BY <1>1, <1>2 DEF InStep

(* P3SwapIn of a page that has a slot: the slot is only told its frame.    *)
LEMMA ReadSlots ==
  ASSUME NEW p, NEW i, Alone(p, i), IndInv, SwapInRead(i)
  PROVE  \A g \in Page : Slots(p, g)' = Slots(p, g)
<1>1. \A b \in Block : /\ swapSpace'[b].room = swapSpace[b].room
                       /\ swapSpace'[b].pid = swapSpace[b].pid
                       /\ swapSpace'[b].page = swapSpace[b].page
  BY DEF SwapInRead, IndInv, TypeOK, SwapType
<1> QED BY <1>1 DEF Slots, Occupied

(* The steps of the pager that change no page, frame or bit, and its end   *)
(* of the machine.                                                         *)
LEMMA QuietCopies ==
  ASSUME NEW p, NEW i, Alone(p, i), IndInv, Copies,
         Take(i) \/ FreeFrame(i) \/ SwapOut(i) \/ Clock(i) \/ SwapInRead(i)
           \/ FindRoom(i) \/ Kill(i) \/ UnmapGarbage(i)
  PROVE  Copies'
<1> USE DEF Goto, procVars, pagerVars, frameVars, swapVars, hwVars
<1>0. p \in Procs /\ i \in Pagers /\ p # i
  BY NamesAssumption DEF Alone
<1>1. pc'[i] # "writing"
  BY <1>0 DEF Take, FreeFrame, SwapOut, Clock, Chosen, SwapInRead, FindRoom, Kill, Answer, UnmapGarbage,
              Crash, IndInv, TypeOK, PagerType
<1>2. pageTable'[p] = pageTable[p]
  BY <1>0 DEF Take, FreeFrame, SwapOut, Clock, SwapInRead, FrameMap, FindRoom, Kill, UnmapGarbage, Crash,
              IndInv, TypeOK, FrameType
<1>3. UNCHANGED <<mem, disk, dirty>> /\ Live(p)' = Live(p)
  BY DEF Take, FreeFrame, SwapOut, Clock, SwapInRead, FindRoom, Kill, UnmapGarbage, Crash, Live
<1>4. \A g \in Page : Slots(p, g)' = Slots(p, g)
  <2>1. CASE UNCHANGED swapSpace
    BY <1>0, <2>1, SlotsStay
  <2>2. CASE SwapInRead(i)
    BY <2>2, ReadSlots
  <2> QED BY <2>1, <2>2 DEF Take, FreeFrame, SwapOut, Clock, FindRoom, Kill, UnmapGarbage, Crash
<1> QED BY <1>1, <1>2, <1>3, <1>4, CopiesStay

(* The buffer is filled from a dirty frame, which some page is in.         *)
LEMMA SaveCopies ==
  ASSUME NEW p, NEW i, Alone(p, i), IndInv, OneInv, Copies, Save(i)
  PROVE  Copies'
<1> USE DEF Save, FrameMap, Goto, procVars, pagerVars, frameVars, swapVars, hwVars
<1>0. /\ i \in Pagers /\ p \in Procs /\ pc'[i] = "writing" /\ pc[i] = "save"
      /\ buf'[i] = mem[frame[i]]
  BY DEF Alone, IndInv, TypeOK, PagerType
<1>t. pageTable'[p] = pageTable[p]
  BY <1>0, NamesAssumption DEF IndInv, TypeOK, FrameType
<1>1. ~Unmapped(frame[i])
  BY <1>0 DEF OneInv, SlotInv, TableInv, DataInv, Saving, DirtyKept, Turns, Alone
<1>2. Writing(i)'
  BY <1>0, <1>t, <1>1 DEF Writing, Unmapped, Alone
<1>3. ASSUME NEW g \in Page PROVE InStep(p, g)'
  <2>1. /\ Mapped(p, g)' = Mapped(p, g) /\ Slots(p, g)' = Slots(p, g)
        /\ Live(p)' = Live(p)
    BY <1>0, <1>t, SlotsStay DEF Mapped, Live
  <2>2. InStep(p, g)
    BY <1>0 DEF Copies
  <2> QED BY <1>t, <2>1, <2>2 DEF InStep
<1> QED BY <1>2, <1>3 DEF Copies, Alone

(* The slot of the page now holds what the frame does; no other page has   *)
(* this slot.                                                              *)
LEMMA WrittenCopies ==
  ASSUME NEW p, NEW i, Alone(p, i), IndInv, OneInv, Copies, Written(i)
  PROVE  Copies'
<1> USE DEF Written, Goto, FrameUnmap, procVars, pagerVars, frameVars, swapVars, hwVars
<1>0. i \in Pagers /\ p \in Procs /\ pc'[i] = "unmap" /\ pc[i] = "writing"
  BY DEF Alone, IndInv, TypeOK, PagerType
<1>t. pageTable'[p] = pageTable[p]
  BY <1>0, NamesAssumption DEF IndInv, TypeOK, FrameType
<1>1. PICK h \in Page : /\ pageTable[p][h] = frame[i] /\ Mapped(p, h)
                        /\ block[i] \in Slots(p, h)
  BY <1>0, WrittenPage
<1>2. Live(p) /\ block[i] \in Block
  BY <1>0, <1>1, Working DEF Slots
<1> SUFFICES ASSUME NEW g \in Page PROVE InStep(p, g)'
  BY <1>0, CopiesNext
<1> SUFFICES ASSUME Mapped(p, g), pageTable[p][g] \notin dirty', NEW b \in Slots(p, g)
             PROVE  disk'[b] = mem[pageTable[p][g]]
  BY <1>0, <1>t DEF InStep, Mapped, Slots, Occupied
<1>3. CASE b = block[i]
  <2>1. g = h
    BY <1>1, <1>3 DEF Slots, Occupied
  <2> QED BY <1>0, <1>1, <1>2, <1>3, <2>1 DEF Copies, Writing, IndInv, TypeOK, DataType
<1>4. CASE b # block[i]
  <2>1. g # h
    BY <1>1, <1>4 DEF Slots, Occupied, OneInv, SlotInv, SlotExclusive
  <2>2. pageTable[p][g] # frame[i]
    BY <1>0, <1>1, <2>1 DEF OneInv, SlotInv, TableInv, DataInv, FrameExclusive
  <2>3. pageTable[p][g] \notin dirty
    BY <2>2
  <2> QED BY <1>0, <1>2, <1>4, <2>3 DEF Copies, InStep, IndInv, TypeOK, DataType, Slots
<1> QED BY <1>3, <1>4

(* Pages are taken out of the frame.                                       *)
LEMMA UnmapCopies ==
  ASSUME NEW p, NEW i, Alone(p, i), IndInv, Copies, Unmap(i)
  PROVE  Copies'
<1> USE DEF Unmap, Goto, Evict, procVars, pagerVars, frameVars, swapVars, hwVars
<1>0. i \in Pagers /\ p \in Procs /\ pc'[i] = "in"
  BY DEF Alone, IndInv, TypeOK, PagerType
<1> SUFFICES ASSUME NEW g \in Page PROVE InStep(p, g)'
  BY <1>0, CopiesNext
<1>1. pageTable'[p][g] = pageTable[p][g] \/ pageTable'[p][g] = Absent
  BY <1>0
<1>2. Slots(p, g)' = Slots(p, g) /\ Live(p)' = Live(p)
  BY <1>0, SlotsStay DEF Live
<1>3. InStep(p, g)
  BY <1>0 DEF Copies
<1> HIDE DEF Evict
<1> QED BY <1>1, <1>2, <1>3 DEF InStep, Mapped

(* The frame that is filled from the disk is no page's yet.                *)
LEMMA ReadDoneCopies ==
  ASSUME NEW p, NEW i, Alone(p, i), IndInv, OneInv, Copies, ReadDone(i)
  PROVE  Copies'
<1> USE DEF ReadDone, FrameUnmap, Goto, procVars, pagerVars, frameVars, swapVars, hwVars
<1>0. /\ i \in Pagers /\ p \in Procs /\ pc'[i] = "map" /\ Unmapped(frame[i])
  BY DEF Alone, IndInv, TypeOK, PagerType, OneInv, TableInv, DataInv, Filling, Fills
<1>t. pageTable'[p] = pageTable[p]
  BY <1>0, NamesAssumption DEF IndInv, TypeOK, FrameType
<1> SUFFICES ASSUME NEW g \in Page PROVE InStep(p, g)'
  BY <1>0, CopiesNext
<1> SUFFICES ASSUME Live(p), Mapped(p, g), pageTable[p][g] \notin dirty, NEW b \in Slots(p, g)
             PROVE  disk[b] = mem'[pageTable[p][g]]
  BY <1>t DEF InStep, Live, Mapped, Slots, Occupied
<1>1. pageTable[p][g] # frame[i] /\ pageTable[p][g] \in Frame
  BY <1>0 DEF Unmapped, Mapped, IndInv, TypeOK, FrameType
<1>2. mem'[pageTable[p][g]] = mem[pageTable[p][g]]
  BY <1>1 DEF IndInv, TypeOK, DataType
<1> QED BY <1>0, <1>2 DEF Copies, InStep

(* Nor is the one that is cleared.                                         *)
LEMMA ZeroFillCopies ==
  ASSUME NEW p, NEW i, Alone(p, i), IndInv, OneInv, Copies, ZeroFill(i)
  PROVE  Copies'
<1> USE DEF ZeroFill, Clear, Goto, procVars, pagerVars, frameVars, swapVars, hwVars
<1>0. /\ i \in Pagers /\ p \in Procs /\ pc'[i] = "map" /\ Unmapped(frame[i])
  BY DEF Alone, IndInv, TypeOK, PagerType, OneInv, TableInv, DataInv, Filling, Fills
<1>t. pageTable'[p] = pageTable[p]
  BY <1>0, NamesAssumption DEF IndInv, TypeOK, FrameType
<1> SUFFICES ASSUME NEW g \in Page PROVE InStep(p, g)'
  BY <1>0, CopiesNext
<1> SUFFICES ASSUME Live(p), Mapped(p, g), pageTable[p][g] \notin dirty, NEW b \in Slots(p, g)
             PROVE  disk[b] = mem'[pageTable[p][g]]
  BY <1>t DEF InStep, Live, Mapped, Slots, Occupied
<1>1. pageTable[p][g] # frame[i] /\ pageTable[p][g] \in Frame
  BY <1>0 DEF Unmapped, Mapped, IndInv, TypeOK, FrameType
<1>2. mem'[pageTable[p][g]] = mem[pageTable[p][g]]
  BY <1>1 DEF IndInv, TypeOK, DataType
<1> QED BY <1>0, <1>2 DEF Copies, InStep

(* A page that has no slot is given one, or is told to quit.               *)
LEMMA ClaimCopies ==
  ASSUME NEW p, NEW i, Alone(p, i), IndInv, OneInv, Copies, Claim(i)
  PROVE  Copies'
<1> USE DEF Claim, Claimed, Goto, procVars, pagerVars, frameVars, swapVars, hwVars
<1>0. /\ i \in Pagers /\ p \in Procs /\ cur[i] = p /\ ~Mapped(p, fault[p].page)
      /\ pc'[i] # "writing"
  BY Working DEF Alone, IndInv, TypeOK, PagerType
<1> SUFFICES ASSUME NEW g \in Page PROVE InStep(p, g)'
  BY <1>0, CopiesNext
<1> SUFFICES ASSUME Live(p), Mapped(p, g), pageTable[p][g] \notin dirty, NEW b \in Slots(p, g)'
             PROVE  disk[b] = mem[pageTable[p][g]]
  BY DEF InStep, Live, Mapped
<1>1. g # fault[p].page
  BY <1>0
<1>2. b \in Slots(p, g)
  <2>1. CASE UNCHANGED swapSpace
    BY <1>0, <2>1, SlotsStay
  <2>2. ASSUME NEW c \in Block,
               swapSpace' = [swapSpace EXCEPT ![c] = Claimed(frame[i], p, fault[p].page)]
        PROVE  b \in Slots(p, g)
    BY <1>1, <2>2 DEF Slots, Occupied, IndInv, TypeOK, SwapType
  <2> QED BY <1>0, <2>1, <2>2 DEF IndInv, TypeOK, PagerType
<1> QED BY <1>0, <1>2 DEF Copies, InStep

(* A page that comes into core is dirty.                                   *)
LEMMA MapCopies ==
  ASSUME NEW p, NEW i, Alone(p, i), IndInv, OneInv, Copies, Map(i)
  PROVE  Copies'
<1> USE DEF Map, Answer, InUse, Goto, procVars, pagerVars, frameVars, swapVars, hwVars
<1>0. /\ i \in Pagers /\ p \in Procs /\ pc'[i] = "idle" /\ cur[i] = p
      /\ fault[p].page \in Page /\ frame[i] \in dirty
  BY Working DEF Alone, IndInv, TypeOK, PagerType, OneInv, TableInv, DataInv, Saving
<1> SUFFICES ASSUME NEW g \in Page PROVE InStep(p, g)'
  BY <1>0, CopiesNext
<1>1. pageTable'[p][g] = IF g = fault[p].page THEN frame[i] ELSE pageTable[p][g]
  BY <1>0 DEF IndInv, TypeOK, FrameType
<1>2. Slots(p, g)' = Slots(p, g) /\ Live(p)' = Live(p)
  BY <1>0, SlotsStay DEF Live
<1>3. InStep(p, g)
  BY <1>0 DEF Copies
<1> QED BY <1>0, <1>1, <1>2, <1>3 DEF InStep, Mapped

(* Loads, faults and the beginning of a quit.                              *)
LEMMA AccessCopies ==
  ASSUME NEW p, NEW i, Alone(p, i), IndInv, OneInv, Copies,
         (\E g \in Page : Load(p, g) \/ Fault(p, g)) \/ Resume(p) \/ Quit(p)
  PROVE  Copies'
<1> USE DEF Load, Fault, Resume, Quit, procVars, pagerVars, frameVars, swapVars, hwVars
<1>0. p \in Procs /\ i \in Pagers /\ pc[i] = "idle"
  BY Waiting DEF Alone, Owed
<1>1. Live(p)' = Live(p)
  BY <1>0 DEF Live, IndInv, TypeOK, ProcType
<1>2. UNCHANGED <<mem, disk, dirty, pageTable, pc, swapSpace>>
  OBVIOUS
<1>3. \A g \in Page : Slots(p, g)' = Slots(p, g)
  BY <1>0, <1>2, SlotsStay
<1> QED BY <1>0, <1>1, <1>2, <1>3, CopiesStay

(* The page that is stored to is dirty; no other is in its frame.          *)
LEMMA StoreCopies ==
  ASSUME NEW p, NEW i, Alone(p, i), IndInv, OneInv, Copies,
         NEW g \in Page, NEW v \in Stamps(p, g), Store(p, g, v)
  PROVE  Copies'
<1> USE DEF Store, procVars, pagerVars, frameVars, swapVars
<1>0. p \in Procs /\ i \in Pagers /\ pc[i] = "idle" /\ pc'[i] = "idle"
  BY Waiting DEF Alone, Owed
<1> SUFFICES ASSUME NEW h \in Page PROVE InStep(p, h)'
  BY <1>0, CopiesNext
<1> SUFFICES ASSUME Live(p), Mapped(p, h), pageTable[p][h] \notin dirty', NEW b \in Slots(p, h)
             PROVE  disk[b] = mem'[pageTable[p][h]]
  BY DEF InStep, Live, Mapped, Slots, Occupied
<1>1. pageTable[p][h] # pageTable[p][g] /\ pageTable[p][h] \notin dirty
  OBVIOUS
<1>2. mem'[pageTable[p][h]] = mem[pageTable[p][h]]
  BY <1>0, <1>1 DEF IndInv, TypeOK, DataType, FrameType, Mapped
<1> QED BY <1>0, <1>1, <1>2 DEF Copies, InStep

(* The pages of a process that is gone, or that begins, are in no frame.   *)
LEMMA EndCopies ==
  ASSUME NEW p, NEW i, Alone(p, i), IndInv, OneInv, Copies,
         SwapFreeAll(p) \/ FrameFreeAll(p) \/ Spawn(p)
  PROVE  Copies'
<1> USE DEF SwapFreeAll, FrameFreeAll, Spawn, procVars, pagerVars, frameVars, swapVars, hwVars
<1>0. p \in Procs /\ i \in Pagers /\ pc[i] = "idle" /\ pc'[i] = "idle"
  BY Waiting DEF Alone, Owed
<1>1. ~Live(p)' \/ pageTable'[p] = EmptyTable
  BY <1>0 DEF Live, IndInv, TypeOK, ProcType, DeadEmpty
<1>2. \A g \in Page : InStep(p, g)'
  BY <1>0, <1>1 DEF InStep, Mapped, EmptyTable
<1> QED BY <1>0, <1>2, CopiesNext

(* The actions together.                                                   *)
LEMMA StepCopies ==
  ASSUME NEW p, NEW i, Alone(p, i), IndInv, OneInv, Copies, [Next]_vars
  PROVE  Copies'
<1>1. CASE UNCHANGED vars
  <2>1. UNCHANGED <<proc, pc, frame, buf, pageTable, swapSpace, dirty, mem, disk>>
    BY <1>1 DEF vars, procVars, pagerVars, frameVars, swapVars, hwVars
  <2>2. \A g \in Page : InStep(p, g)' = InStep(p, g)
    BY <2>1 DEF InStep, Live, Mapped, Slots, Occupied
  <2>3. Writing(i)' = Writing(i)
    BY <2>1 DEF Writing, Unmapped
  <2> QED BY <2>2, <2>3 DEF Copies, Alone
<1>2. CASE PagerNext(i)
  BY <1>2, NoAssertionFails, QuietCopies, SaveCopies, WrittenCopies, UnmapCopies,
     ReadDoneCopies, ClaimCopies, ZeroFillCopies, MapCopies
     DEF PagerNext, SwapOutNext, SwapInNext
<1>3. CASE ProcNext(p)
  BY <1>3, AccessCopies, StoreCopies, EndCopies DEF ProcNext, Access, Leave
<1> QED BY <1>1, <1>2, <1>3 DEF Next, Alone

(* Initially nothing is mapped.                                            *)
LEMMA InitCopies ==
  ASSUME NEW p, NEW i, Alone(p, i), Init
  PROVE  Copies
BY DEF Init, Alone, Copies, InStep, Writing, Mapped, EmptyTable

(* The three invariants hold in every reachable state.                     *)
THEOREM CopiesInductive ==
  ASSUME \E p, i : Alone(p, i)
  PROVE  Spec => [](IndInv /\ OneInv /\ Copies)
<1>1. Init => Copies
  BY InitCopies
<1>2. IndInv /\ OneInv /\ Copies /\ [Next]_vars => Copies'
  BY StepCopies
<1>3. Spec => [](IndInv /\ OneInv)
  BY OneInductive DEF OnePager, Undisturbed, Alone
<1> QED BY <1>1, <1>2, <1>3, PTL DEF Spec
-----------------------------------------------------------------------------
(* Paging implements private memory.                                       *)

(* What a page holds, case by case.                                        *)
Filled(p, i, g, label) == pc[i] = label /\ Serving(i, p, g)
Holds(p, i, g, x) ==
  /\ Mapped(p, g) => x = mem[pageTable[p][g]]
  /\ ~Mapped(p, g) /\ Filled(p, i, g, "map") => x = mem[frame[i]]
  /\ ~Mapped(p, g) /\ ~Filled(p, i, g, "map") =>
       /\ Filled(p, i, g, "zero") \/ Slots(p, g) = {} => x = Zero
       /\ ~Filled(p, i, g, "zero") => \A b \in Slots(p, g) : x = disk[b]

(* A page has one slot.                                                    *)
LEMMA OneSlot ==
  ASSUME SlotExclusive, NEW p, NEW g, NEW b \in Slots(p, g), NEW c \in Slots(p, g)
  PROVE  b = c
BY DEF SlotExclusive, Slots, Occupied

(* These are the cases of Visible.                                         *)
LEMMA VisibleHolds ==
  ASSUME NEW p, NEW i, Alone(p, i), NEW g \in Page
  PROVE  SlotExclusive => Holds(p, i, g, Visible(p, g))
<1> SUFFICES ASSUME SlotExclusive PROVE Holds(p, i, g, Visible(p, g))
  OBVIOUS
<1> DEFINE at(label) == {j \in Pagers : pc[j] = label /\ Serving(j, p, g)}
<1>1. \A label : at(label) = IF Filled(p, i, g, label) THEN {i} ELSE {}
  BY DEF Alone, Filled
<1>2. Filled(p, i, g, "map") => (CHOOSE j \in at("map") : TRUE) = i
  BY <1>1
<1>3. \A b \in Slots(p, g) : (CHOOSE c \in Slots(p, g) : TRUE) = b
  BY OneSlot
<1>4. Visible(p, g) =
        IF Mapped(p, g) THEN mem[pageTable[p][g]]
        ELSE IF at("map") # {} THEN mem[frame[CHOOSE j \in at("map") : TRUE]]
        ELSE IF at("zero") # {} \/ Slots(p, g) = {} THEN Zero
        ELSE disk[CHOOSE b \in Slots(p, g) : TRUE]
  BY DEF Visible
<1> HIDE DEF at
<1> QED BY <1>1, <1>2, <1>3, <1>4 DEF Holds

(* To show what a page holds after a step it is enough to show the case.   *)
LEMMA VisibleNext ==
  ASSUME NEW p, NEW i, Alone(p, i), NEW g \in Page, SlotInv', NEW x, Holds(p, i, g, x)'
  PROVE  Visible(p, g)' = x
<1>1. (SlotExclusive => Holds(p, i, g, Visible(p, g)))'
  BY VisibleHolds, PTL
<1> QED BY <1>1 DEF Holds, SlotInv

Shows(p) == \A g \in Page : Visible(p, g)' = Visible(p, g)

(* A step that leaves the pages where they are.                            *)
LEMMA ShowsSame ==
  ASSUME NEW p, NEW i, Alone(p, i), IndInv, SlotInv, SlotInv', pageTable'[p] = pageTable[p],
         UNCHANGED <<mem, disk>>, \A g \in Page : Slots(p, g)' = Slots(p, g),
         \A g \in Page : /\ Filled(p, i, g, "map")' = Filled(p, i, g, "map")
                         /\ Filled(p, i, g, "zero")' = Filled(p, i, g, "zero"),
         pc[i] = "map" => UNCHANGED frame
  PROVE  Shows(p)
<1> SUFFICES ASSUME NEW g \in Page PROVE Visible(p, g)' = Visible(p, g)
  BY DEF Shows
<1>1. PICK x : x = Visible(p, g)
  OBVIOUS
<1>2. Holds(p, i, g, x)
  BY <1>1, VisibleHolds DEF SlotInv
<1>3. Filled(p, i, g, "map") => pc[i] = "map"
  BY DEF Filled
<1>4. Mapped(p, g)' = Mapped(p, g) /\ pageTable'[p][g] = pageTable[p][g]
  BY DEF Mapped
<1>5. Slots(p, g)' = Slots(p, g)
  OBVIOUS
<1>6. Holds(p, i, g, x)'
  BY <1>2, <1>3, <1>4, <1>5 DEF Holds
<1> QED BY <1>1, <1>6, VisibleNext

(* The steps of a pager that touch no page, and its end of the machine.    *)
LEMMA QuietShows ==
  ASSUME NEW p, NEW i, Alone(p, i), IndInv, SlotInv, SlotInv',
         Take(i) \/ FreeFrame(i) \/ SwapOut(i) \/ Clock(i) \/ Save(i) \/ SwapInRead(i)
           \/ FindRoom(i) \/ Kill(i) \/ UnmapGarbage(i)
  PROVE  Shows(p)
<1> USE DEF Goto, procVars, pagerVars, frameVars, swapVars, hwVars
<1>0. p \in Procs /\ i \in Pagers /\ p # i
  BY NamesAssumption DEF Alone
<1>1. pc[i] \notin {"map", "zero"} /\ pc'[i] \notin {"map", "zero"}
  BY <1>0 DEF Take, FreeFrame, SwapOut, Clock, Chosen, Save, SwapInRead, FindRoom, Kill, Answer,
              UnmapGarbage, Crash, IndInv, TypeOK, PagerType
<1>2. pageTable'[p] = pageTable[p]
  BY <1>0 DEF Take, FreeFrame, SwapOut, Clock, Save, SwapInRead, FrameMap, FindRoom, Kill, UnmapGarbage,
              Crash, IndInv, TypeOK, FrameType
<1>3. UNCHANGED <<mem, disk>>
  BY DEF Take, FreeFrame, SwapOut, Clock, Save, SwapInRead, FindRoom, Kill, UnmapGarbage, Crash
<1>4. \A g \in Page : Slots(p, g)' = Slots(p, g)
  <2>1. CASE UNCHANGED swapSpace
    BY <1>0, <2>1, SlotsStay
  <2>2. CASE SwapInRead(i)
    BY <2>2, ReadSlots
  <2> QED BY <2>1, <2>2 DEF Take, FreeFrame, SwapOut, Clock, Save, FindRoom, Kill, UnmapGarbage, Crash
<1> QED BY <1>1, <1>2, <1>3, <1>4, ShowsSame DEF Filled

(* A write to the slot of a mapped page: it is read from its frame.        *)
LEMMA WrittenShows ==
  ASSUME NEW p, NEW i, Alone(p, i), IndInv, SlotInv, SlotInv', OneInv, Copies, Written(i)
  PROVE  Shows(p)
<1> USE DEF Written, Goto, FrameUnmap, procVars, pagerVars, frameVars, swapVars, hwVars
<1>0. i \in Pagers /\ p \in Procs /\ pc'[i] = "unmap" /\ pc[i] = "writing"
  BY DEF Alone, IndInv, TypeOK, PagerType
<1>t. pageTable'[p] = pageTable[p]
  BY <1>0, NamesAssumption DEF IndInv, TypeOK, FrameType
<1>3. PICK h \in Page : Mapped(p, h) /\ block[i] \in Slots(p, h)
  BY <1>0, WrittenPage
<1> SUFFICES ASSUME NEW g \in Page PROVE Visible(p, g)' = Visible(p, g)
  BY DEF Shows
<1>5. PICK x : x = Visible(p, g)
  OBVIOUS
<1>6. Holds(p, i, g, x)
  BY <1>5, VisibleHolds DEF SlotInv
<1>7. ~Mapped(p, g) => \A b \in Slots(p, g) : disk'[b] = disk[b]
  <2> SUFFICES ASSUME ~Mapped(p, g), NEW b \in Slots(p, g) PROVE disk'[b] = disk[b]
    OBVIOUS
  <2>1. b # block[i] /\ b \in Block
    BY <1>3 DEF Slots, Occupied
  <2> QED BY <2>1 DEF IndInv, TypeOK, DataType
<1>8. Mapped(p, g)' = Mapped(p, g) /\ pageTable'[p][g] = pageTable[p][g]
  BY <1>t DEF Mapped
<1>9. Slots(p, g)' = Slots(p, g)
  BY <1>0, SlotsStay
<1>10. Holds(p, i, g, x)'
  BY <1>0, <1>6, <1>7, <1>8, <1>9 DEF Holds, Filled
<1> QED BY <1>5, <1>10, VisibleNext

(* A page that is taken out of its frame is the same on the disk.          *)
LEMMA UnmapShows ==
  ASSUME NEW p, NEW i, Alone(p, i), IndInv, SlotInv, SlotInv', OneInv, Copies, Unmap(i)
  PROVE  Shows(p)
<1> USE DEF Unmap, Goto, Evict, procVars, pagerVars, frameVars, swapVars, hwVars
<1>0. /\ i \in Pagers /\ p \in Procs /\ pc'[i] = "in" /\ pc[i] = "unmap"
      /\ Live(p) /\ frame[i] \notin dirty
  BY Working DEF Alone, IndInv, TypeOK, PagerType, OneInv, TableInv, DataInv, Saving
<1> SUFFICES ASSUME NEW g \in Page PROVE Visible(p, g)' = Visible(p, g)
  BY DEF Shows
<1>1. PICK x : x = Visible(p, g)
  OBVIOUS
<1>2. Holds(p, i, g, x)
  BY <1>1, VisibleHolds DEF SlotInv
<1>3. Slots(p, g)' = Slots(p, g)
  BY <1>0, SlotsStay
<1>4. Holds(p, i, g, x)'
  <2>1. CASE pageTable'[p][g] = pageTable[p][g]
    BY <1>0, <1>2, <1>3, <2>1 DEF Holds, Filled, Mapped
  <2>2. CASE pageTable'[p][g] # pageTable[p][g]
    <3>1. pageTable[p][g] = frame[i] /\ pageTable'[p][g] = Absent /\ Mapped(p, g)
      BY <1>0, <2>2 DEF Mapped
    <3>2. Slots(p, g) # {} /\ \A b \in Slots(p, g) : disk[b] = mem[frame[i]]
      BY <1>0, <3>1 DEF Copies, InStep, SlotInv, SlotExclusive
    <3> QED BY <1>0, <1>2, <1>3, <3>1, <3>2 DEF Holds, Filled, Mapped
  <2> QED BY <2>1, <2>2
<1> QED BY <1>1, <1>4, VisibleNext

(* A page that has been read is in the frame to be mapped.                 *)
LEMMA ReadDoneShows ==
  ASSUME NEW p, NEW i, Alone(p, i), IndInv, SlotInv, SlotInv', OneInv, Copies, ReadDone(i)
  PROVE  Shows(p)
<1> USE DEF ReadDone, Goto, FrameUnmap, procVars, pagerVars, frameVars, swapVars, hwVars
<1>0. /\ i \in Pagers /\ p \in Procs /\ pc'[i] = "map" /\ pc[i] = "reading" /\ cur[i] = p
      /\ Unmapped(frame[i]) /\ frame[i] \in Frame /\ block[i] \in Slots(p, fault[p].page)
      /\ ~Mapped(p, fault[p].page)
  BY Working DEF Alone, IndInv, TypeOK, PagerType, OneInv, TableInv, DataInv, Filling, Fills, Places
<1>t. pageTable'[p] = pageTable[p]
  BY <1>0, NamesAssumption DEF IndInv, TypeOK, FrameType
<1>m. mem'[frame[i]] = disk[block[i]] /\ \A f \in Frame : f # frame[i] => mem'[f] = mem[f]
  BY <1>0 DEF IndInv, TypeOK, DataType
<1> SUFFICES ASSUME NEW g \in Page PROVE Visible(p, g)' = Visible(p, g)
  BY DEF Shows
<1>1. PICK x : x = Visible(p, g)
  OBVIOUS
<1>2. Holds(p, i, g, x)
  BY <1>1, VisibleHolds DEF SlotInv
<1>3. Slots(p, g)' = Slots(p, g)
  BY <1>0, SlotsStay
<1>4. Mapped(p, g)' = Mapped(p, g) /\ pageTable'[p][g] = pageTable[p][g]
  BY <1>t DEF Mapped
<1>5. Mapped(p, g) => mem'[pageTable[p][g]] = mem[pageTable[p][g]]
  BY <1>0, <1>m DEF Unmapped, Mapped, IndInv, TypeOK, FrameType
<1>6. Holds(p, i, g, x)'
  <2>1. CASE g = fault[p].page
    BY <1>0, <1>2, <1>3, <1>4, <1>m, <2>1 DEF Holds, Filled, Serving
  <2>2. CASE g # fault[p].page
    BY <1>0, <1>2, <1>3, <1>4, <1>5, <2>2 DEF Holds, Filled, Serving
  <2> QED BY <2>1, <2>2
<1> QED BY <1>1, <1>6, VisibleNext

(* A page that was never used is blank before and after it has a slot.     *)
LEMMA ClaimShows ==
  ASSUME NEW p, NEW i, Alone(p, i), IndInv, SlotInv, SlotInv', OneInv, Claim(i)
  PROVE  Shows(p)
<1> USE DEF Claim, Claimed, Goto, procVars, pagerVars, frameVars, swapVars, hwVars
<1>0. /\ i \in Pagers /\ p \in Procs /\ pc[i] = "claim" /\ cur[i] = p
      /\ fault[p].page \in Page /\ ~Mapped(p, fault[p].page)
      /\ Slots(p, fault[p].page) = {} /\ pc'[i] \in {"zero", "kill"}
      /\ block[i] # -1 => block[i] \in Room
  BY Working DEF Alone, IndInv, TypeOK, PagerType, SlotInv, Claiming, Room
<1> SUFFICES ASSUME NEW g \in Page PROVE Visible(p, g)' = Visible(p, g)
  BY DEF Shows
<1>1. PICK x : x = Visible(p, g)
  OBVIOUS
<1>2. Holds(p, i, g, x)
  BY <1>1, VisibleHolds DEF SlotInv
<1>3. Mapped(p, g)' = Mapped(p, g)
  BY DEF Mapped
<1>4. CASE UNCHANGED swapSpace /\ pc'[i] = "kill"
  <2>1. Slots(p, g)' = Slots(p, g)
    BY <1>0, <1>4, SlotsStay
  <2>2. Holds(p, i, g, x)'
    BY <1>0, <1>2, <1>3, <1>4, <2>1 DEF Holds, Filled, Serving
  <2> QED BY <1>1, <2>2, VisibleNext
<1>5. ASSUME NEW b \in Room, pc'[i] = "zero",
             swapSpace' = [swapSpace EXCEPT ![b] = Claimed(frame[i], p, fault[p].page)]
      PROVE  Holds(p, i, g, x)'
  <2>s. /\ swapSpace'[b] = Claimed(frame[i], p, fault[p].page) /\ b \in Block
        /\ \A c \in Block : c # b => swapSpace'[c] = swapSpace[c]
    BY <1>5 DEF IndInv, TypeOK, SwapType, Room
  <2>1. CASE g = fault[p].page
    BY <1>0, <1>2, <1>3, <1>5, <2>1 DEF Holds, Filled, Serving
  <2>2. CASE g # fault[p].page
    <3>1. Slots(p, g)' = Slots(p, g)
      BY <1>5, <2>s, <2>2 DEF Slots, Occupied, Room
    <3> QED BY <1>0, <1>2, <1>3, <1>5, <2>2, <3>1 DEF Holds, Filled, Serving
  <2> QED BY <2>1, <2>2
<1>6. \/ \E b \in Room :
            /\ pc'[i] = "zero"
            /\ swapSpace' = [swapSpace EXCEPT ![b] = Claimed(frame[i], p, fault[p].page)]
      \/ UNCHANGED swapSpace /\ pc'[i] = "kill"
  <2>1. pc' = [pc EXCEPT ![i] = "zero"] => pc'[i] = "zero"
    BY <1>0 DEF IndInv, TypeOK, PagerType
  <2>2. pc' = [pc EXCEPT ![i] = "kill"] => pc'[i] = "kill"
    BY <1>0 DEF IndInv, TypeOK, PagerType
  <2> QED BY <1>0, <2>1, <2>2
<1> QED BY <1>1, <1>4, <1>5, <1>6, VisibleNext

(* The frame that is cleared is the blank page's.                          *)
LEMMA ZeroFillShows ==
  ASSUME NEW p, NEW i, Alone(p, i), IndInv, SlotInv, SlotInv', OneInv, Copies, ZeroFill(i)
  PROVE  Shows(p)
<1> USE DEF ZeroFill, Clear, Goto, procVars, pagerVars, frameVars, swapVars, hwVars
<1>0. /\ i \in Pagers /\ p \in Procs /\ pc'[i] = "map" /\ pc[i] = "zero" /\ cur[i] = p
      /\ Unmapped(frame[i]) /\ frame[i] \in Frame /\ ~Mapped(p, fault[p].page)
  BY Working DEF Alone, IndInv, TypeOK, PagerType, OneInv, TableInv, DataInv, Filling, Fills, Places
<1>t. pageTable'[p] = pageTable[p]
  BY <1>0, NamesAssumption DEF IndInv, TypeOK, FrameType
<1>m. mem'[frame[i]] = Zero /\ \A f \in Frame : f # frame[i] => mem'[f] = mem[f]
  BY <1>0 DEF IndInv, TypeOK, DataType
<1> SUFFICES ASSUME NEW g \in Page PROVE Visible(p, g)' = Visible(p, g)
  BY DEF Shows
<1>1. PICK x : x = Visible(p, g)
  OBVIOUS
<1>2. Holds(p, i, g, x)
  BY <1>1, VisibleHolds DEF SlotInv
<1>3. Slots(p, g)' = Slots(p, g)
  BY <1>0, SlotsStay
<1>4. Mapped(p, g)' = Mapped(p, g) /\ pageTable'[p][g] = pageTable[p][g]
  BY <1>t DEF Mapped
<1>5. Mapped(p, g) => mem'[pageTable[p][g]] = mem[pageTable[p][g]]
  BY <1>0, <1>m DEF Unmapped, Mapped, IndInv, TypeOK, FrameType
<1>6. Holds(p, i, g, x)'
  <2>1. CASE g = fault[p].page
    BY <1>0, <1>2, <1>3, <1>4, <1>m, <2>1 DEF Holds, Filled, Serving
  <2>2. CASE g # fault[p].page
    BY <1>0, <1>2, <1>3, <1>4, <1>5, <2>2 DEF Holds, Filled, Serving
  <2> QED BY <2>1, <2>2
<1> QED BY <1>1, <1>6, VisibleNext

(* The page is mapped to the frame it was filled in.                       *)
LEMMA MapShows ==
  ASSUME NEW p, NEW i, Alone(p, i), IndInv, SlotInv, SlotInv', OneInv, Copies, Map(i)
  PROVE  Shows(p)
<1> USE DEF Map, Answer, Goto, procVars, pagerVars, frameVars, swapVars, hwVars
<1>0. /\ i \in Pagers /\ p \in Procs /\ pc'[i] = "idle" /\ pc[i] = "map" /\ cur[i] = p
      /\ fault[p].page \in Page /\ ~Mapped(p, fault[p].page)
  BY Working DEF Alone, IndInv, TypeOK, PagerType
<1>f. frame[i] \in Frame /\ frame[i] # Absent
  BY <1>0, SizesAssumption DEF IndInv, Places, Frame, Absent
<1>t. \A g \in Page : pageTable'[p][g] = IF g = fault[p].page THEN frame[i] ELSE pageTable[p][g]
  BY <1>0, <1>f DEF IndInv, TypeOK, FrameType
<1> SUFFICES ASSUME NEW g \in Page PROVE Visible(p, g)' = Visible(p, g)
  BY DEF Shows
<1>1. PICK x : x = Visible(p, g)
  OBVIOUS
<1>2. Holds(p, i, g, x)
  BY <1>1, VisibleHolds DEF SlotInv
<1>3. Slots(p, g)' = Slots(p, g)
  BY <1>0, SlotsStay
<1>4. Holds(p, i, g, x)'
  <2>1. CASE g = fault[p].page
    BY <1>0, <1>f, <1>t, <1>2, <2>1 DEF Holds, Filled, Serving, Mapped
  <2>2. CASE g # fault[p].page
    BY <1>0, <1>t, <1>2, <1>3, <2>2 DEF Holds, Filled, Serving, Mapped
  <2> QED BY <2>1, <2>2
<1> QED BY <1>1, <1>4, VisibleNext
-----------------------------------------------------------------------------
(* The image of the process.                                               *)

Picture == [q \in Procs |-> Image(q)]

(* A step that does not show.                                              *)
LEMMA PictureStays ==
  ASSUME NEW p, NEW i, Alone(p, i), Live(p)' = Live(p), Live(p) => Shows(p)
  PROVE  UNCHANGED Picture
<1>1. Image(p)' = Image(p)
  BY DEF Image, Shows
<1> QED BY <1>1 DEF Picture, Alone

(* A live process finds data in its pages, and Gone is no image of one.    *)
LEMMA LiveImage ==
  ASSUME NEW p, NEW i, Alone(p, i), IndInv, SlotInv, Live(p)
  PROVE  Picture[p] = [g \in Page |-> Visible(p, g)] /\ Picture[p] # Gone
<1>1. Picture[p] = [g \in Page |-> Visible(p, g)]
  BY DEF Picture, Image, Alone
<1>2. Visible(p, 0) \in Data
  <2>1. PICK x : x = Visible(p, 0)
    OBVIOUS
  <2>2. Holds(p, i, 0, x)
    BY <2>1, VisibleHolds, Sizes DEF SlotInv
  <2>3. p \in Procs /\ i \in Pagers
    BY DEF Alone
  <2>4. Zero \in Data /\ Slots(p, 0) \subseteq Block
    BY DEF Data, Slots
  <2>5. Mapped(p, 0) => pageTable[p][0] \in Frame
    BY <2>3, Sizes DEF Mapped, IndInv, TypeOK, FrameType
  <2>6. Filled(p, i, 0, "map") => frame[i] \in Frame
    BY <2>3 DEF Filled, IndInv, Places
  <2>7. (\A f \in Frame : mem[f] \in Data) /\ (\A b \in Block : disk[b] \in Data)
    BY DEF IndInv, TypeOK, DataType
  <2> QED BY <2>1, <2>2, <2>4, <2>5, <2>6, <2>7 DEF Holds
<1>3. <<None>> \notin Data
  BY DEF Data, Zero, Stamps
<1>4. Gone[0] = <<None>> /\ Picture[p][0] = Visible(p, 0)
  BY <1>1, Sizes DEF Gone
<1> QED BY <1>1, <1>2, <1>3, <1>4

(* Loads, faults and the beginning of a quit do not show.                  *)
LEMMA AccessShows ==
  ASSUME NEW p, NEW i, Alone(p, i), IndInv, SlotInv, SlotInv', OneInv,
         (\E g \in Page : Load(p, g) \/ Fault(p, g)) \/ Resume(p) \/ Quit(p)
  PROVE  Live(p)' = Live(p) /\ Shows(p)
<1> USE DEF Load, Fault, Resume, Quit, procVars, pagerVars, frameVars, swapVars, hwVars
<1>0. p \in Procs /\ i \in Pagers /\ pc[i] = "idle"
  BY Waiting DEF Alone, Owed
<1>1. Live(p)' = Live(p)
  BY <1>0 DEF Live, IndInv, TypeOK, ProcType
<1>2. UNCHANGED <<mem, disk, pageTable, pc, swapSpace>>
  OBVIOUS
<1>3. \A g \in Page : Slots(p, g)' = Slots(p, g)
  BY <1>0, <1>2, SlotsStay
<1>4. \A g \in Page : /\ Filled(p, i, g, "map")' = Filled(p, i, g, "map")
                      /\ Filled(p, i, g, "zero")' = Filled(p, i, g, "zero")
  BY <1>0, <1>2 DEF Filled
<1> QED BY <1>0, <1>1, <1>2, <1>3, <1>4, ShowsSame

(* A store shows in its page and in no other.                              *)
LEMMA StoreShows ==
  ASSUME NEW p, NEW i, Alone(p, i), IndInv, SlotInv, SlotInv', OneInv,
         NEW g \in Page, NEW v \in Stamps(p, g), Store(p, g, v)
  PROVE  Memory!Store(p, g, v)
<1> USE DEF Store, procVars, pagerVars, frameVars, swapVars, hwVars
<1>0. /\ p \in Procs /\ i \in Pagers /\ pc[i] = "idle"
      /\ pageTable[p][g] \in Frame /\ Mapped(p, g) /\ Live(p) /\ Live(p)'
  BY Waiting DEF Alone, Owed, Live, Mapped, IndInv, TypeOK, FrameType
<1>1. Visible(p, g)' = v
  <2>1. mem'[pageTable[p][g]] = v
    BY <1>0 DEF IndInv, TypeOK, DataType
  <2>2. Holds(p, i, g, v)'
    BY <1>0, <2>1 DEF Holds, Mapped
  <2> QED BY <2>2, VisibleNext
<1>2. ASSUME NEW h \in Page, h # g PROVE Visible(p, h)' = Visible(p, h)
  <2>1. PICK x : x = Visible(p, h)
    OBVIOUS
  <2>2. Holds(p, i, h, x)
    BY <2>1, VisibleHolds DEF SlotInv
  <2>3. Slots(p, h)' = Slots(p, h) /\ Mapped(p, h)' = Mapped(p, h)
    BY <1>0, SlotsStay DEF Mapped
  <2>4. Mapped(p, h) => mem'[pageTable[p][h]] = mem[pageTable[p][h]]
    BY <1>0, <1>2 DEF OneInv, SlotInv, TableInv, DataInv, FrameExclusive, Mapped, IndInv, TypeOK, DataType, FrameType
  <2>5. Holds(p, i, h, x)'
    BY <1>0, <2>2, <2>3, <2>4 DEF Holds, Filled
  <2> QED BY <2>1, <2>5, VisibleNext
<1>3. Picture[p] = [h \in Page |-> Visible(p, h)] /\ Picture[p] # Gone
  BY <1>0, LiveImage
<1>4. Picture'[p] = [h \in Page |-> Visible(p, h)']
  BY <1>0 DEF Picture, Image
<1>5. Picture'[p] = [Picture[p] EXCEPT ![g] = v]
  BY <1>1, <1>2, <1>3, <1>4
<1>6. Picture' = [Picture EXCEPT ![p][g] = v]
  <2>1. Picture = [q \in Procs |-> Picture[q]] /\ Picture' = [q \in Procs |-> Picture'[q]]
    BY DEF Picture
  <2> QED BY <1>0, <1>5, <2>1 DEF Alone
<1> QED BY <1>3, <1>6 DEF Memory!Store, Picture

(* The pages are gone with their slots.                                    *)
LEMMA SwapFreeAllShows ==
  ASSUME NEW p, NEW i, Alone(p, i), IndInv, SlotInv, SwapFreeAll(p)
  PROVE  Memory!Quit(p)
<1>1. p \in Procs /\ Live(p) /\ ~Live(p)'
  BY DEF SwapFreeAll, Live, Alone, IndInv, TypeOK, ProcType
<1>2. Picture[p] # Gone
  BY <1>1, LiveImage
<1>3. Picture'[p] = Gone /\ DOMAIN Picture = Procs
  BY <1>1 DEF Picture, Image, Gone
<1>4. Picture' = [Picture EXCEPT ![p] = Gone]
  <2>1. Picture = [q \in Procs |-> Picture[q]] /\ Picture' = [q \in Procs |-> Picture'[q]]
    BY DEF Picture
  <2> QED BY <1>1, <1>3, <2>1 DEF Alone
<1> QED BY <1>2, <1>4 DEF Memory!Quit, Picture

(* The next process finds blank pages.                                     *)
LEMMA SpawnShows ==
  ASSUME NEW p, NEW i, Alone(p, i), IndInv, SlotInv, SlotInv', OneInv, Spawn(p)
  PROVE  Memory!Start(p)
<1> USE DEF Spawn, procVars, pagerVars, frameVars, swapVars, hwVars
<1>1. /\ p \in Procs /\ i \in Pagers /\ ~Live(p) /\ Live(p)' /\ pc[i] = "idle"
      /\ pageTable[p] = EmptyTable
  BY Waiting DEF Live, Alone, IndInv, TypeOK, ProcType, Owed, DeadEmpty
<1>2. \A g \in Page : Slots(p, g) = {} /\ ~Mapped(p, g)
  BY <1>1 DEF SlotInv, SlotExclusive, Slots, Occupied, Mapped, EmptyTable
<1>3. ASSUME NEW g \in Page PROVE Visible(p, g)' = Zero
  <2>1. (Slots(p, g) = {} /\ ~Mapped(p, g))'
    BY <1>1, <1>2, SlotsStay DEF Mapped
  <2>2. \A x : x = Zero => Holds(p, i, g, x)'
    BY <1>1, <2>1 DEF Holds, Filled
  <2> QED BY <2>2, VisibleNext DEF Zero
<1>4. Picture[p] = Gone
  BY <1>1 DEF Picture, Image
<1>5. Picture'[p] = Memory!Blank
  BY <1>1, <1>3 DEF Picture, Image, Memory!Blank
<1>6. Picture' = [Picture EXCEPT ![p] = Memory!Blank]
  <2>1. Picture = [q \in Procs |-> Picture[q]] /\ Picture' = [q \in Procs |-> Picture'[q]]
    BY DEF Picture
  <2> QED BY <1>1, <1>5, <2>1 DEF Alone
<1> QED BY <1>4, <1>6 DEF Memory!Start, Picture

(* Initially all pages are blank.                                          *)
LEMMA InitShows ==
  ASSUME NEW p, NEW i, Alone(p, i), Init
  PROVE  Memory!Init
<1>1. p \in Procs /\ i \in Pagers /\ Live(p) /\ pc[i] = "idle"
  BY DEF Init, Live, Alone
<1>2. \A g \in Page : Slots(p, g) = {} /\ ~Mapped(p, g)
  BY <1>1 DEF Init, Slots, FreeSlot, Mapped, EmptyTable
<1>3. ASSUME NEW g \in Page PROVE Visible(p, g) = Zero
  <2>1. Holds(p, i, g, Visible(p, g))
    BY VisibleHolds, InitSlots DEF SlotInv
  <2> QED BY <1>1, <1>2, <2>1 DEF Holds, Filled
<1> QED BY <1>1, <1>3 DEF Memory!Init, Memory!Blank, Image, Alone

(* Every step is one of private memory, or does not show.                  *)
LEMMA StepShows ==
  ASSUME NEW p, NEW i, Alone(p, i), IndInv, SlotInv, SlotInv', OneInv, Copies, [Next]_vars
  PROVE  Memory!Next \/ UNCHANGED Picture
<1>0. p \in Procs /\ i \in Pagers
  BY DEF Alone
<1>1. CASE UNCHANGED vars
  <2>1. Live(p)' = Live(p) /\ Shows(p)
    BY <1>1 DEF vars, procVars, pagerVars, frameVars, swapVars, hwVars, Live, Shows, Visible,
                Mapped, Serving, Slots, Occupied
  <2> QED BY <2>1, PictureStays
<1>2. CASE PagerNext(i)
  <2>1. Shows(p)
    BY <1>2, NoAssertionFails, QuietShows, WrittenShows, UnmapShows, ReadDoneShows,
       ClaimShows, ZeroFillShows, MapShows
       DEF PagerNext, SwapOutNext, SwapInNext
  <2>2. Live(p)' = Live(p)
    BY <1>2, NoAssertionFails
       DEF PagerNext, SwapOutNext, SwapInNext, Take, FreeFrame, SwapOut, Clock, Save, Written,
           Unmap, SwapInRead, ReadDone, FindRoom, Claim, ZeroFill, Map, Kill, UnmapGarbage,
           Crash, procVars, Live
  <2> QED BY <2>1, <2>2, PictureStays
<1>3. CASE ProcNext(p)
  <2>1. CASE (\E g \in Page : Load(p, g) \/ Fault(p, g)) \/ Resume(p) \/ Quit(p)
    BY <2>1, AccessShows, PictureStays
  <2>2. ASSUME NEW g \in Page, NEW v \in Stamps(p, g), Store(p, g, v) PROVE Memory!Next
    BY <1>0, <2>2, StoreShows DEF Memory!Next
  <2>3. CASE SwapFreeAll(p) \/ Spawn(p)
    BY <1>0, <2>3, SwapFreeAllShows, SpawnShows DEF Memory!Next
  <2>4. CASE FrameFreeAll(p)
    <3>1. ~Live(p) /\ ~Live(p)'
      BY <1>0, <2>4 DEF FrameFreeAll, Live, IndInv, TypeOK, ProcType
    <3>2. Live(p)' = Live(p)
      BY <3>1 DEF Live
    <3> QED BY <3>1, <3>2, PictureStays
  <2> QED BY <1>3, <2>1, <2>2, <2>3, <2>4 DEF ProcNext, Access, Leave
<1> QED BY <1>1, <1>2, <1>3 DEF Next, Alone

(* Paging is invisible to the process: it reads what it last stored, or    *)
(* zeros, through any number of evictions, and the next process in its     *)
(* slot finds nothing of it.                                               *)
THEOREM PagingImplementsMemory ==
  ASSUME \E p, i : Alone(p, i)
  PROVE  Spec => ImplementsMemory
<1>1. Init => Memory!Init
  BY InitShows
<1>2. IndInv /\ OneInv /\ Copies /\ [Next]_vars => [Memory!Next]_[p \in Procs |-> Image(p)]
  <2>1. IndInv /\ SlotInv /\ [Next]_vars => SlotInv'
    BY StepSlots DEF NoSlices, Alone
  <2> QED BY <2>1, StepShows DEF OneInv, Picture
<1>3. Spec => [](IndInv /\ OneInv /\ Copies)
  BY CopiesInductive
<1> QED BY <1>1, <1>2, <1>3, PTL DEF Spec, ImplementsMemory, Memory!Spec
=============================================================================
