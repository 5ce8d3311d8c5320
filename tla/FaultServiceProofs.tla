------------------------- MODULE FaultServiceProofs --------------------------
(***************************************************************************)
(* Proofs about FaultService, for any set of processes and any number of   *)
(* pagers.  IndInv strengthens the properties the runs check with what a   *)
(* step needs to know to preserve them: where the start-up loop stands,    *)
(* and how many tokens the pagers asleep at shutdown can still count on.   *)
(***************************************************************************)
EXTENDS FaultService, FiniteSetTheorems, SequenceTheorems, TLAPS

Sleepers == {i \in Pagers : pc[i] = "sleep"}

(* How far P3PagerInit has come: pagers are born in index order, and only  *)
(* the one being joined may be short of its loop or have signalled.        *)
StartUp ==
  /\ main \in {"fork", "join"} => next < NumPagers
  /\ main = "boot" => next = 0
  /\ \A i \in Pagers :
       /\ pc[i] = "unborn" <=> \/ main = "boot"
                               \/ main = "fork" /\ i >= next
                               \/ main = "join" /\ i > next
       /\ pc[i] = "forked" => main = "join" /\ i = next /\ tracker[i] = 0
       /\ tracker[i] > 0 => main = "join" /\ i = next

ShutDownFlag == shutDown <=> main \in {"post", "down"}

HeldIsProc == \A i \in Pagers : pc[i] = "serve" => cur[i] \in Procs

(* Once shutdown has begun no pager goes to sleep again, and the tokens    *)
(* posted and still to be posted are enough for those asleep.              *)
SleepersCovered ==
  main = "post" => Cardinality(Sleepers) <= pagerSem + (NumPagers - next)

IndInv == /\ TypeOK /\ StartUp /\ ShutDownFlag /\ HeldIsProc
          /\ FaultConserved /\ TokensMatchFaults
          /\ SleepersCovered /\ SemFreedUnused /\ StartedWhenUp
-----------------------------------------------------------------------------
(* Lemmas about the fault queue.                                           *)

In(q, p) == \E n \in DOMAIN q : q[n] = p
Distinct(q) == \A m, n \in DOMAIN q : q[m] = q[n] => m = n

(* enqueue adds one fault at the end and loses none.                       *)
LEMMA AppendLemma ==
  ASSUME NEW q \in Seq(Procs), NEW p \in Procs, Distinct(q), ~In(q, p)
  PROVE  LET r == Append(q, p)
         IN  /\ r \in Seq(Procs) /\ Len(r) = Len(q) + 1
             /\ Distinct(r)
             /\ \A x \in Procs : In(r, x) <=> In(q, x) \/ x = p
<1> DEFINE r == Append(q, p)
<1>1. /\ r \in Seq(Procs) /\ Len(r) = Len(q) + 1
      /\ \A n \in 1 .. Len(q) : r[n] = q[n]
      /\ r[Len(q) + 1] = p
  BY AppendProperties
<1>2. Len(q) \in Nat /\ DOMAIN q = 1 .. Len(q) /\ DOMAIN r = 1 .. Len(q) + 1
  BY <1>1, LenProperties
<1> HIDE DEF r
<1>3. Distinct(r)
  BY <1>1, <1>2 DEF Distinct, In
<1>4. \A x \in Procs : In(r, x) <=> In(q, x) \/ x = p
  <2> TAKE x \in Procs
  <2>1. ASSUME In(r, x) PROVE In(q, x) \/ x = p
    BY <1>1, <1>2, <2>1 DEF In
  <2>2. ASSUME In(q, x) PROVE In(r, x)
    BY <1>1, <1>2, <2>2 DEF In
  <2>3. In(r, p)
    BY <1>1, <1>2 DEF In
  <2> QED BY <2>1, <2>2, <2>3
<1> QED BY <1>1, <1>3, <1>4 DEF r

(* dequeue removes the first fault and keeps the others.                   *)
LEMMA TailLemma ==
  ASSUME NEW q \in Seq(Procs), q # <<>>, Distinct(q)
  PROVE  LET r == Tail(q)
         IN  /\ r \in Seq(Procs) /\ Len(r) = Len(q) - 1
             /\ Head(q) \in Procs /\ In(q, Head(q))
             /\ Distinct(r)
             /\ \A x \in Procs : In(r, x) <=> In(q, x) /\ x # Head(q)
<1> DEFINE r == Tail(q)
<1>1. /\ r \in Seq(Procs) /\ Len(r) = Len(q) - 1
      /\ \A n \in 1 .. Len(r) : r[n] = q[n + 1]
      /\ Head(q) \in Procs
  BY HeadTailProperties
<1>2. Len(q) \in Nat /\ Len(q) > 0 /\ DOMAIN q = 1 .. Len(q) /\ DOMAIN r = 1 .. Len(q) - 1
  BY <1>1, LenProperties, EmptySeq
<1>h. Head(q) = q[1]
  BY <1>2
<1> HIDE DEF r
<1>3. Distinct(r)
  <2> SUFFICES ASSUME NEW m \in DOMAIN r, NEW n \in DOMAIN r, r[m] = r[n]
               PROVE  m = n
    BY DEF Distinct
  <2>1. m + 1 \in DOMAIN q /\ n + 1 \in DOMAIN q /\ q[m + 1] = q[n + 1]
    BY <1>1, <1>2
  <2>2. m + 1 = n + 1
    BY <2>1 DEF Distinct
  <2> QED BY <2>2, <1>2
<1>4. \A x \in Procs : In(r, x) <=> In(q, x) /\ x # Head(q)
  <2> TAKE x \in Procs
  <2>1. ASSUME NEW n \in DOMAIN r, r[n] = x PROVE In(q, x) /\ x # Head(q)
    <3>1. n + 1 \in DOMAIN q /\ q[n + 1] = x /\ n + 1 # 1 /\ 1 \in DOMAIN q
      BY <1>1, <1>2, <2>1
    <3> QED BY <3>1, <1>h DEF In, Distinct
  <2>2. ASSUME NEW n \in DOMAIN q, q[n] = x, x # Head(q) PROVE In(r, x)
    <3>1. n - 1 \in DOMAIN r /\ r[n - 1] = q[n - 1 + 1] /\ n - 1 + 1 = n
      BY <1>1, <1>2, <1>h, <2>2
    <3> QED BY <3>1, <2>2 DEF In
  <2> QED BY <2>1, <2>2 DEF In
<1>5. In(q, Head(q))
  BY <1>2, <1>h DEF In
<1> QED BY <1>1, <1>3, <1>4, <1>5 DEF r
-----------------------------------------------------------------------------
(* The invariant.                                                          *)

(* Before P3PagerInit runs nothing is queued, forked or owed.              *)
LEMMA InitInv == Init => IndInv
<1> SUFFICES ASSUME Init PROVE IndInv
  OBVIOUS
<1> USE PagersAssumption, NoneAssumption DEF Init, Pagers
<1>1. TypeOK
  <2>1. fault \in [Procs -> [cause : Causes, kill : BOOLEAN, wait : 0 .. 1]]
    BY DEF Causes
  <2>2. faultQueue \in Seq(Procs)
    BY EmptySeq
  <2>3. tracker \in [Pagers -> 0 .. 1]
    OBVIOUS
  <2>4. cur \in [Pagers -> Procs \cup {None}]
    OBVIOUS
  <2>5. /\ main \in {"boot", "fork", "join", "up", "post", "down"}
        /\ next \in 0 .. NumPagers /\ pagerSem \in Nat
    OBVIOUS
  <2>7. shutDown \in BOOLEAN
    OBVIOUS
  <2>6. /\ pc \in [Pagers -> {"unborn", "forked", "loop", "sleep", "serve", "exited"}]
        /\ proc \in [Procs -> {"user", "fault", "dead"}]
    OBVIOUS
  <2> QED BY <2>1, <2>2, <2>3, <2>4, <2>5, <2>6, <2>7 DEF TypeOK
<1>2. StartUp /\ ShutDownFlag /\ HeldIsProc
  BY DEF StartUp, ShutDownFlag, HeldIsProc
<1>3. FaultConserved /\ TokensMatchFaults
  <2>1. Len(faultQueue) = 0 /\ DOMAIN faultQueue = {}
    BY EmptySeq
  <2> QED BY <2>1 DEF FaultConserved, TokensMatchFaults, Owed, Queued, HeldBy
<1>4. SleepersCovered /\ SemFreedUnused /\ StartedWhenUp
  BY DEF SleepersCovered, SemFreedUnused, StartedWhenUp
<1> QED BY <1>1, <1>2, <1>3, <1>4 DEF IndInv

(* A pager that serves a fault answers a process that still waits for it.  *)
LEMMA HeldIsOwed ==
  ASSUME IndInv, NEW i \in Pagers, pc[i] = "serve"
  PROVE  cur[i] \in Procs /\ proc[cur[i]] = "fault" /\ fault[cur[i]].wait = 0
<1>1. cur[i] \in Procs /\ HeldBy(i, cur[i])
  BY DEF IndInv, HeldIsProc, HeldBy
<1>2. Owed(cur[i])
  BY <1>1 DEF IndInv, FaultConserved
<1> QED BY <1>1, <1>2 DEF Owed

(* Every step of Next leaves each variable in its type; Answer and         *)
(* AnnounceStart need to know that the count they raise is zero.           *)
LEMMA TypeStep == IndInv /\ [Next]_vars => TypeOK'
<1> SUFFICES ASSUME IndInv, [Next]_vars PROVE TypeOK'
  OBVIOUS
<1> USE PagersAssumption
<1>t. TypeOK /\ StartUp
  BY DEF IndInv
<1>1. CASE PagerInit
  BY <1>t, <1>1 DEF PagerInit, TypeOK
<1>2. CASE ForkPager
  BY <1>t, <1>2 DEF ForkPager, TypeOK
<1>3. CASE JoinPager
  BY <1>t, <1>3 DEF JoinPager, TypeOK, StartUp, Pagers
<1>4. CASE BeginShutdown
  BY <1>t, <1>4 DEF BeginShutdown, TypeOK
<1>5. CASE PostPager
  BY <1>t, <1>5 DEF PostPager, TypeOK
<1>6. CASE FreeSems
  BY <1>t, <1>6 DEF FreeSems, TypeOK
<1>7. ASSUME NEW i \in Pagers, AnnounceStart(i) PROVE TypeOK'
  <2>1. tracker[i] = 0
    BY <1>t, <1>7 DEF AnnounceStart, StartUp
  <2> QED BY <1>t, <1>7, <2>1 DEF AnnounceStart, TypeOK
<1>8. ASSUME NEW i \in Pagers, Loop(i) PROVE TypeOK'
  BY <1>t, <1>8 DEF Loop, initVars, TypeOK
<1>9. ASSUME NEW i \in Pagers, Take(i) PROVE TypeOK'
  <2>1. pagerSem - 1 \in Nat
    BY <1>t, <1>9 DEF Take, TypeOK
  <2>2. CASE faultQueue = <<>> /\ pc' = [pc EXCEPT ![i] = "loop"] /\ UNCHANGED <<faultQueue, cur>>
    BY <1>t, <1>9, <2>1, <2>2 DEF Take, initVars, TypeOK
  <2>3. CASE /\ faultQueue # <<>> /\ pc' = [pc EXCEPT ![i] = "serve"]
             /\ cur' = [cur EXCEPT ![i] = Head(faultQueue)]
             /\ faultQueue' = Tail(faultQueue)
    <3>1. faultQueue' \in Seq(Procs) /\ Head(faultQueue) \in Procs
      BY <1>t, <2>3, HeadTailProperties DEF TypeOK
    <3> QED BY <1>t, <1>9, <2>1, <2>3, <3>1 DEF Take, initVars, TypeOK
  <2> QED BY <1>9, <2>2, <2>3 DEF Take
<1>10. ASSUME NEW i \in Pagers, Answer(i) PROVE TypeOK'
  <2>1. cur[i] \in Procs /\ fault[cur[i]].wait = 0
    BY <1>10, HeldIsOwed DEF Answer
  <2>2. PICK kill \in BOOLEAN :
          fault' = [fault EXCEPT ![cur[i]].kill = kill, ![cur[i]].wait = @ + 1]
    BY <1>10 DEF Answer
  <2>3. fault' \in [Procs -> [cause : Causes, kill : BOOLEAN, wait : 0 .. 1]]
    BY <1>t, <2>1, <2>2 DEF TypeOK
  <2> QED BY <1>t, <1>10, <2>3 DEF Answer, initVars, TypeOK
<1>11. ASSUME NEW p \in Procs, NEW c \in Causes, Fault(p, c) PROVE TypeOK'
  <2>1. faultQueue' \in Seq(Procs)
    BY <1>t, <1>11, AppendProperties DEF Fault, TypeOK
  <2> QED BY <1>t, <1>11, <2>1 DEF Fault, initVars, TypeOK
<1>12. ASSUME NEW p \in Procs, Resume(p) PROVE TypeOK'
  <2>1. fault[p].wait - 1 \in 0 .. 1
    BY <1>t, <1>12 DEF Resume, TypeOK
  <2> QED BY <1>t, <1>12, <2>1 DEF Resume, initVars, TypeOK
<1>13. CASE UNCHANGED vars
  BY <1>t, <1>13 DEF vars, TypeOK
<1> QED BY <1>1, <1>2, <1>3, <1>4, <1>5, <1>6, <1>7, <1>8, <1>9, <1>10, <1>11,
           <1>12, <1>13 DEF Next, MainNext, PagerNext

(* The fork loop stays in index order, shutDown agrees with main, and no   *)
(* pager exits before shutdown.                                            *)
LEMMA StartUpStep ==
  IndInv /\ [Next]_vars => StartUp' /\ ShutDownFlag' /\ StartedWhenUp'
<1> SUFFICES ASSUME IndInv, [Next]_vars
             PROVE  StartUp' /\ ShutDownFlag' /\ StartedWhenUp'
  OBVIOUS
<1> USE PagersAssumption DEF Pagers
<1>t. TypeOK /\ StartUp /\ ShutDownFlag /\ StartedWhenUp
  BY DEF IndInv
<1> USE <1>t DEF TypeOK, StartUp, ShutDownFlag, StartedWhenUp
<1>1. CASE PagerInit
  BY <1>1 DEF PagerInit
<1>2. CASE ForkPager
  BY <1>2 DEF ForkPager
<1>3. CASE JoinPager
  <2>1. \A i \in Pagers : pc[i] # "forked" /\ (pc[i] = "unborn" => i > next)
    BY <1>3 DEF JoinPager
  <2>2. tracker' = [tracker EXCEPT ![next] = 0]
    <3>1. tracker[next] = 1
      BY <1>3 DEF JoinPager
    <3> QED BY <1>3, <3>1 DEF JoinPager
  <2>3. CASE next + 1 = NumPagers
    BY <1>3, <2>1, <2>2, <2>3 DEF JoinPager
  <2>4. CASE next + 1 # NumPagers
    BY <1>3, <2>1, <2>2, <2>4 DEF JoinPager
  <2> QED BY <2>3, <2>4
<1>4. CASE BeginShutdown
  BY <1>4 DEF BeginShutdown
<1>5. CASE PostPager
  BY <1>5 DEF PostPager
<1>6. CASE FreeSems
  BY <1>6 DEF FreeSems
<1>7. ASSUME NEW i \in Pagers, AnnounceStart(i)
      PROVE  StartUp' /\ ShutDownFlag' /\ StartedWhenUp'
  BY <1>7 DEF AnnounceStart
<1>8. ASSUME NEW i \in Pagers, Loop(i)
      PROVE  StartUp' /\ ShutDownFlag' /\ StartedWhenUp'
  BY <1>8 DEF Loop, initVars
<1>9. ASSUME NEW i \in Pagers, Take(i)
      PROVE  StartUp' /\ ShutDownFlag' /\ StartedWhenUp'
  <2>1. /\ pc[i] = "sleep" /\ UNCHANGED <<main, next, shutDown, tracker>>
        /\ \E at \in {"loop", "serve"} : pc' = [pc EXCEPT ![i] = at]
    BY <1>9 DEF Take, initVars
  <2> QED BY <2>1
<1>10. ASSUME NEW i \in Pagers, Answer(i)
       PROVE  StartUp' /\ ShutDownFlag' /\ StartedWhenUp'
  BY <1>10 DEF Answer, initVars
<1>11. ASSUME NEW p \in Procs, NEW c \in Causes, Fault(p, c)
       PROVE  StartUp' /\ ShutDownFlag' /\ StartedWhenUp'
  BY <1>11 DEF Fault, initVars
<1>12. ASSUME NEW p \in Procs, Resume(p)
       PROVE  StartUp' /\ ShutDownFlag' /\ StartedWhenUp'
  BY <1>12 DEF Resume, initVars
<1>13. CASE UNCHANGED vars
  BY <1>13 DEF vars
<1> QED BY <1>1, <1>2, <1>3, <1>4, <1>5, <1>6, <1>7, <1>8, <1>9, <1>10, <1>11,
           <1>12, <1>13 DEF Next, MainNext, PagerNext

(* No fault is lost or duplicated, and pagerSem keeps count of the queue.  *)
LEMMA FaultStep ==
  IndInv /\ [Next]_vars => HeldIsProc' /\ FaultConserved' /\ TokensMatchFaults'
<1> DEFINE Goal == HeldIsProc /\ FaultConserved /\ TokensMatchFaults
<1> SUFFICES ASSUME IndInv, [Next]_vars PROVE Goal'
  OBVIOUS
<1>t. TypeOK /\ ShutDownFlag /\ HeldIsProc /\ FaultConserved /\ TokensMatchFaults
  BY DEF IndInv
<1>c. /\ \A p \in Procs : Owed(p) <=> In(faultQueue, p) \/ \E i \in Pagers : HeldBy(i, p)
      /\ Distinct(faultQueue)
  BY <1>t DEF FaultConserved, In, Distinct, Queued
\* Steps that leave the queue, the pagers' hands and the faults alone.
<1>u. ASSUME UNCHANGED <<pagerSem, faultQueue, cur, proc, fault>>,
             \A i \in Pagers : pc'[i] = "serve" <=> pc[i] = "serve",
             ~shutDown' => ~shutDown
      PROVE  Goal'
  BY <1>t, <1>u DEF HeldIsProc, FaultConserved, TokensMatchFaults, Owed, Queued, HeldBy
<1>1. CASE MainNext /\ ~PostPager
  <2>1. \A i \in Pagers : pc'[i] = "serve" <=> pc[i] = "serve"
    <3>1. CASE ForkPager
      <4>1. next \in Pagers /\ pc[next] = "unborn"
        BY <1>t, <3>1, PagersAssumption DEF IndInv, StartUp, ForkPager, TypeOK, Pagers
      <4>2. pc' = [pc EXCEPT ![next] = "forked"]
        BY <3>1 DEF ForkPager
      <4> QED BY <1>t, <4>1, <4>2 DEF TypeOK
    <3>2. CASE ~ForkPager
      BY <1>1, <3>2 DEF MainNext, PagerInit, JoinPager, BeginShutdown, FreeSems
    <3> QED BY <3>1, <3>2
  <2>2. /\ UNCHANGED <<pagerSem, faultQueue, cur, proc, fault>>
        /\ ~shutDown' => ~shutDown
    BY <1>1 DEF MainNext, PagerInit, ForkPager, JoinPager, BeginShutdown, FreeSems
  <2> QED BY <1>u, <2>1, <2>2
<1>2. CASE PostPager
  <2>1. shutDown' /\ Len(faultQueue) \in Nat
    BY <1>t, <1>2, LenProperties DEF PostPager, ShutDownFlag, TypeOK
  <2> QED BY <1>t, <1>2, <2>1 DEF PostPager, HeldIsProc, FaultConserved,
                                  TokensMatchFaults, Owed, Queued, HeldBy, TypeOK
<1>3. ASSUME NEW i \in Pagers, AnnounceStart(i) \/ Loop(i) PROVE Goal'
  BY <1>t, <1>3, <1>u DEF AnnounceStart, Loop, initVars, TypeOK
<1>4. ASSUME NEW i \in Pagers, Take(i) PROVE Goal'
  <2>1. CASE faultQueue = <<>>
    <3>1. Len(faultQueue) = 0 /\ shutDown
      BY <1>t, <1>4, <2>1, EmptySeq DEF Take, TokensMatchFaults, TypeOK
    <3>2. /\ faultQueue' = faultQueue /\ cur' = cur
          /\ pc' = [pc EXCEPT ![i] = "loop"]
      BY <1>4, <2>1 DEF Take
    <3> QED BY <1>t, <1>4, <3>1, <3>2 DEF Take, initVars, HeldIsProc, FaultConserved,
                    TokensMatchFaults, Owed, Queued, HeldBy, TypeOK
  <2>2. CASE faultQueue # <<>>
    <3> DEFINE h == Head(faultQueue)
    <3>1. /\ Len(faultQueue') = Len(faultQueue) - 1 /\ Len(faultQueue) \in Nat
          /\ h \in Procs /\ In(faultQueue, h) /\ Distinct(faultQueue')
          /\ \A x \in Procs : In(faultQueue', x) <=> In(faultQueue, x) /\ x # h
      <4>1. faultQueue \in Seq(Procs) /\ Distinct(faultQueue)
        BY <1>t, <1>c DEF TypeOK
      <4>2. faultQueue' = Tail(faultQueue)
        BY <1>4, <2>2 DEF Take
      <4> QED BY <2>2, <4>1, <4>2, TailLemma, LenProperties
    <3>2. /\ pc' = [pc EXCEPT ![i] = "serve"] /\ cur' = [cur EXCEPT ![i] = h]
          /\ pc[i] = "sleep" /\ pagerSem' = pagerSem - 1
          /\ UNCHANGED <<shutDown, proc, fault>>
      BY <1>4, <2>2 DEF Take
    <3> HIDE DEF h
    <3>3. HeldIsProc'
      BY <1>t, <3>1, <3>2 DEF HeldIsProc, TypeOK
    <3>4. \A j \in Pagers, p \in Procs :
             HeldBy(j, p)' <=> HeldBy(j, p) \/ (j = i /\ p = h)
      BY <1>t, <3>1, <3>2 DEF HeldBy, TypeOK
    <3>5. \A p \in Procs : Owed(p)' <=> Owed(p)
      BY <3>2 DEF Owed
    <3>6. \A j \in Pagers : pc[j] = "serve" => cur[j] # h
      BY <1>t, <3>1 DEF FaultConserved, HeldBy, Queued, In
    <3>7. \A j, k \in Pagers :
             pc'[j] = "serve" /\ pc'[k] = "serve" /\ cur'[j] = cur'[k] => j = k
      BY <1>t, <3>2, <3>6 DEF FaultConserved, TypeOK
    <3>8. \A p \in Procs : Owed(p)' <=> In(faultQueue', p) \/ \E j \in Pagers : HeldBy(j, p)'
      BY <1>c, <3>1, <3>4, <3>5
    <3>9. \A j \in Pagers, p \in Procs : HeldBy(j, p)' => ~In(faultQueue', p)
      BY <1>t, <3>1, <3>4 DEF FaultConserved, Queued, In
    <3>10. FaultConserved'
      BY <3>1, <3>7, <3>8, <3>9 DEF FaultConserved, Queued, In, Distinct
    <3>11. TokensMatchFaults'
      BY <1>t, <3>1, <3>2 DEF TokensMatchFaults, TypeOK
    <3> QED BY <3>3, <3>10, <3>11
  <2> QED BY <2>1, <2>2
<1>5. ASSUME NEW i \in Pagers, Answer(i) PROVE Goal'
  <2> DEFINE p == cur[i]
  <2>1. p \in Procs /\ proc[p] = "fault" /\ fault[p].wait = 0 /\ pc[i] = "serve"
    BY <1>5, HeldIsOwed DEF Answer
  <2>2. PICK kill \in BOOLEAN :
          fault' = [fault EXCEPT ![p].kill = kill, ![p].wait = @ + 1]
    BY <1>5 DEF Answer
  <2>3. /\ pc' = [pc EXCEPT ![i] = "loop"] /\ cur' = [cur EXCEPT ![i] = None]
        /\ UNCHANGED <<shutDown, pagerSem, faultQueue, proc>>
    BY <1>5 DEF Answer, initVars
  <2>4. \A x \in Procs : Owed(x)' <=> Owed(x) /\ x # p
    BY <1>t, <2>1, <2>2, <2>3 DEF Owed, TypeOK
  <2>5. HeldBy(i, p)
    BY <2>1 DEF HeldBy
  <2> HIDE DEF p
  <2>6. \A j \in Pagers, x \in Procs : HeldBy(j, x)' <=> HeldBy(j, x) /\ j # i
    BY <1>t, <2>3 DEF HeldBy, TypeOK
  <2>7. \A j \in Pagers : HeldBy(j, p) => j = i
    BY <1>t, <2>5 DEF FaultConserved, HeldBy
  <2>8. HeldIsProc' /\ TokensMatchFaults'
    BY <1>t, <2>3 DEF HeldIsProc, TokensMatchFaults, TypeOK
  <2>9. ~In(faultQueue, p)
    BY <1>t, <2>1, <2>5 DEF FaultConserved, Queued, In
  <2>10. \A x \in Procs : Owed(x)' <=> In(faultQueue, x) \/ \E j \in Pagers : HeldBy(j, x)'
    <3> TAKE x \in Procs
    <3>1. CASE x = p
      BY <3>1, <2>4, <2>6, <2>7, <2>9
    <3>2. CASE x # p
      <4>1. ~HeldBy(i, x)
        BY <2>5, <3>2 DEF HeldBy
      <4> QED BY <1>c, <2>4, <2>6, <3>2, <4>1
    <3> QED BY <3>1, <3>2
  <2>11. FaultConserved'
    <3>1. \A j, k \in Pagers :
             pc'[j] = "serve" /\ pc'[k] = "serve" /\ cur'[j] = cur'[k] => j = k
      BY <1>t, <2>3 DEF FaultConserved, TypeOK
    <3>2. \A j \in Pagers, x \in Procs : HeldBy(j, x)' => ~In(faultQueue, x)
      BY <1>t, <2>6 DEF FaultConserved, Queued, In
    <3> QED BY <1>c, <2>3, <2>10, <3>1, <3>2 DEF FaultConserved, Queued, In, Distinct
  <2> QED BY <2>8, <2>11
<1>6. ASSUME NEW p \in Procs, NEW c \in Causes, Fault(p, c) PROVE Goal'
  <2>1. ~Owed(p)
    BY <1>6 DEF Fault, Owed
  <2>2. /\ Len(faultQueue') = Len(faultQueue) + 1 /\ Len(faultQueue) \in Nat
        /\ Distinct(faultQueue')
        /\ \A x \in Procs : In(faultQueue', x) <=> In(faultQueue, x) \/ x = p
    BY <1>t, <1>c, <1>6, <2>1, AppendLemma, LenProperties DEF Fault, TypeOK
  <2>3. \A x \in Procs : Owed(x)' <=> Owed(x) \/ x = p
    BY <1>t, <1>6 DEF Fault, Owed, TypeOK
  <2>4. \A j \in Pagers, x \in Procs : HeldBy(j, x)' <=> HeldBy(j, x)
    BY <1>6 DEF Fault, HeldBy
  <2>5. HeldIsProc' /\ TokensMatchFaults'
    BY <1>t, <1>6, <2>2 DEF Fault, initVars, HeldIsProc, TokensMatchFaults, TypeOK
  <2>6. \A x \in Procs : Owed(x)' <=> In(faultQueue', x) \/ \E j \in Pagers : HeldBy(j, x)'
    BY <1>c, <2>2, <2>3, <2>4
  <2>7. \A j \in Pagers, x \in Procs : HeldBy(j, x)' => ~In(faultQueue', x)
    BY <1>t, <1>c, <2>1, <2>2, <2>4 DEF FaultConserved, Queued, In
  <2>8. \A j, k \in Pagers :
          pc'[j] = "serve" /\ pc'[k] = "serve" /\ cur'[j] = cur'[k] => j = k
    BY <1>t, <1>6 DEF Fault, FaultConserved
  <2>9. FaultConserved'
    BY <2>2, <2>6, <2>7, <2>8 DEF FaultConserved, Queued, In, Distinct
  <2> QED BY <2>5, <2>9
<1>7. ASSUME NEW p \in Procs, Resume(p) PROVE Goal'
  <2>1. UNCHANGED <<shutDown, pagerSem, faultQueue, pc, cur>>
    BY <1>7 DEF Resume, initVars
  <2>2. \A x \in Procs : Owed(x)' <=> Owed(x)
    BY <1>t, <1>7 DEF Resume, Owed, TypeOK
  <2> QED BY <1>t, <2>1, <2>2 DEF HeldIsProc, FaultConserved, TokensMatchFaults,
                                  Queued, HeldBy
<1>8. CASE UNCHANGED vars
  BY <1>u, <1>8 DEF vars
<1> QED BY <1>1, <1>2, <1>3, <1>4, <1>5, <1>6, <1>7, <1>8 DEF Next, MainNext, PagerNext

(* There are as many pagers as P3_VmInit was asked for.                    *)
LEMMA PagersFinite == IsFiniteSet(Pagers) /\ Cardinality(Pagers) = NumPagers
<1>1. NumPagers \in Nat /\ NumPagers > 0 /\ NumPagers - 1 \in Int
  BY PagersAssumption
<1> QED BY <1>1, FS_Interval DEF Pagers

(* The pagers asleep can be counted.                                       *)
LEMMA SleepersFinite ==
  /\ IsFiniteSet(Sleepers) /\ Cardinality(Sleepers) \in Nat
  /\ Cardinality(Sleepers) <= NumPagers
<1>1. Sleepers \in SUBSET Pagers
  BY DEF Sleepers
<1> QED BY <1>1, PagersFinite, FS_Subset, FS_CardinalityType

(* The tokens cover the sleepers, so pagerSem is freed with nobody on it:  *)
(* a pager wakes only by taking a token, and none falls asleep once        *)
(* shutDown is set.                                                        *)
LEMMA SleepersStep ==
  IndInv /\ [Next]_vars => SleepersCovered' /\ SemFreedUnused'
<1> DEFINE Goal == SleepersCovered /\ SemFreedUnused
<1> SUFFICES ASSUME IndInv, [Next]_vars PROVE Goal'
  OBVIOUS
<1> USE PagersAssumption
<1>t. TypeOK /\ StartUp /\ ShutDownFlag /\ SleepersCovered /\ SemFreedUnused /\ TokensMatchFaults
  BY DEF IndInv
<1>n. Cardinality(Sleepers) \in Nat /\ next \in Nat /\ pagerSem \in Nat
  BY <1>t, SleepersFinite DEF TypeOK
\* Steps that put no pager to sleep, wake none and take no token.
<1>u. ASSUME UNCHANGED <<main, next>>, pagerSem' \in Nat, pagerSem' >= pagerSem,
             \A i \in Pagers : pc'[i] = "sleep" <=> pc[i] = "sleep"
      PROVE  Goal'
  <2>1. Sleepers' = Sleepers
    BY <1>u DEF Sleepers
  <2> QED BY <1>t, <1>n, <1>u, <2>1 DEF SleepersCovered, SemFreedUnused
<1>1. CASE PagerInit \/ ForkPager \/ JoinPager
  BY <1>1 DEF PagerInit, ForkPager, JoinPager, SleepersCovered, SemFreedUnused
<1>2. CASE BeginShutdown
  <2>1. Sleepers' = Sleepers /\ main' = "post" /\ next' = 0 /\ pagerSem' = pagerSem
    BY <1>2 DEF BeginShutdown, Sleepers
  <2> QED BY <1>n, <2>1, SleepersFinite DEF SleepersCovered, SemFreedUnused
<1>3. CASE PostPager
  <2>1. /\ Sleepers' = Sleepers /\ main = "post" /\ main' = main
        /\ next' = next + 1 /\ pagerSem' = pagerSem + 1
    BY <1>3 DEF PostPager, Sleepers
  <2> QED BY <1>t, <1>n, <2>1 DEF SleepersCovered, SemFreedUnused
<1>4. CASE FreeSems
  <2>1. Cardinality(Sleepers) <= pagerSem
    BY <1>t, <1>n, <1>4 DEF FreeSems, SleepersCovered
  <2>2. pagerSem > 0 => Sleepers = {}
    BY <1>4 DEF FreeSems, MainRuns, Ready, Sleepers
  <2>3. Sleepers = {}
    BY <1>n, <2>1, <2>2, SleepersFinite, FS_EmptySet
  <2>4. main' = "down" /\ pc' = pc
    BY <1>4 DEF FreeSems
  <2> QED BY <2>3, <2>4 DEF SleepersCovered, SemFreedUnused, Sleepers
<1>5. ASSUME NEW i \in Pagers, AnnounceStart(i) PROVE Goal'
  <2>1. \A j \in Pagers : pc'[j] = "sleep" <=> pc[j] = "sleep"
    BY <1>t, <1>5 DEF AnnounceStart, TypeOK
  <2> QED BY <1>n, <1>5, <1>u, <2>1 DEF AnnounceStart
<1>6. ASSUME NEW i \in Pagers, Loop(i) PROVE Goal'
  <2>1. UNCHANGED <<main, next, pagerSem>>
    BY <1>6 DEF Loop, initVars
  <2>2. CASE shutDown
    <3>1. \A j \in Pagers : pc'[j] = "sleep" <=> pc[j] = "sleep"
      BY <1>t, <1>6, <2>2 DEF Loop, TypeOK
    <3> QED BY <1>n, <1>u, <2>1, <3>1
  <2>3. CASE ~shutDown
    BY <1>t, <2>1, <2>3 DEF ShutDownFlag, SleepersCovered, SemFreedUnused
  <2> QED BY <2>2, <2>3
<1>7. ASSUME NEW i \in Pagers, Take(i) PROVE Goal'
  <2>1. /\ i \in Sleepers /\ Sleepers' = Sleepers \ {i}
        /\ pagerSem' = pagerSem - 1 /\ UNCHANGED <<main, next>>
    BY <1>t, <1>7 DEF Take, initVars, Sleepers, TypeOK
  <2>2. Cardinality(Sleepers') = Cardinality(Sleepers) - 1
    BY <2>1, SleepersFinite, FS_RemoveElement
  <2>3. SleepersCovered'
    BY <1>t, <1>n, <2>1, <2>2 DEF SleepersCovered
  <2>4. SemFreedUnused'
    BY <1>t, <2>1 DEF SemFreedUnused, Sleepers
  <2> QED BY <2>3, <2>4
<1>8. ASSUME NEW i \in Pagers, Answer(i) PROVE Goal'
  <2>1. \A j \in Pagers : pc'[j] = "sleep" <=> pc[j] = "sleep"
    BY <1>t, <1>8 DEF Answer, TypeOK
  <2> QED BY <1>n, <1>8, <1>u, <2>1 DEF Answer, initVars
<1>9. ASSUME NEW p \in Procs, NEW c \in Causes, Fault(p, c) PROVE Goal'
  <2>1. pagerSem' = pagerSem + 1 /\ UNCHANGED <<main, next, pc>>
    BY <1>9 DEF Fault, initVars
  <2> QED BY <1>n, <1>u, <2>1
<1>10. ASSUME NEW p \in Procs, Resume(p) PROVE Goal'
  <2>1. UNCHANGED <<main, next, pc, pagerSem>>
    BY <1>10 DEF Resume, initVars
  <2> QED BY <1>n, <1>u, <2>1
<1>11. CASE UNCHANGED vars
  BY <1>n, <1>u, <1>11 DEF vars
<1> QED BY <1>1, <1>2, <1>3, <1>4, <1>5, <1>6, <1>7, <1>8, <1>9, <1>10, <1>11
        DEF Next, MainNext, PagerNext

(* The parts together: the invariant is inductive.                         *)
LEMMA StepInv == IndInv /\ [Next]_vars => IndInv'
  BY TypeStep, StartUpStep, FaultStep, SleepersStep DEF IndInv
-----------------------------------------------------------------------------
(* The conjunction of the results below, for every reachable state.        *)
THEOREM Inductive == Spec => []IndInv
  BY InitInv, StepInv, PTL DEF Spec

(* Every variable keeps its type; in particular no wait or start-up        *)
(* semaphore ever counts two tokens.                                       *)
THEOREM TypeCorrect == Spec => []TypeOK
<1>1. IndInv => TypeOK
  BY DEF IndInv
<1> QED BY <1>1, Inductive, PTL

(* A fault is queued or held by one pager until it is answered, and a      *)
(* pager never holds the Fault record of a process that has moved on.      *)
THEOREM FaultsAreConserved == Spec => []FaultConserved
<1>1. IndInv => FaultConserved
  BY DEF IndInv
<1> QED BY <1>1, Inductive, PTL

(* pagerSem counts the queued faults exactly until shutdown begins.        *)
THEOREM TokensAreFaults == Spec => []TokensMatchFaults
<1>1. IndInv => TokensMatchFaults
  BY DEF IndInv
<1> QED BY <1>1, Inductive, PTL

(* P3PagerShutdown never frees pagerSem under a pager, for any number of   *)
(* pagers and of faults still queued.                                      *)
THEOREM FreeIsSafe == Spec => []SemFreedUnused
<1>1. IndInv => SemFreedUnused
  BY DEF IndInv
<1> QED BY <1>1, Inductive, PTL

(* P3PagerInit returns success with every pager running.                   *)
THEOREM UpMeansStarted == Spec => []StartedWhenUp
<1>1. IndInv => StartedWhenUp
  BY DEF IndInv
<1> QED BY <1>1, Inductive, PTL
-----------------------------------------------------------------------------
(* The hand-off implements the fault protocol.                             *)

Stands == [p \in Procs |-> Standing(p)]

StandingIs(p) ==
  /\ proc[p] = "user" => Standing(p) = "running"
  /\ proc[p] = "dead" => Standing(p) = "dead"
  /\ proc[p] = "fault" /\ fault[p].wait > 0 => Standing(p) = "answered"
  /\ Owed(p) /\ Queued(p) => Standing(p) = "pending"
  /\ Owed(p) /\ ~Queued(p) => Standing(p) = "held"

(* Standing, case by case, so that its CASE is expanded only here.         *)
LEMMA StandingCases == \A p \in Procs : StandingIs(p)
  BY DEF StandingIs, Standing, Owed

(* The same in the next state.                                             *)
LEMMA StandingCasesNext == \A p \in Procs : StandingIs(p)'
  BY DEF StandingIs, Standing, Owed

(* Initially every process runs.                                           *)
LEMMA InitRefines == Init => Protocol!Init
<1> SUFFICES ASSUME Init PROVE Protocol!Init
  OBVIOUS
<1>1. \A p \in Procs : proc[p] = "user"
  BY DEF Init
<1>2. \A p \in Procs : Standing(p) = "running"
  BY <1>1, StandingCases DEF StandingIs
<1> QED BY <1>2 DEF Protocol!Init

(* A step that moves one process only is the protocol's step of it.        *)
LEMMA OneMoves ==
  ASSUME NEW p \in Procs, NEW to, Standing(p)' = to,
         \A x \in Procs : x # p => Standing(x)' = Standing(x)
  PROVE  Stands' = [Stands EXCEPT ![p] = to]
  BY DEF Stands

(* Every step of the hand-off moves one process along the protocol or      *)
(* none at all.                                                            *)
LEMMA StepRefines ==
  IndInv /\ IndInv' /\ [Next]_vars => [Protocol!Next]_Stands
<1> SUFFICES ASSUME IndInv, IndInv', [Next]_vars
             PROVE  Protocol!Next \/ Stands' = Stands
  OBVIOUS
<1>t. /\ TypeOK /\ TypeOK' /\ FaultConserved /\ FaultConserved'
      /\ HeldIsProc /\ TokensMatchFaults
  BY DEF IndInv
<1>s. ASSUME UNCHANGED <<faultQueue, proc, fault>> PROVE Stands' = Stands
  BY <1>s DEF Stands, Standing, Owed, Queued
<1>1. CASE MainNext
  BY <1>1, <1>s DEF MainNext, PagerInit, ForkPager, JoinPager, BeginShutdown,
                    PostPager, FreeSems
<1>2. ASSUME NEW i \in Pagers, AnnounceStart(i) \/ Loop(i)
      PROVE  Stands' = Stands
  BY <1>2, <1>s DEF AnnounceStart, Loop
<1>3. ASSUME NEW i \in Pagers, Take(i) PROVE Protocol!Next \/ Stands' = Stands
  <2>1. CASE faultQueue = <<>>
    BY <1>3, <1>s, <2>1 DEF Take
  <2>2. CASE faultQueue # <<>>
    <3>h. PICK h \in Procs : h = Head(faultQueue)
      BY <1>t, <2>2, HeadTailProperties DEF TypeOK
    <3>1. Distinct(faultQueue)
      BY <1>t DEF FaultConserved, Distinct
    <3>2. /\ h \in Procs /\ Queued(h)
          /\ \A x \in Procs : Queued(x)' <=> Queued(x) /\ x # h
      <4>1. faultQueue' = Tail(faultQueue) /\ faultQueue \in Seq(Procs)
        BY <1>t, <1>3, <2>2 DEF Take, TypeOK
      <4>2. /\ h \in Procs /\ In(faultQueue, h)
            /\ \A x \in Procs : In(faultQueue', x) <=> In(faultQueue, x) /\ x # h
        BY <2>2, <3>h, <3>1, <4>1, TailLemma
      <4> QED BY <4>2 DEF In, Queued
    <3>3. \A x \in Procs : Owed(x)' <=> Owed(x)
      BY <1>3 DEF Take, Owed
    <3>4. Owed(h)
      BY <1>t, <3>2 DEF FaultConserved
    <3>5. Standing(h) = "pending" /\ Standing(h)' = "held"
      BY <3>2, <3>3, <3>4, StandingCases, StandingCasesNext DEF StandingIs
    <3>6. \A x \in Procs : x # h => Standing(x)' = Standing(x)
      BY <1>3, <3>2, <3>3 DEF Take, Standing
    <3>7. Protocol!Take(h)
      BY <3>2, <3>5, <3>6, OneMoves DEF Stands, Protocol!Take, Protocol!Become
    <3> QED BY <3>2, <3>7 DEF Protocol!Next
  <2> QED BY <2>1, <2>2
<1>4. ASSUME NEW i \in Pagers, Answer(i) PROVE Protocol!Next
  <2>p. PICK p \in Procs : p = cur[i]
    BY <1>4, HeldIsOwed DEF Answer
  <2>1. proc[p] = "fault" /\ fault[p].wait = 0 /\ HeldBy(i, p)
    BY <1>4, <2>p, HeldIsOwed DEF Answer, HeldBy
  <2>2. PICK kill \in BOOLEAN :
          fault' = [fault EXCEPT ![p].kill = kill, ![p].wait = @ + 1]
    BY <1>4, <2>p DEF Answer
  <2>3. UNCHANGED <<faultQueue, proc>>
    BY <1>4 DEF Answer
  <2>4. Owed(p) /\ ~Queued(p)
    BY <1>t, <2>1 DEF FaultConserved, Owed
  <2>5. fault'[p].wait > 0 /\ \A x \in Procs : x # p => fault'[x] = fault[x]
    BY <1>t, <2>1, <2>2 DEF TypeOK
  <2>6. Standing(p) = "held" /\ Standing(p)' = "answered"
    BY <2>1, <2>3, <2>4, <2>5, StandingCases, StandingCasesNext DEF StandingIs
  <2>7. \A x \in Procs : x # p => Standing(x)' = Standing(x)
    BY <2>3, <2>5 DEF Standing, Owed, Queued
  <2>8. Protocol!Answer(p)
    BY <2>1, <2>6, <2>7, OneMoves DEF Stands, Protocol!Answer, Protocol!Become
  <2> QED BY <2>1, <2>8 DEF Protocol!Next
<1>5. ASSUME NEW p \in Procs, NEW c \in Causes, Fault(p, c) PROVE Protocol!Next
  <2>1. ~Owed(p) /\ proc[p] = "user" /\ faultQueue' = Append(faultQueue, p)
    BY <1>5 DEF Fault, Owed
  <2>2. Distinct(faultQueue) /\ ~In(faultQueue, p)
    BY <1>t, <2>1 DEF FaultConserved, Distinct, In, Queued
  <2>3. \A x \in Procs : Queued(x)' <=> Queued(x) \/ x = p
    BY <1>t, <2>1, <2>2, AppendLemma DEF TypeOK, In, Queued
  <2>4. /\ proc'[p] = "fault" /\ fault'[p].wait = 0
        /\ \A x \in Procs : x # p => proc'[x] = proc[x] /\ fault'[x] = fault[x]
    BY <1>t, <1>5 DEF Fault, TypeOK
  <2>5. Standing(p) = "running" /\ Standing(p)' = "pending"
    BY <2>1, <2>3, <2>4, StandingCases, StandingCasesNext DEF StandingIs, Owed
  <2>6. \A x \in Procs : x # p => Standing(x)' = Standing(x)
    BY <2>3, <2>4 DEF Standing, Owed
  <2>7. Protocol!Raise(p)
    BY <2>5, <2>6, OneMoves DEF Stands, Protocol!Raise, Protocol!Become
  <2> QED BY <2>7 DEF Protocol!Next
<1>6. ASSUME NEW p \in Procs, Resume(p) PROVE Protocol!Next
  <2>1. /\ Standing(p) = "answered" /\ UNCHANGED faultQueue
        /\ \A x \in Procs : x # p => proc'[x] = proc[x] /\ fault'[x] = fault[x]
    BY <1>t, <1>6, StandingCases DEF StandingIs, Resume, TypeOK
  <2>2. \A x \in Procs : x # p => Standing(x)' = Standing(x)
    BY <2>1 DEF Standing, Owed, Queued
  <2>3. CASE fault[p].kill
    <3>1. proc'[p] = "dead"
      BY <1>t, <1>6, <2>3 DEF Resume, TypeOK
    <3>2. Standing(p)' = "dead"
      BY <3>1 DEF Standing, Owed
    <3>3. Protocol!Killed(p)
      BY <2>1, <2>2, <3>2, OneMoves DEF Stands, Protocol!Killed, Protocol!Become
    <3> QED BY <3>3 DEF Protocol!Next
  <2>4. CASE ~fault[p].kill
    <3>1. proc'[p] = "user"
      BY <1>t, <1>6, <2>4 DEF Resume, TypeOK
    <3>2. Standing(p)' = "running"
      BY <3>1 DEF Standing, Owed
    <3>3. Protocol!Resume(p)
      BY <2>1, <2>2, <3>2, OneMoves DEF Stands, Protocol!Resume, Protocol!Become
    <3> QED BY <3>3 DEF Protocol!Next
  <2> QED BY <2>3, <2>4
<1>7. CASE UNCHANGED vars
  BY <1>7, <1>s DEF vars
<1> QED BY <1>1, <1>s, <1>2, <1>3, <1>4, <1>5, <1>6, <1>7 DEF Next, MainNext, PagerNext

(* Every behaviour of the hand-off is one of the fault protocol: a fault is *)
(* taken by one pager, answered once, and nothing else lets its process go  *)
(* on.                                                                      *)
THEOREM HandOffImplementsProtocol == Spec => ImplementsProtocol
<1>1. IndInv /\ IndInv' /\ [Next]_vars => [Protocol!Next]_[p \in Procs |-> Standing(p)]
  BY StepRefines DEF Stands
<1> QED BY <1>1, InitRefines, Inductive, PTL DEF Spec, ImplementsProtocol, Protocol!Spec
=============================================================================
