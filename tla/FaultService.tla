---------------------------- MODULE FaultService -----------------------------
(***************************************************************************)
(* The hand-off between faulting processes and the pagers of phase3c.c:    *)
(* FaultHandler, enqueue/dequeue, the pager loop, P3PagerInit and          *)
(* P3PagerShutdown.  What a pager does to a page between dequeue and       *)
(* P1_V(wait) is left to module Paging; here it is one step that ends in   *)
(* an answer.                                                              *)
(*                                                                         *)
(* A Fault record lives on the kernel stack of the process that waits for  *)
(* it, so the queue holds processes and fault[p] is the record of p.       *)
(*                                                                         *)
(* Scheduling.  The pagers run at P3_PAGER_PRIORITY (2), above the process *)
(* that initialises and shuts down the VM system (3, phase3a.c:358): that  *)
(* process moves only when no pager is ready to run.  A pager in "serve"   *)
(* may be blocked on the swap disk and counts as not ready.                *)
(***************************************************************************)
EXTENDS Integers, Sequences, FiniteSets

CONSTANTS Procs,        \* processes with a page table
          NumPagers,    \* the `pagers` argument of P3_VmInit
          None          \* no process

ASSUME PagersAssumption == NumPagers \in Nat \ {0}    \* phase3c.c:384
ASSUME NoneAssumption == None \notin Procs

Pagers == 0 .. NumPagers - 1
Causes == {"fault", "access"}     \* USLOSS_MMU_FAULT, USLOSS_MMU_ACCESS

VARIABLES
  main,       \* the process in P3PagerInit and P3PagerShutdown
  next,       \* the loop index of those two functions
  shutDown,
  tracker,    \* tracker[i]: count of semaphore pagerTracker[i].sid
  pagerSem,   \* count of pagerSem
  faultQueue,
  pc,         \* pc[i]: where pager i is
  cur,        \* cur[i]: the fault pager i dequeued
  proc,       \* proc[p]: "user", "fault" (in FaultHandler) or "dead"
  fault       \* fault[p]: the cause, kill and wait fields of p's Fault

initVars == <<main, next, tracker>>
vars == <<main, next, shutDown, tracker, pagerSem, faultQueue, pc, cur, proc,
          fault>>

Init == /\ main = "boot" /\ next = 0 /\ shutDown = FALSE
        /\ tracker = [i \in Pagers |-> 0]
        /\ pagerSem = 0 /\ faultQueue = <<>>
        /\ pc = [i \in Pagers |-> "unborn"]
        /\ cur = [i \in Pagers |-> None]
        /\ proc = [p \in Procs |-> "user"]
        /\ fault = [p \in Procs |-> [cause |-> "fault", kill |-> FALSE, wait |-> 0]]

(* A pager that the dispatcher would run before a process of priority 3.   *)
Ready(i) == \/ pc[i] \in {"forked", "loop"}
            \/ pc[i] = "sleep" /\ pagerSem > 0

MainRuns == \A i \in Pagers : ~Ready(i)
-----------------------------------------------------------------------------
(* The initialising process.                                               *)

\* P3PagerInit up to the fork loop: handler installed, semaphores created.
PagerInit == /\ main = "boot"
             /\ main' = "fork"
             /\ UNCHANGED <<next, shutDown, tracker, pagerSem, faultQueue, pc,
                            cur, proc, fault>>

\* Mutant: the parent goes on without waiting for the pager to start.
ForkPager_NoWait == /\ main = "fork" /\ MainRuns
                    /\ pc' = [pc EXCEPT ![next] = "forked"]
                    /\ next' = next + 1
                    /\ main' = IF next + 1 = NumPagers THEN "up" ELSE "fork"
                    /\ UNCHANGED <<shutDown, tracker, pagerSem, faultQueue, cur,
                                   proc, fault>>

ForkPager == /\ main = "fork" /\ MainRuns
             /\ pc' = [pc EXCEPT ![next] = "forked"]
             /\ main' = "join"
             /\ UNCHANGED <<next, shutDown, tracker, pagerSem, faultQueue, cur,
                            proc, fault>>

\* P1_P(pagerTracker[i].sid); after the last one initPager is set.
JoinPager == /\ main = "join" /\ MainRuns
             /\ tracker[next] > 0
             /\ tracker' = [tracker EXCEPT ![next] = @ - 1]
             /\ next' = next + 1
             /\ main' = IF next + 1 = NumPagers THEN "up" ELSE "fork"
             /\ UNCHANGED <<shutDown, pagerSem, faultQueue, pc, cur, proc, fault>>

BeginShutdown == /\ main = "up" /\ MainRuns
                 /\ main' = "post" /\ next' = 0 /\ shutDown' = TRUE
                 /\ UNCHANGED <<tracker, pagerSem, faultQueue, pc, cur, proc, fault>>

\* Mutant: one token for all the pagers.
PostPager_Once == /\ main = "post" /\ next < NumPagers /\ MainRuns
                  /\ pagerSem' = pagerSem + 1
                  /\ next' = NumPagers
                  /\ UNCHANGED <<main, shutDown, tracker, faultQueue, pc, cur, proc, fault>>

PostPager == /\ main = "post" /\ next < NumPagers /\ MainRuns
             /\ pagerSem' = pagerSem + 1
             /\ next' = next + 1
             /\ UNCHANGED <<main, shutDown, tracker, faultQueue, pc, cur, proc, fault>>

\* Mutant: the pagers have no priority over the process that shuts down.
FreeSems_NoPriority == /\ main = "post" /\ next = NumPagers
                       /\ main' = "down"
                       /\ UNCHANGED <<next, shutDown, tracker, pagerSem,
                                      faultQueue, pc, cur, proc, fault>>

FreeSems == /\ main = "post" /\ next = NumPagers /\ MainRuns
            /\ main' = "down"
            /\ UNCHANGED <<next, shutDown, tracker, pagerSem, faultQueue, pc,
                           cur, proc, fault>>
-----------------------------------------------------------------------------
(* A pager.                                                                *)

AnnounceStart(i) == /\ pc[i] = "forked"
                    /\ tracker' = [tracker EXCEPT ![i] = @ + 1]
                    /\ pc' = [pc EXCEPT ![i] = "loop"]
                    /\ UNCHANGED <<main, next, shutDown, pagerSem, faultQueue,
                                   cur, proc, fault>>

\* while (!shutDown)
Loop(i) == /\ pc[i] = "loop"
           /\ pc' = [pc EXCEPT ![i] = IF shutDown THEN "exited" ELSE "sleep"]
           /\ UNCHANGED <<initVars, shutDown, pagerSem, faultQueue, cur, proc, fault>>

\* Mutant: dequeue returns the head and leaves it in the list.
Take_KeepHead(i) == /\ pc[i] = "sleep" /\ pagerSem > 0
                    /\ pagerSem' = pagerSem - 1
                    /\ faultQueue # <<>>
                    /\ pc' = [pc EXCEPT ![i] = "serve"]
                    /\ cur' = [cur EXCEPT ![i] = Head(faultQueue)]
                    /\ UNCHANGED <<initVars, shutDown, faultQueue, proc, fault>>

\* P1_P(pagerSem), then dequeue; an empty queue sends the pager round again.
Take(i) == /\ pc[i] = "sleep" /\ pagerSem > 0
           /\ pagerSem' = pagerSem - 1
           /\ \/ /\ faultQueue = <<>>
                 /\ pc' = [pc EXCEPT ![i] = "loop"]
                 /\ UNCHANGED <<faultQueue, cur>>
              \/ /\ faultQueue # <<>>
                 /\ pc' = [pc EXCEPT ![i] = "serve"]
                 /\ cur' = [cur EXCEPT ![i] = Head(faultQueue)]
                 /\ faultQueue' = Tail(faultQueue)
           /\ UNCHANGED <<initVars, shutDown, proc, fault>>

\* Mutant: the `break` that phase3c.c:502 and 532 have commented out.
Answer_Break(i) == /\ pc[i] = "serve"
                   /\ \E kill \in BOOLEAN :
                        /\ fault[cur[i]].cause = "access" => kill
                        /\ fault' = [fault EXCEPT ![cur[i]].kill = kill,
                                                  ![cur[i]].wait = @ + 1]
                        /\ pc' = [pc EXCEPT ![i] = IF kill THEN "exited" ELSE "loop"]
                   /\ cur' = [cur EXCEPT ![i] = None]
                   /\ UNCHANGED <<initVars, shutDown, pagerSem, faultQueue, proc>>

\* Mutant: the answer is posted in the killing branch and again at the end.
Answer_Twice(i) == /\ pc[i] = "serve"
                   /\ fault' = [fault EXCEPT ![cur[i]].kill = TRUE,
                                             ![cur[i]].wait = @ + 2]
                   /\ pc' = [pc EXCEPT ![i] = "loop"]
                   /\ cur' = [cur EXCEPT ![i] = None]
                   /\ UNCHANGED <<initVars, shutDown, pagerSem, faultQueue, proc>>

\* Sets kill and posts the answer: an access violation always kills, a
\* missing page only when swap space has run out.
Answer(i) == /\ pc[i] = "serve"
             /\ \E kill \in BOOLEAN :
                  /\ fault[cur[i]].cause = "access" => kill
                  /\ fault' = [fault EXCEPT ![cur[i]].kill = kill,
                                            ![cur[i]].wait = @ + 1]
             /\ pc' = [pc EXCEPT ![i] = "loop"]
             /\ cur' = [cur EXCEPT ![i] = None]
             /\ UNCHANGED <<initVars, shutDown, pagerSem, faultQueue, proc>>
-----------------------------------------------------------------------------
(* A process.  The handler runs with interrupts off up to P1_P(wait).      *)

\* Mutant: the pagers are not told of the fault.
Fault_NoV(p, cause) ==
  /\ proc[p] = "user" /\ main \notin {"boot", "down"}
  /\ proc' = [proc EXCEPT ![p] = "fault"]
  /\ fault' = [fault EXCEPT ![p] = [cause |-> cause, kill |-> FALSE, wait |-> 0]]
  /\ faultQueue' = Append(faultQueue, p)
  /\ UNCHANGED <<initVars, shutDown, pagerSem, pc, cur>>

Fault(p, cause) ==
  /\ proc[p] = "user" /\ main \notin {"boot", "down"}
  /\ proc' = [proc EXCEPT ![p] = "fault"]
  /\ fault' = [fault EXCEPT ![p] = [cause |-> cause, kill |-> FALSE, wait |-> 0]]
  /\ faultQueue' = Append(faultQueue, p)
  /\ pagerSem' = pagerSem + 1
  /\ UNCHANGED <<initVars, shutDown, pc, cur>>

\* Mutant: the handler does not wait for the answer.
Resume_NoWait(p) == /\ proc[p] = "fault"
                    /\ proc' = [proc EXCEPT ![p] = "user"]
                    /\ UNCHANGED <<initVars, shutDown, pagerSem, faultQueue, pc,
                                   cur, fault>>

\* P1_P(fault.wait) returns: P1_Quit if killed, else the access is retried.
Resume(p) == /\ proc[p] = "fault" /\ fault[p].wait > 0
             /\ proc' = [proc EXCEPT ![p] = IF fault[p].kill THEN "dead" ELSE "user"]
             /\ fault' = [fault EXCEPT ![p].wait = @ - 1]
             /\ UNCHANGED <<initVars, shutDown, pagerSem, faultQueue, pc, cur>>
-----------------------------------------------------------------------------
MainNext == \/ PagerInit \/ ForkPager \/ JoinPager
            \/ BeginShutdown \/ PostPager \/ FreeSems

PagerNext(i) == AnnounceStart(i) \/ Loop(i) \/ Take(i) \/ Answer(i)

Next == \/ MainNext
        \/ \E i \in Pagers : PagerNext(i)
        \/ \E p \in Procs : \/ \E c \in Causes : Fault(p, c)
                            \/ Resume(p)

\* The kernel keeps running whoever is ready, and the disk answers.  Nothing
\* obliges a process to fault or the VM system to be shut down.
Fairness == /\ WF_vars(ForkPager \/ JoinPager \/ PostPager \/ FreeSems)
            /\ \A i \in Pagers : WF_vars(PagerNext(i))
            /\ \A p \in Procs : WF_vars(Resume(p))

Spec == Init /\ [][Next]_vars
FairSpec == Spec /\ Fairness
-----------------------------------------------------------------------------
TypeOK ==
  /\ main \in {"boot", "fork", "join", "up", "post", "down"}
  /\ next \in 0 .. NumPagers
  /\ shutDown \in BOOLEAN
  /\ tracker \in [Pagers -> 0 .. 1]
  /\ pagerSem \in Nat
  /\ faultQueue \in Seq(Procs)
  /\ pc \in [Pagers -> {"unborn", "forked", "loop", "sleep", "serve", "exited"}]
  /\ cur \in [Pagers -> Procs \cup {None}]
  /\ proc \in [Procs -> {"user", "fault", "dead"}]
  /\ fault \in [Procs -> [cause : Causes, kill : BOOLEAN, wait : 0 .. 1]]

Owed(p) == proc[p] = "fault" /\ fault[p].wait = 0      \* blocked in P1_P(wait)
Queued(p) == \E n \in DOMAIN faultQueue : faultQueue[n] = p
HeldBy(i, p) == pc[i] = "serve" /\ cur[i] = p

(* Every process that waits for an answer is in the queue or in the hands  *)
(* of a pager, in one place only; and whatever is in the queue or held     *)
(* still waits, so no pager can follow a Fault pointer into the stack of a *)
(* process that has moved on (phase3c.c:331, 347, 494).                    *)
FaultConserved ==
  /\ \A p \in Procs : Owed(p) <=> Queued(p) \/ \E i \in Pagers : HeldBy(i, p)
  /\ \A m, n \in DOMAIN faultQueue : faultQueue[m] = faultQueue[n] => m = n
  /\ \A i, j \in Pagers : pc[i] = "serve" /\ pc[j] = "serve" /\ cur[i] = cur[j] => i = j
  /\ \A i \in Pagers, p \in Procs : HeldBy(i, p) => ~Queued(p)

(* pagerSem never counts fewer faults than are queued, and exactly as many *)
(* until shutdown posts its extra tokens: before that no pager dequeues    *)
(* from an empty queue (the NULL test of phase3c.c:496).                   *)
TokensMatchFaults == /\ Len(faultQueue) <= pagerSem
                     /\ ~shutDown => Len(faultQueue) = pagerSem

(* P3PagerShutdown frees pagerSem when no pager is blocked on it or about  *)
(* to block on it: P1_SemFree would fail its assertion (phase3c.c:456), or *)
(* the pager's P1_P would (phase3c.c:493).                                 *)
SemFreedUnused == main = "down" => \A i \in Pagers : pc[i] # "sleep"

(* P3PagerInit returns success only with every pager past its start        *)
(* (phase3c.c:411), and a pager exits only after shutdown began.           *)
StartedWhenUp == /\ main \in {"up", "post", "down"}
                      => \A i \in Pagers : pc[i] \notin {"unborn", "forked"}
                 /\ \A i \in Pagers : pc[i] = "exited" => shutDown

(* A fault is answered.  The only ones that are not are those still in the *)
(* queue when the pagers are told to quit: a pager tests shutDown between  *)
(* faults (phase3c.c:491), so one it has dequeued is answered even then.   *)
FaultAnswered ==
  \A p \in Procs : Owed(p) ~> ~Owed(p) \/ (shutDown /\ Queued(p))

(* Shutdown finishes and every pager leaves its loop.                      *)
ShutdownCompletes ==
  shutDown ~> main = "down" /\ \A i \in Pagers : pc[i] = "exited"
-----------------------------------------------------------------------------
(* The hand-off implements the fault protocol.                             *)
Standing(p) == CASE proc[p] = "user" -> "running"
                 [] proc[p] = "dead" -> "dead"
                 [] proc[p] = "fault" /\ fault[p].wait > 0 -> "answered"
                 [] Owed(p) /\ Queued(p) -> "pending"
                 [] Owed(p) /\ ~Queued(p) -> "held"

Protocol == INSTANCE FaultProtocol WITH st <- [p \in Procs |-> Standing(p)]

(* Every fault follows the protocol: raised, taken by one pager, answered  *)
(* once, and only then does its process go on.                             *)
ImplementsProtocol == Protocol!Spec
=============================================================================
