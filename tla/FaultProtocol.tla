---------------------------- MODULE FaultProtocol ----------------------------
(***************************************************************************)
(* What the fault path of phase3c promises to a process that touches a     *)
(* page it has no frame for, whoever serves the fault and however long it  *)
(* takes.  A fault is raised once, taken by one pager, answered once, and  *)
(* only an answer lets the process run again or kills it.  FaultService    *)
(* (the hand-off of phase3c) and Paging (phase3c with the swap code of     *)
(* phase3d) are both shown to implement it.                                *)
(***************************************************************************)
CONSTANT Procs          \* the processes that fault

VARIABLE st             \* st[p]: where process p stands with its fault

States == {"running",   \* no fault outstanding
           "pending",   \* fault raised, no pager has it
           "held",      \* one pager works on it
           "answered",  \* the pager has posted the answer
           "dead"}      \* no process in this slot

Init == st \in [Procs -> {"running", "dead"}]

Become(p, from, to) == /\ st[p] \in from
                       /\ st' = [st EXCEPT ![p] = to]

Spawn(p)  == Become(p, {"dead"}, "running")
Quit(p)   == Become(p, {"running"}, "dead")
Raise(p)  == Become(p, {"running"}, "pending")
Take(p)   == Become(p, {"pending"}, "held")
Answer(p) == Become(p, {"held"}, "answered")
Resume(p) == Become(p, {"answered"}, "running")
Killed(p) == Become(p, {"answered"}, "dead")

Next == \E p \in Procs : \/ Spawn(p) \/ Quit(p)
                         \/ Raise(p) \/ Take(p) \/ Answer(p)
                         \/ Resume(p) \/ Killed(p)

Spec == Init /\ [][Next]_st
=============================================================================
