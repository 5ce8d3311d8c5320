---------------------------- MODULE PrivateMemory ----------------------------
(***************************************************************************)
(* What the VM system promises to the processes: each has pages of its     *)
(* own, zero until stored to, that keep what was last stored until the     *)
(* process is gone.  Where a page is, in a frame, on the swap disk or on   *)
(* its way, does not show.                                                 *)
(***************************************************************************)
CONSTANTS Procs, Page,
          Zero,              \* what an untouched page holds
          Gone,              \* the image of a slot without a process
          Stamps(_, _)       \* Stamps(p, g): what p can store in its page g

VARIABLE image               \* image[p][g]: what p finds in its page g

Blank == [g \in Page |-> Zero]

Init == image = [p \in Procs |-> Blank]

Store(p, g, v) == /\ image[p] # Gone
                  /\ image' = [image EXCEPT ![p][g] = v]

\* The process quits; the next one in its slot starts from blank pages.
Quit(p)  == image[p] # Gone /\ image' = [image EXCEPT ![p] = Gone]
Start(p) == image[p] = Gone /\ image' = [image EXCEPT ![p] = Blank]

Next == \E p \in Procs : \/ \E g \in Page : \E v \in Stamps(p, g) : Store(p, g, v)
                         \/ Quit(p) \/ Start(p)

Spec == Init /\ [][Next]_image
=============================================================================
