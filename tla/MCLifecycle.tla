----------------------------- MODULE MCLifecycle -----------------------------
(***************************************************************************)
(* VmLifecycle for TLC: numbers of pagers on both sides of the limits of   *)
(* P3_VmInit and P3PagerInit, and disks whose pages fill a track, divide   *)
(* it, or are larger than it.                                              *)
(***************************************************************************)
EXTENDS VmLifecycle

TriedCounts == {-1, 0, 1, 3, 4}
Disks == [sectorInPage : {1, 2, 4}, secsInTrack : {2, 4}, num : {1, 3}]

TwoPagers == {2}
OneDisk == [sectorInPage : {8}, secsInTrack : {16}, num : {1}]
=============================================================================
