----------------------------- MODULE SwapLayout ------------------------------
(***************************************************************************)
(* Where phase3d.c puts the pages of the swap disk: the sizes computed by  *)
(* P3SwapInit and the loop of makeHoldList, one turn a step.  P2_DiskRead  *)
(* and P2_DiskWrite are given the track and first sector of a Hold.        *)
(*                                                                         *)
(* Sizes of sectors, tracks and pages are powers of two in USLOSS, so a    *)
(* page divides a track or is larger than one.  For a page that does not   *)
(* divide a track the loop never comes back to sector 0 at its end.        *)
(***************************************************************************)
EXTENDS Integers, Sequences

CONSTANT Geometries  \* [sectorInPage, secsInTrack, num]: the disks considered

ASSUME GeometryAssumption ==
  \A g \in Geometries :
    /\ g \in [sectorInPage : Nat \ {0}, secsInTrack : Nat \ {0}, num : Nat \ {0}]
    /\ \/ g.sectorInPage > g.secsInTrack
       \/ g.secsInTrack % g.sectorInPage = 0

VARIABLES
  geo,               \* what USLOSS_MmuPageSize and P2_DiskSize answer
  swapSpace,         \* the list of Holds: track and first sector of each
  tracks, startSec   \* where the next Hold goes

layoutVars == <<geo, swapSpace, tracks, startSec>>

\* Mutant: the last track is not counted.
Space_LastTrack(g) == (g.secsInTrack \div g.sectorInPage) * (g.num - 1)

Space(g) == (g.secsInTrack \div g.sectorInPage) * g.num

LayoutInit == /\ geo \in Geometries
              /\ swapSpace = <<>> /\ tracks = 0 /\ startSec = 0

\* Mutant: the next track begins when a Hold ends beyond this one.
NextStart_Beyond(end) ==
  \/ end > geo.secsInTrack /\ tracks' = tracks + 1 /\ startSec' = 0
  \/ end <= geo.secsInTrack /\ tracks' = tracks /\ startSec' = end

\* Mutant: the track stays the same.
NextStart_SameTrack(end) ==
  /\ tracks' = tracks
  /\ startSec' = IF end % geo.secsInTrack = 0 THEN 0 ELSE end

NextStart(end) ==
  \/ end % geo.secsInTrack = 0 /\ tracks' = tracks + 1 /\ startSec' = 0
  \/ end % geo.secsInTrack # 0 /\ tracks' = tracks /\ startSec' = end

AddHold == /\ Len(swapSpace) < Space(geo)
           /\ swapSpace' = Append(swapSpace, [track |-> tracks, start |-> startSec])
           /\ NextStart(startSec + geo.sectorInPage)
           /\ UNCHANGED geo

LayoutSpec == LayoutInit /\ [][AddHold]_layoutVars
-----------------------------------------------------------------------------
(* A page is written inside one track of the disk.                         *)
HoldsOnDisk ==
  \A n \in DOMAIN swapSpace :
    /\ swapSpace[n].track \in 0 .. geo.num - 1
    /\ swapSpace[n].start \in 0 .. geo.secsInTrack - geo.sectorInPage

(* Two Holds have no sector in common: what is written for one page never  *)
(* overwrites another.                                                     *)
HoldsDisjoint ==
  \A m, n \in DOMAIN swapSpace :
    m < n /\ swapSpace[m].track = swapSpace[n].track
      => swapSpace[m].start + geo.sectorInPage <= swapSpace[n].start

(* No space is lost: when P3_vmStats.blocks Holds are laid out and a page  *)
(* fits a track, every sector of the disk belongs to one.                  *)
DiskUsed ==
  geo.sectorInPage <= geo.secsInTrack /\ Len(swapSpace) = Space(geo) =>
    \A t \in 0 .. geo.num - 1, s \in 0 .. geo.secsInTrack - 1 :
      \E n \in DOMAIN swapSpace :
        /\ swapSpace[n].track = t
        /\ s - swapSpace[n].start \in 0 .. geo.sectorInPage - 1
=============================================================================
