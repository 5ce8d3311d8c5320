-------------------------- MODULE SwapLayoutProofs ---------------------------
(***************************************************************************)
(* Proofs about SwapLayout, for every disk that GeometryAssumption allows. *)
(* The loop of makeHoldList fills one track after the other; LayoutInv     *)
(* says how far it has come, in sectors, so that the number of Holds       *)
(* bounds the track that is being filled.                                  *)
(***************************************************************************)
EXTENDS SwapLayout, SequenceTheorems, TLAPS

Hold == [track : Nat, start : Nat]
Fits == geo.sectorInPage <= geo.secsInTrack

LayoutType == /\ geo \in Geometries /\ tracks \in Nat /\ startSec \in Nat
              /\ swapSpace \in Seq(Hold) /\ Len(swapSpace) <= Space(geo)

(* The sectors handed out are those before the next Hold, which begins at  *)
(* a multiple of the page size and, if a page fits a track, fits this one. *)
Filled == /\ Len(swapSpace) * geo.sectorInPage = tracks * geo.secsInTrack + startSec
          /\ \E c \in Nat : startSec = c * geo.sectorInPage
          /\ Fits => startSec < geo.secsInTrack

(* Every Hold made so far ends before the next one begins.                 *)
Behind == \A n \in DOMAIN swapSpace :
            \/ swapSpace[n].track < tracks
            \/ /\ swapSpace[n].track = tracks
               /\ swapSpace[n].start + geo.sectorInPage <= startSec

(* Sector s of track t belongs to a Hold.                                  *)
InHold(t, s) == \E n \in DOMAIN swapSpace :
                  /\ swapSpace[n].track = t
                  /\ s - swapSpace[n].start \in 0 .. geo.sectorInPage - 1
Covered == \A t \in Nat : \A s \in 0 .. geo.secsInTrack - 1 :
             t < tracks \/ (t = tracks /\ s < startSec) => InHold(t, s)

LayoutInv == LayoutType /\ Filled /\ Behind /\ HoldsOnDisk /\ HoldsDisjoint /\ Covered
-----------------------------------------------------------------------------
(* Lemmas about numbers.                                                   *)

(* Division with remainder, as C computes it.                              *)
LEMMA DivMod ==
  ASSUME NEW a \in Nat, NEW b \in Nat \ {0}
  PROVE  a = b * (a \div b) + (a % b) /\ a % b \in 0 .. b - 1 /\ a \div b \in Nat
OBVIOUS

(* `startSec % total == 0` (3d:136), with startSec between 1 and total,    *)
(* holds at the end of the track only.                                     *)
LEMMA EndOfTrack ==
  ASSUME NEW a \in Nat \ {0}, NEW b \in Nat \ {0}, a <= b
  PROVE  a % b = 0 <=> a = b
OBVIOUS

(* A multiple below another is below it by one step at least.              *)
LEMMA NextMultiple ==
  ASSUME NEW c \in Nat, NEW k \in Nat, NEW p \in Nat \ {0}, c * p < k * p
  PROVE  c * p + p <= k * p /\ c < k
<1>1. c < k
  OBVIOUS
<1>2. (c + 1) * p <= k * p
  BY <1>1
<1> QED BY <1>1, <1>2

(* A disk that has been laid out to its last sector is in track num.       *)
LEMMA Last ==
  ASSUME NEW t \in Nat \ {0}, NEW num \in Nat, NEW tr \in Nat, NEW st \in Nat,
         num * t = tr * t + st, st < t
  PROVE  num <= tr
<1>1. ASSUME tr < num PROVE FALSE
  <2>1. (tr + 1) * t <= num * t /\ (tr + 1) * t = tr * t + t /\ tr * t \in Nat
    BY <1>1
  <2> QED BY <2>1
<1> QED BY <1>1

(* What P3SwapInit computes: pages fill their tracks, and there are as     *)
(* many Holds as pages fit on the disk, none if a page exceeds a track.    *)
LEMMA SpaceLemma ==
  ASSUME NEW g \in Geometries
  PROVE  /\ g.sectorInPage \in Nat \ {0} /\ g.secsInTrack \in Nat \ {0} /\ g.num \in Nat \ {0}
         /\ Space(g) \in Nat
         /\ g.sectorInPage > g.secsInTrack => Space(g) = 0
         /\ g.sectorInPage <= g.secsInTrack =>
              /\ \E k \in Nat : g.secsInTrack = k * g.sectorInPage
              /\ Space(g) * g.sectorInPage = g.num * g.secsInTrack
<1>1. /\ g.sectorInPage \in Nat \ {0} /\ g.secsInTrack \in Nat \ {0} /\ g.num \in Nat \ {0}
      /\ g.sectorInPage > g.secsInTrack \/ g.secsInTrack % g.sectorInPage = 0
  BY GeometryAssumption
<1> DEFINE p == g.sectorInPage  t == g.secsInTrack  k == t \div p
<1>2. t = p * k + (t % p) /\ t % p \in 0 .. p - 1 /\ k \in Nat
  BY <1>1, DivMod
<1>3. Space(g) = k * g.num
  BY DEF Space
<1> HIDE DEF k
<1>4. ASSUME p > t PROVE k = 0
  <2>1. ASSUME k >= 1 PROVE FALSE
    <3>1. p * k >= p
      BY <1>1, <1>2, <2>1
    <3> QED BY <3>1, <1>1, <1>2, <1>4
  <2> QED BY <2>1, <1>2
<1>5. ASSUME p <= t PROVE t = k * p /\ Space(g) * p = g.num * t
  <2>1. t = k * p
    BY <1>1, <1>2, <1>5
  <2>2. (k * g.num) * p = g.num * (k * p)
    BY <1>1, <1>2
  <2> QED BY <2>1, <2>2, <1>3
<1>6. k \in Nat /\ k * g.num \in Nat
  BY <1>1, <1>2
<1>7. p > t => Space(g) = 0
  BY <1>1, <1>3, <1>4
<1> QED BY <1>1, <1>3, <1>5, <1>6, <1>7
-----------------------------------------------------------------------------
(* Before the first turn of the loop.                                      *)
LEMMA LayoutEmpty ==
  geo \in Geometries /\ swapSpace = <<>> /\ tracks = 0 /\ startSec = 0 => LayoutInv
<1> SUFFICES ASSUME geo \in Geometries, swapSpace = <<>>, tracks = 0, startSec = 0
             PROVE  LayoutInv
  OBVIOUS
<1>1. DOMAIN swapSpace = {} /\ Len(swapSpace) = 0 /\ swapSpace \in Seq(Hold)
  BY EmptySeq
<1>2. /\ geo.sectorInPage \in Nat \ {0} /\ geo.secsInTrack \in Nat \ {0}
      /\ Space(geo) \in Nat
  BY SpaceLemma
<1>3. LayoutType
  BY <1>1, <1>2 DEF LayoutType
<1>4. Filled
  BY <1>1, <1>2 DEF Filled, Fits
<1> QED BY <1>1, <1>2, <1>3, <1>4 DEF LayoutInv, Behind, HoldsOnDisk, HoldsDisjoint, Covered

(* P3SwapShutdown leaves the lists as they were before the first turn.     *)
LEMMA LayoutReset ==
  ASSUME LayoutInv, UNCHANGED geo, swapSpace' = <<>>, tracks' = 0, startSec' = 0
  PROVE  LayoutInv'
<1>1. (geo \in Geometries /\ swapSpace = <<>> /\ tracks = 0 /\ startSec = 0 => LayoutInv)'
  BY LayoutEmpty, PTL
<1> QED BY <1>1 DEF LayoutInv, LayoutType

(* One turn of the loop.  The new Hold lies on the disk because fewer      *)
(* Holds than Space(geo) have been made.                                   *)
LEMMA AddHoldStep == LayoutInv /\ AddHold => LayoutInv'
<1> SUFFICES ASSUME LayoutInv, AddHold PROVE LayoutInv'
  OBVIOUS
<1> DEFINE p == geo.sectorInPage  total == geo.secsInTrack
           len == Len(swapSpace)  new == [track |-> tracks, start |-> startSec]
<1>t. LayoutType /\ Filled /\ Behind /\ HoldsOnDisk /\ HoldsDisjoint /\ Covered
  BY DEF LayoutInv
<1>g. /\ p \in Nat \ {0} /\ total \in Nat \ {0} /\ geo.num \in Nat \ {0}
      /\ Space(geo) \in Nat
      /\ p > total => Space(geo) = 0
      /\ p <= total => /\ \E k \in Nat : total = k * p
                       /\ Space(geo) * p = geo.num * total
  BY <1>t, SpaceLemma DEF LayoutType
<1>a. /\ len < Space(geo) /\ swapSpace' = Append(swapSpace, new) /\ geo' = geo
      /\ NextStart(startSec + p)
  BY DEF AddHold
<1>n. len \in Nat /\ tracks \in Nat /\ startSec \in Nat /\ DOMAIN swapSpace = 1 .. len
  BY <1>t, LenProperties DEF LayoutType
<1>s. /\ swapSpace' \in Seq(Hold) /\ Len(swapSpace') = len + 1
      /\ DOMAIN swapSpace' = 1 .. len + 1
      /\ \A n \in 1 .. len : swapSpace'[n] = swapSpace[n]
      /\ swapSpace'[len + 1] = new
  <2>1. new \in Hold
    BY <1>n DEF Hold
  <2>2. /\ swapSpace' \in Seq(Hold) /\ Len(swapSpace') = len + 1
        /\ \A n \in 1 .. len : swapSpace'[n] = swapSpace[n]
        /\ swapSpace'[len + 1] = new
    BY <1>a, <1>t, <2>1, AppendProperties DEF LayoutType
  <2> QED BY <2>2, LenProperties
<1>p. p <= total
  BY <1>g, <1>a, <1>n
<1>k. PICK k \in Nat : total = k * p
  BY <1>p, <1>g
<1>c. PICK c \in Nat : startSec = c * p
  BY <1>t DEF Filled
<1>f. startSec < total /\ len * p = tracks * total + startSec
  BY <1>p, <1>t DEF Filled, Fits
<1> HIDE DEF p, total, len, new
<1>o. /\ startSec + p <= total /\ tracks < geo.num
      /\ startSec + p = (c + 1) * p
      /\ (len + 1) * p = tracks * total + (startSec + p)
      /\ (tracks + 1) * total = tracks * total + total /\ tracks * total \in Nat
  <2>1. /\ p \in Nat \ {0} /\ total \in Nat \ {0} /\ geo.num \in Nat /\ Space(geo) \in Nat
        /\ k \in Nat /\ total = k * p /\ Space(geo) * p = geo.num * total
        /\ len \in Nat /\ tracks \in Nat /\ startSec \in Nat /\ c \in Nat /\ startSec = c * p
        /\ len < Space(geo) /\ len * p = tracks * total + startSec /\ startSec < total
    BY <1>g, <1>p, <1>a, <1>n, <1>k, <1>c, <1>f
  <2>2. startSec + p <= total
    BY <2>1, NextMultiple
  <2>3. len * p < Space(geo) * p /\ tracks * total \in Nat
    BY <2>1
  <2>4. tracks * total < geo.num * total
    BY <2>1, <2>3
  <2>5. tracks < geo.num
    BY <2>1, <2>4, NextMultiple
  <2>6. /\ (len + 1) * p = len * p + p /\ (tracks + 1) * total = tracks * total + total
        /\ (c + 1) * p = c * p + p
    BY <2>1
  <2> QED BY <2>1, <2>2, <2>3, <2>5, <2>6
<1>e. \/ startSec + p = total /\ tracks' = tracks + 1 /\ startSec' = 0
      \/ startSec + p < total /\ tracks' = tracks /\ startSec' = startSec + p
  <2>1. (startSec + p) % total = 0 <=> startSec + p = total
    <3>1. startSec + p \in Nat \ {0} /\ total \in Nat \ {0} /\ startSec + p <= total
      BY <1>o, <1>g, <1>n
    <3> QED BY <3>1, EndOfTrack, Zenon
  <2>2. \/ /\ (startSec + p) % total = 0
           /\ tracks' = tracks + 1 /\ startSec' = 0
        \/ /\ (startSec + p) % total # 0
           /\ tracks' = tracks /\ startSec' = startSec + p
    BY <1>a DEF NextStart, total
  <2>3. startSec + p # total => startSec + p < total
    BY <1>o, <1>g, <1>n
  <2> QED BY <2>1, <2>2, <2>3, Zenon
<1>w. new.track = tracks /\ new.start = startSec
  BY DEF new
<1>1. LayoutType'
  <2>1. Space(geo)' = Space(geo)
    BY <1>a DEF Space
  <2> QED BY <2>1, <1>t, <1>a, <1>s, <1>e, <1>n, <1>g DEF LayoutType
<1>2. Filled'
  <2>1. (len + 1) * p = tracks' * total + startSec'
    BY <1>e, <1>o, <1>n, <1>g
  <2>2. \E d \in Nat : startSec' = d * p
    <3>1. c + 1 \in Nat /\ 0 \in Nat /\ 0 = 0 * p
      BY <1>g
    <3> QED BY <3>1, <1>e, <1>o
  <2>3. startSec' < total
    BY <1>e, <1>g
  <2> QED BY <2>1, <2>2, <2>3, <1>s, <1>a DEF Filled, Fits, p, total
<1>h. \A n \in 1 .. len : /\ swapSpace[n].track \in Nat /\ swapSpace[n].start \in Nat
  <2>1. \A n \in 1 .. len : swapSpace[n] \in Hold
    BY <1>t, <1>n, ElementOfSeq DEF LayoutType, len
  <2> QED BY <2>1 DEF Hold
<1>3. Behind'
  <2> SUFFICES ASSUME NEW n \in 1 .. len + 1
               PROVE  \/ swapSpace'[n].track < tracks'
                      \/ /\ swapSpace'[n].track = tracks'
                         /\ swapSpace'[n].start + p <= startSec'
    BY <1>s, <1>a DEF Behind, p
  <2>1. CASE n \in 1 .. len
    <3>1. \/ swapSpace[n].track < tracks
          \/ swapSpace[n].track = tracks /\ swapSpace[n].start + p <= startSec
      BY <2>1, <1>t, <1>n DEF Behind, p
    <3>2. /\ swapSpace'[n] = swapSpace[n]
          /\ swapSpace[n].track \in Nat /\ swapSpace[n].start \in Nat
      BY <2>1, <1>s, <1>n, <1>h
    <3>3. tracks \in Nat /\ startSec \in Nat /\ p \in Nat
      BY <1>n, <1>g
    <3> QED BY <3>1, <3>2, <3>3, <1>e
  <2>2. CASE n = len + 1
    BY <2>2, <1>s, <1>e, <1>n, <1>g, <1>w
  <2> QED BY <2>1, <2>2, <1>n
<1>4. HoldsOnDisk'
  <2>1. new.track \in 0 .. geo.num - 1 /\ new.start \in 0 .. total - p
    BY <1>w, <1>o, <1>n, <1>g
  <2> QED BY <2>1, <1>t, <1>s, <1>a, <1>n, <1>w DEF HoldsOnDisk, p, total
<1>5. HoldsDisjoint'
  <2> SUFFICES ASSUME NEW m \in 1 .. len + 1, NEW n \in 1 .. len + 1, m < n,
                      swapSpace'[m].track = swapSpace'[n].track
               PROVE  swapSpace'[m].start + p <= swapSpace'[n].start
    BY <1>s, <1>a DEF HoldsDisjoint, p
  <2>1. CASE n <= len
    BY <2>1, <1>t, <1>s, <1>n DEF HoldsDisjoint, p
  <2>2. CASE n = len + 1
    <3>1. m \in 1 .. len /\ swapSpace[m].track = tracks
      BY <2>2, <1>s, <1>n, <1>w
    <3> QED BY <2>2, <3>1, <1>t, <1>s, <1>n, <1>w, <1>h DEF Behind, p
  <2> QED BY <2>1, <2>2, <1>n
<1>6. Covered'
  <2> SUFFICES ASSUME NEW t \in Nat, NEW s \in 0 .. total - 1,
                      t < tracks' \/ (t = tracks' /\ s < startSec')
               PROVE  InHold(t, s)'
    BY <1>a DEF Covered, total
  <2>1. CASE t < tracks \/ (t = tracks /\ s < startSec)
    <3>1. PICK n \in 1 .. len : /\ swapSpace[n].track = t
                                /\ s - swapSpace[n].start \in 0 .. p - 1
      BY <2>1, <1>t, <1>n DEF Covered, InHold, p, total
    <3> QED BY <3>1, <1>s, <1>a, <1>n DEF InHold, p
  <2>2. CASE t = tracks /\ s \in startSec .. startSec + p - 1
    <3>1. s - new.start \in 0 .. p - 1 /\ new.track = t /\ len + 1 \in 1 .. len + 1
      BY <2>2, <1>w, <1>n, <1>g
    <3> QED BY <3>1, <1>s, <1>a DEF InHold, p
  <2>3. \/ t < tracks \/ (t = tracks /\ s < startSec)
        \/ t = tracks /\ s \in startSec .. startSec + p - 1
    BY <1>e, <1>n, <1>g
  <2> QED BY <2>1, <2>2, <2>3
<1> QED BY <1>1, <1>2, <1>3, <1>4, <1>5, <1>6 DEF LayoutInv

(* A step that leaves the layout alone.                                    *)
LEMMA LayoutSame == LayoutInv /\ UNCHANGED layoutVars => LayoutInv'
BY DEF LayoutInv, layoutVars, LayoutType, Filled, Fits, Behind, HoldsOnDisk,
       HoldsDisjoint, Covered, InHold, Space

(* When the loop has made Space(geo) Holds no sector is left.              *)
LEMMA AllUsed == LayoutInv => DiskUsed
<1> SUFFICES ASSUME LayoutInv, geo.sectorInPage <= geo.secsInTrack,
                    Len(swapSpace) = Space(geo)
             PROVE  \A t \in 0 .. geo.num - 1, s \in 0 .. geo.secsInTrack - 1 : InHold(t, s)
  BY DEF DiskUsed, InHold
<1>1. /\ geo.secsInTrack \in Nat \ {0} /\ geo.num \in Nat \ {0}
      /\ Space(geo) * geo.sectorInPage = geo.num * geo.secsInTrack
  BY SpaceLemma DEF LayoutInv, LayoutType
<1>2. /\ tracks \in Nat /\ startSec \in Nat /\ startSec < geo.secsInTrack
      /\ geo.num * geo.secsInTrack = tracks * geo.secsInTrack + startSec
  BY <1>1 DEF LayoutInv, LayoutType, Filled, Fits
<1>3. geo.num <= tracks
  BY <1>1, <1>2, Last
<1>4. ASSUME NEW t \in 0 .. geo.num - 1, NEW s \in 0 .. geo.secsInTrack - 1
      PROVE  InHold(t, s)
  <2>1. t \in Nat /\ t < tracks
    BY <1>1, <1>2, <1>3
  <2> QED BY <2>1 DEF LayoutInv, Covered
<1> QED BY <1>4

(* The layout of the swap disk is sound at every turn of the loop.         *)
THEOREM LayoutInductive == LayoutSpec => []LayoutInv
<1>1. LayoutInit => LayoutInv
  BY LayoutEmpty DEF LayoutInit
<1>2. LayoutInv /\ [AddHold]_layoutVars => LayoutInv'
  BY AddHoldStep, LayoutSame
<1> QED BY <1>1, <1>2, PTL DEF LayoutSpec

(* Every page is written inside one track of the disk (3d:132-139).        *)
THEOREM LayoutOnDisk == LayoutSpec => []HoldsOnDisk
<1>1. LayoutInv => HoldsOnDisk
  BY DEF LayoutInv
<1> QED BY <1>1, LayoutInductive, PTL

(* Two pages have no sector of the disk in common (3d:132-139).            *)
THEOREM LayoutDisjoint == LayoutSpec => []HoldsDisjoint
<1>1. LayoutInv => HoldsDisjoint
  BY DEF LayoutInv
<1> QED BY <1>1, LayoutInductive, PTL

(* A complete layout uses every sector (3d:188-190).                       *)
THEOREM LayoutComplete == LayoutSpec => []DiskUsed
<1> QED BY AllUsed, LayoutInductive, PTL
=============================================================================
