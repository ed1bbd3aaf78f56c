--------------------------- MODULE InstallProofs ----------------------------
(***************************************************************************)
(* For any ascending list of ranges and any place of the rootfs: the       *)
(* unit's sectors are kept, the loader comes last, and what is reported    *)
(* installed is whole.                                                     *)
(***************************************************************************)
EXTENDS Install, TLAPS

\* Up to where the sectors before the rootfs have been dealt with.
Reach == IF k <= Len(ranges) + 1 THEN pos ELSE Start

Covered == \A s \in Sector : s < Reach => s \in boot \cup Own

\* Where the loop is; once a copy has come to it, the rootfs is whole.
Loop ==
  /\ k \in 1 .. Len(ranges) + 2
  /\ k <= Len(ranges) + 1 => pos = IF k = 1 THEN RawFrom ELSE ranges[k - 1].last + 1
  /\ table = "copied" /\ root = "whole" /\ mounted = "no"
  /\ Covered

InstallInv ==
  /\ ranges \in RangeLists
  /\ boot \subseteq Sector \ Own
  /\ piece \subseteq Sector \ Own
  /\ pc # "fsync" => piece = {}
  /\ pc \in {"table", "mkfs", "copy", "uuid", "umount"} => k = 1 /\ pos = RawFrom
  /\ pc \in {"mkfs", "copy", "uuid", "umount"} => table = "copied"
  /\ pc \in {"table", "mkfs"} => mounted = "no"
  /\ pc = "umount" => mounted = "whole"
  /\ pc \in {"boot", "fsync"} => Loop
  /\ pc = "fsync" => k <= Len(ranges) + 1 /\ piece = pos .. SkipFirst - 1
  /\ pc \in {"off", "done"} => mounted = "no"
  /\ InstalledIsWhole

LEMMA SeqElements ==
  ASSUME NEW S, NEW q \in Seq(S)
  PROVE  Len(q) \in Nat /\ \A i \in 1..Len(q) : q[i] \in S
OBVIOUS

\* The loop's place in an ascending list: all ranges before it end before pos,
\* the one it is at and those after begin at SkipFirst or later, and the next
\* place is past the one it is at.
LEMMA Places ==
  ASSUME ranges \in RangeLists, k \in 1 .. Len(ranges) + 1,
         pos = IF k = 1 THEN RawFrom ELSE ranges[k - 1].last + 1
  PROVE  /\ Len(ranges) \in Nat
         /\ pos \in Int /\ RawFrom <= pos /\ pos <= Start
         /\ SkipFirst \in Int /\ SkipFirst <= Start
         /\ \A r \in 1..Len(ranges) : /\ ranges[r].first \in Sector /\ ranges[r].last \in Sector
                                      /\ r < k => ranges[r].last < pos
                                      /\ r >= k => SkipFirst <= ranges[r].first
         /\ k <= Len(ranges) => /\ AfterSkip = ranges[k].last + 1
                                /\ SkipFirst = ranges[k].first
                                /\ ranges[k].first <= ranges[k].last
<1>1. Ascending(ranges)
  BY BoardsAscend
<1>2. /\ ranges \in Seq([first : Sector, last : Sector])
      /\ Len(ranges) \in Nat
      /\ \A r \in 1..Len(ranges) : ranges[r] \in [first : Sector, last : Sector]
  <2>1. ranges \in Seq([first : Sector, last : Sector])
    BY <1>1, Zenon DEF Ascending
  <2> HIDE DEF Sector
  <2> QED BY <2>1, SeqElements
<1>3. \A r \in 1..Len(ranges) :
        ranges[r].first \in Sector /\ ranges[r].last \in Sector
        /\ ranges[r].first <= ranges[r].last
  BY <1>1, <1>2 DEF Ascending
<1>4. \A r, q \in 1..Len(ranges) : r < q => ranges[r].last < ranges[q].first
  BY <1>1 DEF Ascending
<1>5. RawFrom \in Nat /\ Start \in Nat /\ RawFrom <= Start
  BY TableBeforeRoot
<1>6. pos \in Int /\ RawFrom <= pos /\ pos <= Start
  <2>1. CASE k = 1
    BY <1>5, <2>1
  <2>2. CASE k # 1
    <3>1. k - 1 \in 1..Len(ranges) /\ pos = ranges[k - 1].last + 1
      BY <1>2, <2>2
    <3> QED BY <1>3, <1>5, <3>1 DEF Sector
  <2> QED BY <2>1, <2>2
<1>7. SkipFirst \in Int /\ SkipFirst <= Start
  BY <1>2, <1>3, <1>5 DEF SkipFirst, Sector
<1>8. ASSUME NEW r \in 1..Len(ranges), r < k PROVE ranges[r].last < pos
  <2>1. k # 1 /\ pos = ranges[k - 1].last + 1 /\ k - 1 \in 1..Len(ranges)
    BY <1>2, <1>8
  <2>2. CASE r = k - 1
    BY <1>3, <2>1, <2>2 DEF Sector
  <2>3. CASE r < k - 1
    <3>1. ranges[r].last < ranges[k - 1].first /\ ranges[k - 1].first <= ranges[k - 1].last
      BY <1>3, <1>4, <2>1, <2>3
    <3> QED BY <1>3, <2>1, <3>1 DEF Sector
  <2> QED BY <1>8, <2>2, <2>3
<1>9. ASSUME NEW r \in 1..Len(ranges), r >= k PROVE SkipFirst <= ranges[r].first
  <2>1. k \in 1..Len(ranges) /\ SkipFirst = ranges[k].first
    BY <1>2, <1>9 DEF SkipFirst
  <2>2. CASE r = k
    BY <1>3, <2>1, <2>2 DEF Sector
  <2>3. CASE r > k
    <3>1. ranges[k].last < ranges[r].first /\ ranges[k].first <= ranges[k].last
      BY <1>3, <1>4, <2>1, <2>3
    <3> QED BY <1>3, <2>1, <3>1 DEF Sector
  <2> QED BY <1>9, <2>2, <2>3
<1>10. k <= Len(ranges) => /\ AfterSkip = ranges[k].last + 1
                           /\ SkipFirst = ranges[k].first
                           /\ ranges[k].first <= ranges[k].last
  BY <1>2, <1>3 DEF AfterSkip, SkipFirst
<1> QED BY <1>2, <1>3, <1>6, <1>7, <1>8, <1>9, <1>10

\* What dd writes is never the unit's.
LEMMA PiecesApart ==
  ASSUME ranges \in RangeLists, k \in 1 .. Len(ranges) + 1,
         pos = IF k = 1 THEN RawFrom ELSE ranges[k - 1].last + 1
  PROVE  pos .. SkipFirst - 1 \subseteq Sector \ Own
<1> SUFFICES ASSUME NEW s \in pos .. SkipFirst - 1 PROVE s \in Sector /\ s \notin Own
  OBVIOUS
<1>1. s \in Sector
  BY Places, TableBeforeRoot DEF Sector
<1>2. ASSUME NEW r \in 1..Len(ranges) PROVE s \notin ranges[r].first .. ranges[r].last
  BY Places DEF Sector
<1> QED BY <1>1, <1>2 DEF Own

\* Past a range, everything before it is copied or the unit's.
LEMMA CoversOn ==
  ASSUME ranges \in RangeLists, k \in 1 .. Len(ranges) + 1,
         pos = IF k = 1 THEN RawFrom ELSE ranges[k - 1].last + 1,
         Covered, NEW more, \A s \in pos .. SkipFirst - 1 : s \in more,
         NEW s \in Sector, s < IF k <= Len(ranges) THEN AfterSkip ELSE Start
  PROVE  s \in boot \cup more \cup Own
<1>1. s \in Int
  BY TableBeforeRoot DEF Sector
<1>2. CASE s < pos
  BY <1>2 DEF Covered, Reach
<1>3. CASE s >= pos /\ s < SkipFirst
  BY <1>1, <1>3, Places
<1>4. CASE s >= pos /\ s >= SkipFirst
  <2>1. k <= Len(ranges)
    <3> SUFFICES ASSUME ~(k <= Len(ranges)) PROVE FALSE
      OBVIOUS
    <3>1. s < Start
      OBVIOUS
    <3>2. SkipFirst = Start
      BY DEF SkipFirst
    <3> QED BY <1>1, <1>4, <3>1, <3>2, TableBeforeRoot
  <2>2. k \in 1..Len(ranges) /\ s \in ranges[k].first .. ranges[k].last
    BY <1>1, <1>4, <2>1, Places DEF Sector
  <2> QED BY <2>2 DEF Own
<1> QED BY <1>1, <1>2, <1>3, <1>4, Places

LEMMA InstallInit == Init => InstallInv
<1> SUFFICES ASSUME Init PROVE InstallInv
  OBVIOUS
<1> QED BY DEF Init, InstallInv, InstalledIsWhole

\* What a step leaves of the ranges: the unit's sectors stay the same ones.
LEMMA RangesStay == [Next]_vars => ranges' = ranges /\ Own' = Own
<1> SUFFICES ASSUME [Next]_vars PROVE ranges' = ranges /\ Own' = Own
  OBVIOUS
<1>1. ranges' = ranges
  BY DEF Next, Step, Begin, Partition, MakeRoot, CopyRoot, RenameRoot, Unmount,
         Skip, Write, Sync, Finish, Again, Fail, PowerLoss, vars
<1> QED BY <1>1 DEF Own

\* The loop's place moves past a range, what was missing before it copied.
LEMMA LoopOn ==
  ASSUME ranges \in RangeLists, Loop, k <= Len(ranges) + 1,
         ranges' = ranges, k' = k + 1, pos' = AfterSkip,
         table' = table, root' = root, mounted' = mounted,
         NEW more, \A s \in pos .. SkipFirst - 1 : s \in more, boot' = boot \cup more
  PROVE  Loop'
<1>1. k \in 1 .. Len(ranges) + 1
  BY DEF Loop
<1>2. pos = IF k = 1 THEN RawFrom ELSE ranges[k - 1].last + 1
  BY DEF Loop
<1>3. Len(ranges) \in Nat
  BY <1>1, <1>2, Places
<1>4. k' \in 1 .. Len(ranges') + 2
  BY <1>1, <1>3
<1>5. k' <= Len(ranges') + 1 => k <= Len(ranges) /\ k' # 1 /\ k' - 1 = k
  BY <1>1, <1>3
<1>6. k' <= Len(ranges') + 1
        => pos' = IF k' = 1 THEN RawFrom ELSE ranges'[k' - 1].last + 1
  BY <1>1, <1>2, <1>5, Places
<1>7. Covered'
  <2>1. SUFFICES ASSUME NEW s \in Sector, s < Reach' PROVE s \in boot' \cup Own'
    BY DEF Covered
  <2>2. Reach' = IF k <= Len(ranges) THEN AfterSkip ELSE Start
    BY <1>1, <1>3 DEF Reach
  <2>3. s \in boot \cup more \cup Own
    BY <1>1, <1>2, <2>1, <2>2, CoversOn DEF Loop
  <2> QED BY <2>3 DEF Own
<1> QED BY <1>4, <1>6, <1>7 DEF Loop

LEMMA InstallStep == InstallInv /\ [Next]_vars => InstallInv'
<1> SUFFICES ASSUME InstallInv, [Next]_vars PROVE InstallInv'
  OBVIOUS
<1>1. ranges' = ranges /\ Own' = Own
  BY RangesStay
<1>2. CASE Begin
  BY <1>1, <1>2 DEF Begin, InstallInv, InstalledIsWhole, disk
<1>3. CASE Partition
  BY <1>1, <1>3 DEF Partition, InstallInv, InstalledIsWhole
<1>4. CASE MakeRoot
  BY <1>1, <1>4 DEF MakeRoot, InstallInv, InstalledIsWhole
<1>5. CASE CopyRoot
  BY <1>1, <1>5 DEF CopyRoot, InstallInv, InstalledIsWhole, disk
<1>6. CASE RenameRoot
  BY <1>1, <1>6 DEF RenameRoot, InstallInv, InstalledIsWhole, disk
<1>7. CASE Unmount
  <2>1. /\ k = 1 /\ pos = RawFrom /\ ranges \in RangeLists
        /\ table = "copied" /\ mounted = "whole"
    BY <1>7 DEF Unmount, InstallInv
  <2>2. Len(ranges) \in Nat
    BY <2>1, BoardsAscend, SeqElements, Zenon DEF Ascending
  <2>3. Covered'
    BY <1>7, <2>1, <2>2, TableBeforeRoot DEF Covered, Reach, Unmount, Sector
  <2>4. Loop'
    BY <1>7, <2>1, <2>2, <2>3 DEF Loop, Unmount
  <2> QED BY <1>1, <1>7, <2>4 DEF Unmount, InstallInv, InstalledIsWhole
<1>8. CASE Skip
  <2>1. ranges \in RangeLists /\ Loop /\ k <= Len(ranges) + 1
    <3>1. ranges \in RangeLists /\ Loop
      BY <1>8 DEF Skip, InstallInv
    <3> QED BY <1>8, <3>1 DEF Skip
  <2>2. \A s \in pos .. SkipFirst - 1 : s \in {}
    <3>1. k \in 1 .. Len(ranges) + 1 /\ pos = IF k = 1 THEN RawFrom ELSE ranges[k - 1].last + 1
      BY <2>1 DEF Loop
    <3>2. pos \in Int /\ SkipFirst \in Int
      BY <2>1, <3>1, Places
    <3> QED BY <1>8, <3>2 DEF Skip
  <2>3. Loop'
    BY <1>8, <2>1, <2>2, LoopOn, boot' = boot \cup {} DEF Skip, disk
  <2> QED BY <1>1, <1>8, <2>3 DEF Skip, InstallInv, InstalledIsWhole, disk
<1>9. CASE Write
  <2>1. ranges \in RangeLists /\ Loop /\ k <= Len(ranges) + 1
    <3>1. ranges \in RangeLists /\ Loop
      BY <1>9 DEF Write, InstallInv
    <3> QED BY <1>9, <3>1 DEF Write
  <2>2. pos .. SkipFirst - 1 \subseteq Sector \ Own
    BY <2>1, PiecesApart DEF Loop
  <2>3. Loop'
    BY <1>1, <1>9, <2>1 DEF Write, Loop, Covered, Reach, disk
  <2>4. SkipFirst' = SkipFirst
    BY <1>1, <1>9 DEF Write, SkipFirst
  <2> QED BY <1>1, <1>9, <2>1, <2>2, <2>3, <2>4 DEF Write, InstallInv, InstalledIsWhole, disk
<1>10. CASE Sync
  <2>1. ranges \in RangeLists /\ Loop /\ k <= Len(ranges) + 1 /\ piece = pos .. SkipFirst - 1
    BY <1>10 DEF Sync, InstallInv
  <2>2. Loop'
    BY <1>1, <1>10, <2>1, LoopOn DEF Sync
  <2> QED BY <1>1, <1>10, <2>2 DEF Sync, InstallInv, InstalledIsWhole
<1>11. CASE Finish
  <2>1. ranges \in RangeLists /\ Loop /\ k = Len(ranges) + 2
    BY <1>11 DEF Finish, InstallInv
  <2>2. Len(ranges) \in Nat
    BY <2>1, BoardsAscend, SeqElements, Zenon DEF Ascending
  <2>3. Reach = Start
    BY <2>1, <2>2 DEF Reach
  <2>4. Sector \subseteq boot \cup Own
    BY <2>1, <2>3, TableBeforeRoot DEF Loop, Covered, Sector
  <2>5. boot = Sector \ Own
    BY <2>4 DEF InstallInv
  <2> QED BY <1>1, <1>11, <2>1, <2>5 DEF Finish, InstallInv, InstalledIsWhole, Loop, disk, Sector
<1>12. CASE Again
  BY <1>1, <1>12 DEF Again, InstallInv, InstalledIsWhole, disk
<1>13. CASE Fail
  <2>1. boot' \subseteq Sector \ Own
    BY <1>13 DEF Fail, Stop, InstallInv
  <2> QED BY <1>1, <1>13, <2>1 DEF Fail, Stop, InstallInv, InstalledIsWhole
<1>14. CASE PowerLoss
  <2>1. boot' \subseteq Sector \ Own
    BY <1>14 DEF PowerLoss, Stop, InstallInv
  <2> QED BY <1>1, <1>14, <2>1 DEF PowerLoss, Stop, InstallInv, InstalledIsWhole
<1>15. CASE UNCHANGED vars
  BY <1>1, <1>15 DEF vars, InstallInv, InstalledIsWhole, Loop, Covered, Reach, SkipFirst
<1> QED BY <1>2, <1>3, <1>4, <1>5, <1>6, <1>7, <1>8, <1>9, <1>10, <1>11, <1>12,
           <1>13, <1>14, <1>15 DEF Next, Step

LEMMA InstallAlways == Spec => []InstallInv
<1>1. Init => InstallInv
  BY InstallInit
<1>2. InstallInv /\ [Next]_vars => InstallInv'
  BY InstallStep
<1> QED BY <1>1, <1>2, PTL DEF Spec

\* tvb-install's loop over RANGES: on no disk, whatever is cut short or run again,
\* is a sector of preserve-sectors written.
THEOREM OwnAreKept == Spec => []OwnSectorsKept
<1>1. InstallInv => OwnSectorsKept
  BY DEF InstallInv, OwnSectorsKept
<1> QED BY <1>1, InstallAlways, PTL

\* "Installed to" is printed only over a disk that is the source's but for the
\* unit's own sectors.
THEOREM DoneIsWhole == Spec => []InstalledIsWhole
<1>1. InstallInv => InstalledIsWhole
  BY DEF InstallInv
<1> QED BY <1>1, InstallAlways, PTL

\* A sector of the loaders reaches the medium only after the whole rootfs has:
\* until then the target keeps its old ones.
THEOREM LoaderIsLast == Spec => LoaderLast
<1>1. InstallInv /\ [Next]_vars => [boot' # boot => root = "whole"]_vars
  <2> SUFFICES ASSUME InstallInv, Next, boot' # boot PROVE root = "whole"
    BY DEF vars
  <2>1. CASE Sync
    BY <2>1 DEF Sync, InstallInv, Loop
  <2>2. CASE Stop
    <3>1. piece # {}
      BY <2>2 DEF Stop
    <3> QED BY <3>1 DEF InstallInv, Loop
  <2>3. CASE Begin \/ Partition \/ MakeRoot \/ CopyRoot \/ RenameRoot \/ Unmount
    BY <2>3 DEF Begin, Partition, MakeRoot, CopyRoot, RenameRoot, Unmount, disk
  <2>4. CASE Skip \/ Write \/ Finish \/ Again
    BY <2>4 DEF Skip, Write, Finish, Again, disk
  <2> QED BY <2>1, <2>2, <2>3, <2>4 DEF Next, Step, Fail, PowerLoss
<1> QED BY <1>1, InstallAlways, PTL DEF Spec, LoaderLast
=============================================================================
