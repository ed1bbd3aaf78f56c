------------------------------ MODULE Install -------------------------------
(***************************************************************************)
(* boards/common/tvb-install: copies the running TVBian to another disk.   *)
(* The disk is its partition table, its rootfs, and the sectors between    *)
(* them: the board's loaders, and the ranges of preserve-sectors, which    *)
(* are the unit's own. Any step may fail, any may be the last before power *)
(* goes, and what is written and not yet synced may be lost. The owner may *)
(* run it again, from the same disk, any number of times.                  *)
(***************************************************************************)
EXTENDS Integers, Sequences

CONSTANTS
  RawFrom,     \* the first sector past the partition table: 1 for dos, 34 for gpt
  Start,       \* the first sector of the rootfs, the source's and the target's
  RangeLists   \* what /usr/lib/tvb/preserve-sectors may hold

Sector == RawFrom .. Start - 1

\* A board's ranges lie between the table and the rootfs, in the disk's order.
Ascending(list) ==
  /\ list \in Seq([first : Sector, last : Sector])
  /\ \A k \in 1..Len(list) : list[k].first <= list[k].last
  /\ \A k, l \in 1..Len(list) : k < l => list[k].last < list[l].first

ASSUME TableBeforeRoot == RawFrom \in Nat /\ Start \in Nat /\ RawFrom <= Start
ASSUME BoardsAscend == \A list \in RangeLists : Ascending(list)

VARIABLES
  ranges,   \* RANGES, as the board's file lists them
  pc,       \* the step under way, "off" when none is
  table,    \* the target's partition table: "old", or "copied" from the source
  mounted,  \* what the target's mounted rootfs shows; "no" when not mounted
  root,     \* what its medium holds: "old", "torn", or as `mounted`
  k,        \* the range the loop is at, from 1
  pos,      \* the sector it is at
  piece,    \* sectors written by the current dd, not yet synced
  boot      \* sectors whose medium holds the source's

disk == <<table, root, boot>>
vars == <<ranges, pc, table, mounted, root, k, pos, piece, boot>>

\* The unit's own sectors.
Own == UNION {ranges[r].first .. ranges[r].last : r \in 1..Len(ranges)}

Init ==
  /\ ranges \in RangeLists
  /\ pc = "off"
  /\ table = "old"
  /\ mounted = "no"
  /\ root = "old"
  /\ k = 1
  /\ pos = RawFrom
  /\ piece = {}
  /\ boot = {}

-----------------------------------------------------------------------------
(* The rootfs.                                                             *)

\* The checks, the question and its answer.
Begin ==
  /\ pc = "off"
  /\ pc' = "table"
  /\ k' = 1
  /\ pos' = RawFrom
  /\ UNCHANGED <<ranges, mounted, piece, disk>>

\* sfdisk, which syncs what it writes.
Partition ==
  /\ pc = "table"
  /\ pc' = "mkfs"
  /\ table' = "copied"
  /\ UNCHANGED <<ranges, mounted, root, k, pos, piece, boot>>

\* A new file system, mounted.
MakeRoot ==
  /\ pc = "mkfs"
  /\ pc' = "copy"
  /\ root' = "torn"
  /\ mounted' = "empty"
  /\ UNCHANGED <<ranges, table, k, pos, piece, boot>>

CopyRoot ==
  /\ pc = "copy"
  /\ pc' = "uuid"
  /\ mounted' = "files"
  /\ UNCHANGED <<ranges, k, pos, piece, disk>>

\* fstab and extlinux.conf name the new file system.
RenameRoot ==
  /\ pc = "uuid"
  /\ pc' = "umount"
  /\ mounted' = "whole"
  /\ UNCHANGED <<ranges, k, pos, piece, disk>>

\* Mutant: the file system stays mounted until the script's trap.
LeaveMounted ==
  /\ pc = "umount"
  /\ pc' = "boot"
  /\ UNCHANGED <<ranges, k, pos, piece, disk, mounted>>

Unmount ==
  /\ pc = "umount"
  /\ pc' = "boot"
  /\ root' = mounted
  /\ mounted' = "no"
  /\ UNCHANGED <<ranges, table, k, pos, piece, boot>>

-----------------------------------------------------------------------------
(* The loop over the sectors before the rootfs.                            *)

\* Mutant: the copy ends a sector before the rootfs.
SkipFirstShort == IF k <= Len(ranges) THEN ranges[k].first ELSE Start - 1

\* Where the next skipped range begins; the last is the rootfs.
SkipFirst == IF k <= Len(ranges) THEN ranges[k].first ELSE Start

\* Mutant: a skipped range ends before its last sector.
AfterSkipShort == IF k <= Len(ranges) THEN ranges[k].last ELSE 1

\* Where the copy goes on past it; an empty number is 0 to the shell.
AfterSkip == IF k <= Len(ranges) THEN ranges[k].last + 1 ELSE 1

\* Nothing before the range.
Skip ==
  /\ pc = "boot"
  /\ k <= Len(ranges) + 1
  /\ SkipFirst <= pos
  /\ k' = k + 1
  /\ pos' = AfterSkip
  /\ UNCHANGED <<ranges, pc, mounted, piece, disk>>

\* dd writes the sectors before it ...
Write ==
  /\ pc = "boot"
  /\ k <= Len(ranges) + 1
  /\ SkipFirst > pos
  /\ pc' = "fsync"
  /\ piece' = pos .. SkipFirst - 1
  /\ UNCHANGED <<ranges, mounted, k, pos, disk>>

\* ... and syncs them.
Sync ==
  /\ pc = "fsync"
  /\ pc' = "boot"
  /\ boot' = boot \cup piece
  /\ piece' = {}
  /\ k' = k + 1
  /\ pos' = AfterSkip
  /\ UNCHANGED <<ranges, mounted, table, root>>

Finish ==
  /\ pc = "boot"
  /\ k = Len(ranges) + 2
  /\ pc' = "done"
  /\ UNCHANGED <<ranges, mounted, k, pos, piece, disk>>

\* The owner installs once more, perhaps over what is whole.
Again ==
  /\ pc = "done"
  /\ pc' = "off"
  /\ UNCHANGED <<ranges, mounted, k, pos, piece, disk>>

-----------------------------------------------------------------------------
(* What stops it.                                                          *)

Running == pc \notin {"off", "done"}

\* Any part of what a dd had not synced may have reached the medium.
Stop == pc' = "off" /\ mounted' = "no" /\ piece' = {}
        /\ \E reached \in SUBSET piece : boot' = boot \cup reached

\* set -e: the trap unmounts, and that writes what was copied.
Fail ==
  /\ Running
  /\ Stop
  /\ root' = IF mounted = "no" THEN root ELSE mounted
  /\ UNCHANGED <<ranges, table, k, pos>>

\* What the mounted file system had not written is lost, or is not.
PowerLoss ==
  /\ Running
  /\ Stop
  /\ root' \in IF mounted = "no" THEN {root} ELSE {"torn", mounted}
  /\ UNCHANGED <<ranges, table, k, pos>>

Step ==
  \/ Begin \/ Partition \/ MakeRoot \/ CopyRoot \/ RenameRoot \/ Unmount
  \/ Skip \/ Write \/ Sync \/ Finish

Next == Step \/ Again \/ Fail \/ PowerLoss

Spec == Init /\ [][Next]_vars

-----------------------------------------------------------------------------
\* The unit's MAC, serial and keys are never written over, whatever is cut short
\* or run again (docs/emmc-layout.md:82, "that window is the unit's, which
\* tvb-install keeps on the eMMC").
OwnSectorsKept == (boot \cup piece) \cap Own = {}

\* tvb-install:145, "the target keeps its old bootloader until its rootfs is
\* whole": on the medium, and not in a cache.
LoaderLast == [][boot' # boot => root = "whole"]_vars

\* What it reports as installed is the whole source disk, but for the unit's own
\* sectors.
InstalledIsWhole ==
  pc = "done" => table = "copied" /\ root = "whole" /\ boot = Sector \ Own
=============================================================================
