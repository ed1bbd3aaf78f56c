------------------------------ MODULE AmlBurn -------------------------------
(***************************************************************************)
(* tools/amlcmd/amlcmd.c: a host moves sectors between its files and a box  *)
(* in USB burning mode. backup and restore go to the eMMC's sectors a       *)
(* window at a time, through the box's staging memory; read and write to    *)
(* that memory or to a partition; rom to memory, from the mask ROM. The box *)
(* is its disks, that memory, its mode, and what it has queued on the bulk  *)
(* IN, which outlives the process that asked for it. Any command or         *)
(* transfer may fail, done by the box or not; the process may be killed;    *)
(* the box may lose power.                                                  *)
(*                                                                         *)
(* A chunk (SLOT) stands for one sector. A fresh gadget eats the start of   *)
(* its first command, which then fails; connect spends one on that.         *)
(***************************************************************************)
EXTENDS Integers, Sequences

CONSTANTS
  Port,        \* the SDIO ports' names
  Default,     \* AML_MMC_DEV's default
  Layouts,     \* the boxes: which port has the eMMC, and the sectors on each
  Window,      \* AML_WINDOW_MIB, in sectors
  Guarded,     \* the key window: refused until the guard is lifted
  PartFirst,   \* a partition of the eMMC: its first sector
  PartLen,     \*   and how many it has
  ImageLen,    \* the sectors of the file to restore
  Starts,      \* where a backup or a restore may start
  Counts,      \* how much a backup may be asked for, 0 for the rest of the disk
  Width,       \* 2^64 of a count, in sectors: more than any disk has
  Verbs,       \* bound: the verbs run
  AllAnswer,   \* a disk that can read a sector says so when asked
  FileReads,   \* the image file can be read to its end
  FileTakes    \* the file a rom read writes takes all it is given

ASSUME SizesArePositive == {Window, ImageLen, PartLen} \subseteq Nat \ {0}
ASSUME FirstIsASector == PartFirst \in Nat
ASSUME AskedInSectors == Starts \cup Counts \subseteq Nat
ASSUME DefaultIsAPort == Default \in Port
ASSUME CountsWrap == Width \in Nat \ {0}
\* The guarded window "sits in the middle of the device, not at an end" (:335).
ASSUME LayoutsAreBoxes ==
  \A b \in Layouts :
    /\ b.emmc \in Port
    /\ b.sectors \in [Port -> Nat]
    /\ b.sectors[b.emmc] \in Nat \ {0}
    /\ b.sectors[b.emmc] - 1 \notin Guarded

VARIABLES
  box,      \* the layout
  disk,     \* disk[d][s]: the sectors of each port's disk
  stage,    \* the staging memory
  pipe,     \* queued on the bulk IN
  open,     \* the key guard is lifted
  mode,     \* "away", "waiting" to be identified, the "gadget", the mask "rom"
  usbBoot,  \* set_usb_boot 2: a reset goes to the mask ROM
  host,     \* amlcmd's process
  killed,   \* a transfer was killed, and `amlcmd drain` not yet run
  left      \* the verbs still to run

onBox == <<stage, pipe, open, mode, usbBoot>>
link == <<mode, usbBoot>>
vars == <<box, disk, onBox, host, killed, left>>

\* What a sector or a chunk may hold.
Own(d, s) == [of |-> d, at |-> s]
Image(i) == [of |-> "image", at |-> i]
Size(n) == [of |-> "size", at |-> n]
Junk == [of |-> "junk", at |-> 0]
Zeros == [of |-> "zeros", at |-> 0]
Pattern == [of |-> "pattern", at |-> 0]
Ack(good) == [of |-> "ack", at |-> IF good THEN 1 ELSE 0]

Off == [pc |-> "off", verb |-> "none", media |-> "mem", named |-> FALSE,
        start |-> 0, count |-> 0, off |-> 0,
        port |-> Default, sectors |-> 0, into |-> "dev", i |-> 0, file |-> <<>>]

Init ==
  /\ box \in Layouts
  /\ disk = [d \in Port |-> [s \in 0 .. box.sectors[d] - 1 |-> Own(d, s)]]
  /\ stage = [j \in 0 .. Window - 1 |-> Junk]
  /\ pipe = <<>>
  /\ open = FALSE
  /\ mode = "away" /\ usbBoot = FALSE
  /\ host = Off
  /\ killed = FALSE
  /\ left = Verbs

At(pc) == host.pc = pc
Running == ~ (At("off") \/ At("done"))
Go(pc) == host' = [host EXCEPT !.pc = pc]
More(off, count) == IF off < count THEN "window" ELSE "done"

\* The sectors of the transfer at hand: the next window's, or all of a file's.
Chunks ==
  IF host.verb \in {"backup", "restore"} /\ host.count - host.off > Window THEN Window
  ELSE host.count - host.off

\* exit(1): what is queued stays queued.
Exit == host' = Off

\* Mutant: a failed transfer is not drained.
DieUndrained == host' = Off /\ pipe' = pipe

\* die(): drain_in(), then exit.
Die == host' = Off /\ pipe' = <<>>

\* Whether a disk has these sectors and lets them be read and written.
May(d, s) == s \in 0 .. box.sectors[d] - 1 /\ (open \/ s \notin Guarded)
MayAll(d, first, n) == \A s \in first .. first + n - 1 : May(d, s)

\* Whether the store layer gives the i-th sector of the partition.
MayStore(i) == i < PartLen /\ May(box.emmc, PartFirst + i)

-----------------------------------------------------------------------------
(* A verb, up to its device.                                               *)

\* After a kill the owner drains first (docs/amlogic-burning-mode.md:70), and he
\* names the eMMC if he names a device.
Begin(verb, media, start, count) ==
  /\ At("off")
  /\ ~ killed
  /\ left > 0
  /\ left' = left - 1
  /\ \E named \in BOOLEAN :
       /\ named => verb \in {"backup", "restore"}
       /\ host' = [Off EXCEPT !.pc = "identify", !.verb = verb, !.media = media,
                              !.start = start, !.count = count, !.named = named,
                              !.port = IF named THEN box.emmc ELSE Default]
  /\ UNCHANGED <<box, disk, onBox, killed>>

\* connect, or status: at the end of them nothing has changed but the box's mode.
Connect ==
  /\ At("off")
  /\ host' = [Off EXCEPT !.pc = "identify", !.verb = "connect"]
  /\ UNCHANGED <<box, disk, onBox, killed, left>>

NoBox ==
  /\ At("identify")
  /\ mode = "away"
  /\ Exit
  /\ UNCHANGED <<box, disk, onBox, killed, left>>

IsRomVerb == host.verb \in {"rom read", "rom write", "rom run"}

\* Where a verb begins.
First ==
  CASE host.verb \in {"backup", "restore"} -> "lift"
    [] host.verb \in {"read", "write", "probe"} -> "window"
    [] host.verb \in {"set_usb_boot", "reset"} -> "pass"
    [] IsRomVerb -> "rom"
    [] OTHER -> "done"

\* Mutant: what answers is not asked which gadget it is.
GoesOnAnyway == TRUE

\* The mask ROM takes no command, and the gadget no rom verb.
GoesOn == IF mode = "rom" THEN IsRomVerb \/ host.verb = "connect" ELSE ~ IsRomVerb

\* IDENTIFY: an answer holds the link.
Identify ==
  /\ At("identify")
  /\ mode # "away"
  /\ mode' = IF mode = "rom" THEN "rom" ELSE "gadget"
  /\ \/ GoesOn /\ Go(First) /\ UNCHANGED pipe
     \/ ~ GoesOn /\ mode = "rom" /\ Exit /\ UNCHANGED pipe
     \/ ~ GoesOn /\ mode # "rom" /\ Die
  /\ UNCHANGED <<box, disk, stage, open, usbBoot, killed, left>>

\* What a disk has from the verb's start on; past its end the count wraps.
Rest(sectors) == (sectors - host.start) % Width

\* The device is made out; what is left to ask is how large it is, of a backup to
\* its end.
Use(port) ==
  LET ask == host.count = 0 /\ host.sectors = 0
      told == host.count = 0 /\ host.sectors # 0
      rest == Rest(host.sectors)
  IN  host' = [host EXCEPT !.port = port, !.into = "count",
                           !.pc = CASE ask -> "ask"
                                    [] told -> More(0, rest)
                                    [] OTHER -> "window",
                           !.count = IF told THEN rest ELSE @]

\* store disprotect key: whatever the answer, the verb goes on.
Lift ==
  /\ At("lift")
  /\ open' \in {open, TRUE}
  /\ IF host.named THEN Use(host.port) ELSE Go("ask")
  /\ UNCHANGED <<box, disk, stage, pipe, link, killed, left>>

\* No device was made out: a restore stops, a backup takes the default, a probe
\* says so.
Unresolved ==
  \/ host.verb = "restore" /\ Die
  \/ host.verb = "backup" /\ Use(Default) /\ UNCHANGED pipe
  \/ host.verb = "probe" /\ Go("done") /\ UNCHANGED pipe

\* amlmmc size wholeDev, into the staging memory.
AskSize ==
  /\ At("ask")
  /\ stage' = [stage EXCEPT ![0] = Size(box.sectors[box.emmc])]
  /\ host' = [host EXCEPT !.pc = "head", !.i = 0]
  /\ UNCHANGED <<box, disk, pipe, open, link, killed, left>>

\* A probe asks for the size by itself, then to tell the device.
SizeRefused ==
  /\ At("ask")
  /\ CASE host.into = "print" -> host' = [host EXCEPT !.into = "dev"] /\ UNCHANGED pipe
       [] host.into = "dev" -> Unresolved
       [] OTHER -> Die
  /\ stage' \in {stage, [stage EXCEPT ![0] = Size(box.sectors[box.emmc])]}
  /\ UNCHANGED <<box, disk, open, link, killed, left>>

\* Mutant: any port that answers is the eMMC.
FoundAny(answered) == answered

\* Two that answer alike cannot be told apart.
Found(answered) == {d \in answered : answered = {d}}

\* Which ports can read the last sector of that size.
Probe ==
  /\ At("probe")
  /\ \E answered \in SUBSET {d \in Port : May(d, host.sectors - 1)} :
       /\ AllAnswer => answered = {d \in Port : May(d, host.sectors - 1)}
       /\ IF Found(answered) = {} THEN Unresolved
          ELSE /\ IF host.verb = "probe" THEN Go("done")
                  ELSE \E d \in Found(answered) : Use(d)
               /\ UNCHANGED pipe
       /\ stage' \in {stage} \cup
                     {[stage EXCEPT ![0] = disk[d][host.sectors - 1]] : d \in answered}
  /\ UNCHANGED <<box, disk, open, link, killed, left>>

-----------------------------------------------------------------------------
(* upload(): the box's memory, or a partition, to the host.                *)

\* The window a backup is at, in the staging memory.
Loaded ==
  [j \in DOMAIN stage |->
     IF j < Chunks THEN disk[host.port][host.start + host.off + j] ELSE stage[j]]

\* Mutant: a refused read goes unnoticed.
ReadWindowAnyway ==
  /\ At("window")
  /\ host.verb = "backup"
  /\ stage' = IF MayAll(host.port, host.start + host.off, Chunks) THEN Loaded ELSE stage
  /\ host' = [host EXCEPT !.pc = "head", !.into = "file", !.i = 0]
  /\ UNCHANGED <<box, disk, pipe, open, link, killed, left>>

\* amlmmc read.
ReadWindow ==
  /\ At("window")
  /\ host.verb = "backup"
  /\ MayAll(host.port, host.start + host.off, Chunks)
  /\ stage' = Loaded
  /\ host' = [host EXCEPT !.pc = "head", !.into = "file", !.i = 0]
  /\ UNCHANGED <<box, disk, pipe, open, link, killed, left>>

\* read: nothing is on its way yet.
ArmUpload ==
  /\ At("window")
  /\ host.verb = "read"
  /\ host' = [host EXCEPT !.pc = "head", !.into = "file", !.i = 0]
  /\ UNCHANGED <<box, disk, onBox, killed, left>>

\* The upload command changes nothing yet; the header's read has the box queue a
\* chunk.
Header ==
  /\ At("head")
  /\ host.media = "store" => MayStore(host.i)
  /\ pipe' = Append(pipe, IF host.media = "store" THEN disk[box.emmc][PartFirst + host.i]
                          ELSE stage[host.i])
  /\ Go("bulk")
  /\ UNCHANGED <<box, disk, stage, open, link, killed, left>>

\* An empty header: the partition has no more.
EmptyHeader ==
  /\ At("head")
  /\ host.media = "store" /\ host.i >= PartLen
  /\ Go("done")
  /\ UNCHANGED <<box, disk, onBox, killed, left>>

\* The first chunk queued is taken for the one asked for.
Bulk ==
  /\ At("bulk")
  /\ pipe # <<>>
  /\ pipe' = Tail(pipe)
  /\ LET got == Head(pipe)
         next == host.i + 1
     IN  host' = CASE host.into = "back" -> [host EXCEPT !.into = "print", !.pc = "ask"]
                   [] host.into \in {"print", "dev"} ->
                        [host EXCEPT !.sectors = got.at, !.pc = "probe"]
                   [] host.into = "count" ->
                        [host EXCEPT !.sectors = got.at, !.count = Rest(got.at),
                                     !.pc = More(0, Rest(got.at))]
                   [] host.into = "file" /\ next < Chunks ->
                        [host EXCEPT !.file = Append(@, got), !.i = next, !.pc = "head"]
                   [] OTHER ->
                        [host EXCEPT !.file = Append(@, got), !.off = @ + next,
                                     !.pc = More(host.off + next, host.count)]
  /\ UNCHANGED <<box, disk, stage, open, link, killed, left>>

-----------------------------------------------------------------------------
(* download(): a window of an image, or a file, to the box's memory or a    *)
(* partition.                                                              *)

ArmDownload ==
  /\ At("window")
  /\ host.verb \in {"restore", "write", "probe"}
  /\ host' = [host EXCEPT !.pc = "send", !.i = 0]
  /\ UNCHANGED <<box, disk, onBox, killed, left>>

\* What the host's buffer has: of a restore's last window, zeros for what the file
\* did not give; of a probe, its pattern.
Buffered(i) ==
  IF host.verb = "probe" THEN {Pattern}
  ELSE IF FileReads \/ host.verb = "write" \/ host.off + Chunks < host.count
  THEN {Image(host.off + i)}
  ELSE {Image(host.off + i), Zeros}

\* A chunk arrives whole or not; the box queues its verdict on the checksum. A
\* partition takes it only then.
Send ==
  /\ At("send")
  /\ \E good \in BOOLEAN, sent \in Buffered(host.i) :
       /\ IF host.media = "store"
          THEN /\ good => MayStore(host.i)
               /\ disk' = IF good THEN [disk EXCEPT ![box.emmc][PartFirst + host.i] = sent]
                          ELSE disk
               /\ UNCHANGED stage
          ELSE /\ stage' = [stage EXCEPT ![host.i] = IF good THEN sent ELSE Junk]
               /\ UNCHANGED disk
       /\ pipe' = Append(pipe, Ack(good))
  /\ Go("ack")
  /\ UNCHANGED <<box, open, link, killed, left>>

\* Mutant: any verdict will do.
AnyAck(got) == got.of = "ack"

GoodAck(got) == got = Ack(TRUE)

\* After the last chunk: a restore's window goes to the disk, a probe's is read
\* back.
Sent ==
  CASE host.verb = "restore" -> "write"
    [] host.verb = "probe" -> "head"
    [] OTHER -> "done"

Verdict ==
  /\ At("ack")
  /\ pipe # <<>>
  /\ IF GoodAck(Head(pipe))
     THEN /\ pipe' = Tail(pipe)
          /\ host' = IF host.i + 1 < Chunks THEN [host EXCEPT !.i = @ + 1, !.pc = "send"]
                     ELSE [host EXCEPT !.pc = Sent, !.into = "back", !.i = 0]
     ELSE Die
  /\ UNCHANGED <<box, disk, stage, open, link, killed, left>>

\* Mutant: every window goes to the first's place.
TargetFixed(j) == host.start + j

\* Where the j-th sector of the window belongs.
Target(j) == host.start + host.off + j

Written(some) ==
  [disk EXCEPT ![host.port] =
     [s \in DOMAIN disk[host.port] |->
        IF \E j \in some : s = Target(j) THEN stage[CHOOSE j \in some : s = Target(j)]
        ELSE disk[host.port][s]]]

\* amlmmc write.
WriteWindow ==
  /\ At("write")
  /\ MayAll(host.port, Target(0), Chunks)
  /\ disk' = Written(0 .. Chunks - 1)
  /\ host' = [host EXCEPT !.off = @ + Chunks, !.pc = More(host.off + Chunks, host.count)]
  /\ UNCHANGED <<box, onBox, killed, left>>

\* Part of a window that could not be written whole.
Torn ==
  \E some \in SUBSET {j \in 0 .. Chunks - 1 : May(host.port, Target(j))} :
    disk' = Written(some)

-----------------------------------------------------------------------------
(* The mask ROM, and the commands passed on that change the box's mode.    *)

\* rom_read does not look whether fwrite took what it was given.
Kept(got) == {Append(host.file, got)} \cup (IF FileTakes THEN {} ELSE {host.file})

\* A control transfer of memory.
RomMoves ==
  /\ At("rom")
  /\ host.verb \in {"rom read", "rom write"}
  /\ \E file \in IF host.verb = "rom read" THEN Kept(stage[host.i]) ELSE {host.file} :
       host' = [host EXCEPT !.i = @ + 1, !.file = file,
                            !.pc = IF host.i + 1 < host.count THEN "rom" ELSE "done"]
  /\ stage' = IF host.verb = "rom read" THEN stage
              ELSE [stage EXCEPT ![host.i] = Image(host.i)]
  /\ UNCHANGED <<box, disk, pipe, open, link, killed, left>>

\* What runs may leave the ROM.
RomRuns ==
  /\ At("rom")
  /\ host.verb = "rom run"
  /\ mode' \in {"rom", "away"}
  /\ Go("done")
  /\ UNCHANGED <<box, disk, stage, pipe, open, usbBoot, killed, left>>

\* Whether the command succeeds or not; of a reset the link's loss is the success.
Passed ==
  /\ At("pass")
  /\ Go("done")
  /\ \/ UNCHANGED <<stage, pipe, open, mode, usbBoot>>
     \/ /\ host.verb = "set_usb_boot"
        /\ usbBoot' = TRUE
        /\ UNCHANGED <<stage, pipe, open, mode>>
     \/ /\ host.verb = "reset"
        /\ mode' = IF usbBoot THEN "rom" ELSE "away"
        /\ stage' = [j \in DOMAIN stage |-> Junk]
        /\ pipe' = <<>>
        /\ open' = FALSE
        /\ UNCHANGED usbBoot
  /\ UNCHANGED <<box, disk, killed, left>>

-----------------------------------------------------------------------------
(* What goes wrong.                                                        *)

\* run(): a command that fails ends the verb; the box may have done it.
CommandFails ==
  /\ Exit
  /\ \/ At("window") /\ UNCHANGED <<disk, stage>>
     \/ /\ At("window") /\ host.verb = "backup"
        /\ MayAll(host.port, host.start + host.off, Chunks)
        /\ stage' = Loaded
        /\ UNCHANGED disk
     \/ At("head") /\ host.i = 0 /\ UNCHANGED <<disk, stage>>
     \/ At("write") /\ Torn /\ UNCHANGED stage
  /\ UNCHANGED <<box, pipe, open, link, killed, left>>

\* A transfer that fails ends the verb, whatever of it arrived.
TransferFails ==
  /\ \/ (At("head") \/ At("bulk") \/ At("ack") \/ At("rom")) /\ UNCHANGED stage
     \/ At("send") /\ host.media = "store" /\ UNCHANGED stage
     \/ /\ At("send") /\ host.media = "mem"
        /\ stage' \in {stage, [stage EXCEPT ![host.i] = Junk]}
  /\ Die
  /\ UNCHANGED <<box, disk, open, link, killed, left>>

\* The host's own file: the disk is full, the image cannot be read, the file of a
\* rom verb does not open or a read one does not close.
FileFails ==
  /\ \/ At("window") /\ host.verb \in {"restore", "write"}
     \/ At("rom") /\ host.i = 0 /\ host.verb \in {"rom read", "rom write"}
     \/ At("rom") /\ host.i + 1 = host.count /\ host.verb = "rom read"
     \/ At("bulk") /\ host.into = "file" /\ pipe # <<>>
  /\ Exit
  /\ pipe' = IF At("bulk") THEN Tail(pipe) ELSE pipe
  /\ UNCHANGED <<box, disk, stage, open, link, killed, left>>

Kill ==
  /\ Running
  /\ host' = Off
  /\ killed' = (mode = "gadget")
  /\ UNCHANGED <<box, disk, onBox, left>>

Drain ==
  /\ At("off")
  /\ killed
  /\ mode = "gadget"
  /\ killed' = FALSE
  /\ pipe' = <<>>
  /\ UNCHANGED <<box, disk, stage, open, link, host, left>>

\* The box starts, and opens its gadget for a moment.
Waits ==
  /\ mode = "away"
  /\ mode' = "waiting"
  /\ UNCHANGED <<box, disk, stage, pipe, open, usbBoot, host, killed, left>>

\* Nobody identified it within 750 ms, and it goes on booting.
Abandons ==
  /\ mode = "waiting"
  /\ mode' = "away"
  /\ UNCHANGED <<box, disk, stage, pipe, open, usbBoot, host, killed, left>>

\* The box loses power, and with it all it had not written.
PowerLoss ==
  /\ Running \/ killed \/ mode = "rom"
  /\ host' = Off
  /\ IF At("write") THEN Torn ELSE disk' = disk
  /\ stage' = [j \in DOMAIN stage |-> Junk]
  /\ pipe' = <<>>
  /\ open' = FALSE
  /\ mode' = "away" /\ usbBoot' = FALSE
  /\ killed' = FALSE
  /\ UNCHANGED <<box, left>>

End ==
  /\ At("done")
  /\ host' = Off
  /\ UNCHANGED <<box, disk, onBox, killed, left>>

Asked ==
  \/ \E start \in Starts : \/ \E count \in Counts : Begin("backup", "mem", start, count)
                           \/ Begin("restore", "mem", start, ImageLen)
  \/ \E count \in 1 .. Window :
       \/ \E media \in {"mem", "store"}, verb \in {"read", "write"} : Begin(verb, media, 0, count)
       \/ \E verb \in {"rom read", "rom write"} : Begin(verb, "mem", 0, count)
  \/ \E verb \in {"probe", "rom run", "set_usb_boot", "reset"} : Begin(verb, "mem", 0, 1)
  \/ Connect

Next ==
  \/ Asked
  \/ NoBox \/ Identify \/ Lift \/ AskSize \/ SizeRefused \/ Probe
  \/ ReadWindow \/ ArmUpload \/ Header \/ EmptyHeader \/ Bulk
  \/ ArmDownload \/ Send \/ Verdict \/ WriteWindow
  \/ RomMoves \/ RomRuns \/ Passed
  \/ CommandFails \/ TransferFails \/ FileFails \/ Kill \/ Drain
  \/ Waits \/ Abandons \/ PowerLoss \/ End

Spec == Init /\ [][Next]_vars

-----------------------------------------------------------------------------
TypeOK ==
  /\ box \in Layouts
  /\ DOMAIN disk = Port
  /\ DOMAIN stage = 0 .. Window - 1
  /\ DOMAIN host = DOMAIN Off
  /\ mode \in {"away", "waiting", "gadget", "rom"}
  /\ {open, usbBoot, killed} \subseteq BOOLEAN

\* What the j-th sector of a verb's range on the box holds.
OnTheBox(j) ==
  CASE host.verb \in {"backup", "restore"} -> disk[host.port][host.start + j]
    [] host.media = "store" -> disk[box.emmc][PartFirst + j]
    [] OTHER -> stage[j]

\* How much a verb is to move: a partition ends where it ends.
ToMove ==
  IF host.verb = "read" /\ host.media = "store" /\ PartLen < host.count THEN PartLen
  ELSE host.count

\* The verbs whose file is looked after: a rom read's only if it takes all.
Uploads == {"backup", "read"} \cup (IF FileTakes THEN {"rom read"} ELSE {})

\* A backup ("read N sectors"), a read or a rom read that ends well: the file is
\* what the box has there, sector for sector, whatever was killed, failed or queued
\* before; a rom read's, if the file takes what it is given (FileTakes).
FileIsSource ==
  At("done") /\ host.verb \in Uploads =>
    /\ Len(host.file) = ToMove
    /\ \A j \in 0 .. ToMove - 1 : host.file[j + 1] = OnTheBox(j)

\* A restore ("wrote N sectors"), a write or a rom write that ends well: the box
\* has the file's sectors, each in its place.
TargetIsFile ==
  At("done") /\ host.verb \in {"restore", "write", "rom write"} =>
    \A j \in 0 .. host.count - 1 : OnTheBox(j) = Image(j)

\* A restore or a write under way, or cut short anywhere, has put the file's own
\* sectors in their places, the windows in order, and changed nothing else.
WritesImageInOrder ==
  [][\A d \in Port : \A s \in DOMAIN disk[d] : disk'[d][s] # disk[d][s] =>
       \/ /\ host.verb = "restore"
          /\ s - host.start \in host.off .. host.off + Window - 1
          /\ disk'[d][s] = Image(s - host.start)
       \/ /\ host.verb = "write" /\ host.media = "store"
          /\ s - PartFirst = host.i
          /\ disk'[d][s] = Image(host.i)]_vars

\* Only the eMMC is ever written: amlcmd.c:378, "a write never proceeds on a
\* guess".
OnlyEmmcWritten == [][\A d \in Port \ {box.emmc} : disk'[d] = disk[d]]_vars

\* A verb that ends by itself leaves nothing queued to head the next one's
\* transfer (amlcmd.c:95).
NothingStranded == At("off") /\ ~ killed => pipe = <<>>

\* The mask ROM never gets a gadget's command, which would wedge it
\* (amlcmd.c:634).
RomGetsNoCommand == mode = "rom" => host.pc \in {"off", "identify", "rom", "done"}
=============================================================================
