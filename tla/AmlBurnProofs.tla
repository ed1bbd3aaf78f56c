---------------------------- MODULE AmlBurnProofs ----------------------------
(***************************************************************************)
(* For every number of ports, disks, windows and verbs: what is queued on    *)
(* the bulk IN never outlives the verb it was for, the mask ROM never gets a *)
(* gadget's command, and only the eMMC is ever written.                     *)
(***************************************************************************)
EXTENDS AmlBurn, SequenceTheorems, TLAPS

Sizing == {"backup", "restore", "probe"}

\* The bulk IN is empty but for the one chunk a transfer waits for, or after a kill.
Quiet ==
  /\ host.pc \in {"bulk", "ack"} => \E c : pipe = <<c>>
  /\ host.pc \notin {"bulk", "ack"} /\ ~ killed => pipe = <<>>

\* After a kill, nothing runs but a look at the link.
KilledIsIdle ==
  killed => /\ mode = "gadget"
            /\ host.pc \in {"off", "identify", "done"}
            /\ host.pc = "identify" => host.verb = "connect"

\* A verb that talks to the gadget has been identified by it.
Identified == host.pc \notin {"off", "identify", "rom", "done"} => mode = "gadget"

\* The size that is asked for is the eMMC's, wherever it is on its way.
SizeIsEmmcs ==
  /\ host.pc = "probe" => host.sectors = box.sectors[box.emmc]
  /\ host.pc = "head" /\ host.into \in {"dev", "print"} =>
       host.i = 0 /\ stage[0] = Size(box.sectors[box.emmc])
  /\ host.pc = "bulk" /\ host.into \in {"dev", "print"} =>
       pipe = <<Size(box.sectors[box.emmc])>>

\* Which verbs are where, and to what memory.
Verbal ==
  /\ host.verb \notin {"read", "write"} => host.media = "mem"
  /\ host.pc \in {"identify", "lift"} => host.into = "dev"
  /\ host.pc = "ask" => host.into \in {"dev", "print", "count"}
  /\ host.pc \in {"lift", "ask", "probe"} => host.verb \in Sizing
  /\ host.pc \in {"head", "bulk"} => host.into = "file" \/ host.verb \in Sizing
  /\ host.pc \in {"head", "bulk"} /\ host.into = "back" => host.verb = "probe"
  /\ host.pc = "write" => host.verb = "restore"

\* A restore past its discovery has the eMMC's port, if every disk answers.
Aimed ==
  AllAnswer /\ host.verb = "restore" =>
    /\ host.count = ImageLen
    /\ host.named => host.port = box.emmc
    /\ host.pc \in {"identify", "lift", "ask", "head", "bulk", "probe"} => host.into = "dev"
    /\ host.pc \in {"window", "send", "ack", "write"} => host.port = box.emmc

IInv == TypeOK /\ Quiet /\ KilledIsIdle /\ Identified /\ SizeIsEmmcs /\ Verbal /\ Aimed

\* What a sector, a chunk of the staging memory or one on the bulk IN may hold.
Chunk ==
  [of : Port \cup {"image", "size", "junk", "zeros", "pattern", "ack"}, at : Int]

Memory ==
  /\ stage \in [0 .. Window - 1 -> Chunk]
  /\ DOMAIN disk = Port
  /\ \A d \in Port : disk[d] \in [0 .. box.sectors[d] - 1 -> Chunk]

Typed ==
  /\ Memory
  /\ {host.start, host.off, host.i, host.count} \subseteq Nat /\ host.sectors \in Int
  /\ host.port \in Port
  /\ host.into \in {"dev", "print", "back", "count", "file"}
  /\ host.file \in Seq(Chunk)
  /\ host.pc = "bulk" => pipe = <<Head(pipe)>> /\ Head(pipe) \in Chunk

\* The verbs that write a file.
Files == {"backup", "read", "rom read"}

\* A transfer is under way from the box to the host's file.
Moving == host.pc \in {"head", "bulk"} /\ host.into = "file"

\* Nothing of the file is done yet.
Fresh ==
  /\ host.verb \notin Files => host.file = <<>>
  /\ host.pc \in {"identify", "lift", "ask", "probe", "pass", "head", "bulk"} /\ ~ Moving
     => /\ host.off = 0 /\ host.file = <<>>
        /\ host.pc \in {"identify", "head"} => host.i = 0

\* Which verbs transfer, and that they do no more than they were asked to.
Ranged ==
  /\ host.pc = "window" => host.verb \in {"backup", "restore", "read", "write", "probe"}
  /\ host.pc \in {"send", "ack"} => host.verb \in {"restore", "write", "probe"}
  /\ host.pc = "lift" \/ (host.pc \in {"ask", "head", "bulk"} /\ host.into = "count")
     => host.verb \in {"backup", "restore"}
  /\ Moving => host.verb \in {"backup", "read"}
  /\ host.pc = "pass" => host.verb \in {"set_usb_boot", "reset"}
  /\ host.pc = "rom" => IsRomVerb
  /\ \/ host.pc \in {"window", "send", "ack", "write"}
     \/ host.pc \in {"head", "bulk"} /\ host.into \in {"file", "back"}
     => host.off < host.count
  /\ host.pc \in {"send", "ack"} \/ Moving => host.i < Chunks
  /\ host.pc = "rom" => host.i < host.count
  /\ host.pc \notin {"off", "done"} /\ host.verb \notin {"backup", "restore", "connect"}
     => host.off = 0 /\ host.count \in 1 .. Window

\* The file so far is what the box has there.
Filed ==
  host.verb \in Uploads =>
    /\ \A k \in 1 .. Len(host.file) : host.file[k] = OnTheBox(k - 1)
    /\ host.pc = "window" => Len(host.file) = host.off
    /\ Moving => Len(host.file) = host.off + host.i
    /\ host.pc = "rom" => Len(host.file) = host.i
    /\ host.pc = "done" => Len(host.file) = ToMove

\* What is on its way to it, too.
Fetched ==
  /\ Moving /\ host.verb = "backup" =>
       \A j \in 0 .. Chunks - 1 : stage[j] = OnTheBox(host.off + j)
  /\ host.pc = "bulk" /\ Moving => pipe = <<OnTheBox(host.off + host.i)>>
  /\ Moving /\ host.media = "store" =>
       host.i <= PartLen /\ (host.pc = "bulk" => host.i < PartLen)

UpInv == Typed /\ Fresh /\ Ranged /\ Filed /\ Fetched

\* The j-th chunk of a transfer to the box has its place, and has this in it.
Placed(j, c) ==
  IF host.media = "store"
  THEN PartFirst + j \in DOMAIN disk[box.emmc] /\ disk[box.emmc][PartFirst + j] = c
  ELSE stage[j] = c

\* The window's chunks up to the one at hand have arrived, that one if the box says so.
Arrived ==
  host.verb \in {"restore", "write"} /\ host.pc \in {"send", "ack"} =>
    /\ \A j \in 0 .. host.i - 1 : Placed(j, Image(host.off + j))
    /\ host.pc = "ack" /\ pipe = <<Ack(TRUE)>> => Placed(host.i, Image(host.off + host.i))

\* So has all of a window that goes to the disk.
Staged == host.pc = "write" => \A j \in 0 .. Chunks - 1 : stage[j] = Image(host.off + j)

\* The windows before are on the disk, and the file in its place at the end.
Stored ==
  /\ host.verb = "restore" /\ host.pc \in {"window", "send", "ack", "write", "done"} =>
       /\ \A j \in 0 .. host.off - 1 : /\ host.start + j \in DOMAIN disk[host.port]
                                      /\ disk[host.port][host.start + j] = Image(j)
       /\ host.pc = "done" => host.off = host.count
  /\ host.verb = "write" /\ host.pc = "done" =>
       \A j \in 0 .. host.count - 1 : Placed(j, Image(j))
  /\ host.verb = "rom write" /\ host.pc \in {"rom", "done"} =>
       \A j \in 0 .. (IF host.pc = "rom" THEN host.i ELSE host.count) - 1 :
          stage[j] = Image(j)

DownInv == Arrived /\ Staged /\ Stored

\* A file that can be read to its end is the file that arrives.
DataInv == UpInv /\ (FileReads => DownInv)

USE DEF IInv, TypeOK, Quiet, KilledIsIdle, Identified, SizeIsEmmcs, Verbal, Aimed, Sizing

LEMMA OneChunk ==
  ASSUME NEW c
  PROVE  Tail(<<c>>) = <<>> /\ Head(<<c>>) = c /\ Append(<<>>, c) = <<c>> /\ <<c>> # <<>>
OBVIOUS

LEMMA Firsts ==
  /\ First \in {"lift", "window", "pass", "rom", "done"}
  /\ First = "lift" => host.verb \in {"backup", "restore"}
  /\ First = "window" => host.verb \in {"read", "write", "probe"}
  /\ host.verb = "connect" => First = "done"
  /\ First = "rom" <=> IsRomVerb
BY DEF First, IsRomVerb

LEMMA Used ==
  ASSUME DOMAIN host = DOMAIN Off, NEW port, Use(port)
  PROVE  /\ DOMAIN host' = DOMAIN Off
         /\ host'.pc \in {"ask", "window", "done"}
         /\ host'.into = "count" /\ host'.port = port
         /\ host'.verb = host.verb /\ host'.media = host.media /\ host'.named = host.named
         /\ host.count # 0 => host'.pc = "window" /\ host'.count = host.count
BY DEF Use, More, Off

LEMMA NotMadeOut ==
  ASSUME DOMAIN host = DOMAIN Off, Unresolved
  PROVE  \/ host' = Off /\ pipe' = <<>>
         \/ host.verb = "backup" /\ Use(Default) /\ pipe' = pipe
         \/ host.verb = "probe" /\ host' = [host EXCEPT !.pc = "done"] /\ pipe' = pipe
BY DEF Unresolved, Die, Go

\* A verb that ends with nothing queued.
LEMMA Ended ==
  ASSUME IInv, TypeOK', host' = Off, pipe' = <<>>, ~ killed'
  PROVE  IInv'
BY DEF Off

LEMMA NextInv == IInv /\ [Next]_vars => IInv'
<1>s. ASSUME IInv, UNCHANGED vars PROVE IInv'
  BY <1>s DEF vars, onBox
<1> SUFFICES ASSUME IInv, Next PROVE IInv'
  <2> HIDE DEF IInv
  <2> QED BY <1>s
<1>0. ASSUME NEW verb, NEW media, NEW start, NEW count, Begin(verb, media, start, count),
             verb \notin {"read", "write"} => media = "mem", verb = "restore" => count = ImageLen
      PROVE IInv'
  <2>1. TypeOK'
    BY <1>0, OneChunk DEF Begin, At, Off, onBox, link
  <2>2. Quiet'
    BY <1>0, OneChunk DEF Begin, At, Off, onBox, link
  <2>3. KilledIsIdle'
    BY <1>0, OneChunk DEF Begin, At, Off, onBox, link
  <2>4. Identified'
    BY <1>0, OneChunk DEF Begin, At, Off, onBox, link
  <2>5. SizeIsEmmcs'
    BY <1>0, OneChunk DEF Begin, At, Off, onBox, link
  <2>6. Verbal'
    BY <1>0, OneChunk DEF Begin, At, Off, onBox, link
  <2>7. Aimed'
    BY <1>0, OneChunk DEF Begin, At, Off, onBox, link
  <2> QED
    BY <2>1, <2>2, <2>3, <2>4, <2>5, <2>6, <2>7
<1>1. CASE Connect
  BY <1>1 DEF Connect, At, Go, Exit, Die, Off, onBox, link
<1>2. CASE NoBox
  BY <1>2 DEF NoBox, At, Go, Exit, Die, Off, onBox, link
<1>3. CASE Identify
  <2>1. CASE GoesOn /\ Go(First) /\ UNCHANGED pipe
    <3>1. TypeOK'
      BY <1>3, <2>1, Firsts DEF Identify, GoesOn, IsRomVerb, At, Go, Off, onBox, link
    <3>2. Quiet'
      BY <1>3, <2>1, Firsts DEF Identify, GoesOn, IsRomVerb, At, Go, Off, onBox, link
    <3>3. KilledIsIdle'
      BY <1>3, <2>1, Firsts DEF Identify, GoesOn, IsRomVerb, At, Go, Off, onBox, link
    <3>4. Identified'
      BY <1>3, <2>1, Firsts DEF Identify, GoesOn, IsRomVerb, At, Go, Off, onBox, link
    <3>5. SizeIsEmmcs'
      BY <1>3, <2>1, Firsts DEF Identify, GoesOn, IsRomVerb, At, Go, Off, onBox, link
    <3>6. Verbal'
      BY <1>3, <2>1, Firsts DEF Identify, GoesOn, IsRomVerb, At, Go, Off, onBox, link
    <3>7. Aimed'
      BY <1>3, <2>1, Firsts DEF Identify, GoesOn, IsRomVerb, At, Go, Off, onBox, link
    <3> QED
      BY <3>1, <3>2, <3>3, <3>4, <3>5, <3>6, <3>7
  <2>2. CASE ~ GoesOn /\ host' = Off /\ pipe' \in {pipe, <<>>}
    <3>1. TypeOK'
      BY <1>3, <2>2 DEF Identify, GoesOn, IsRomVerb, At, Go, Off, onBox, link
    <3>2. Quiet'
      BY <1>3, <2>2 DEF Identify, GoesOn, IsRomVerb, At, Go, Off, onBox, link
    <3>3. KilledIsIdle'
      BY <1>3, <2>2 DEF Identify, GoesOn, IsRomVerb, At, Go, Off, onBox, link
    <3>4. Identified'
      BY <1>3, <2>2 DEF Identify, GoesOn, IsRomVerb, At, Go, Off, onBox, link
    <3>5. SizeIsEmmcs'
      BY <1>3, <2>2 DEF Identify, GoesOn, IsRomVerb, At, Go, Off, onBox, link
    <3>6. Verbal'
      BY <1>3, <2>2 DEF Identify, GoesOn, IsRomVerb, At, Go, Off, onBox, link
    <3>7. Aimed'
      BY <1>3, <2>2 DEF Identify, GoesOn, IsRomVerb, At, Go, Off, onBox, link
    <3> QED
      BY <3>1, <3>2, <3>3, <3>4, <3>5, <3>6, <3>7
  <2> QED
    BY <1>3, <2>1, <2>2 DEF Identify, Exit, Die
<1>4. CASE Lift
  <2> host.verb \in Sizing /\ DOMAIN host = DOMAIN Off /\ ~ killed
    BY <1>4 DEF Lift, At
  <2>1. CASE host.named /\ Use(host.port)
    <3>1. TypeOK'
      BY <1>4, <2>1, Used, SizesArePositive DEF Lift, At, onBox, link
    <3>2. Quiet'
      BY <1>4, <2>1, Used, SizesArePositive DEF Lift, At, onBox, link
    <3>3. KilledIsIdle'
      BY <1>4, <2>1, Used, SizesArePositive DEF Lift, At, onBox, link
    <3>4. Identified'
      BY <1>4, <2>1, Used, SizesArePositive DEF Lift, At, onBox, link
    <3>5. SizeIsEmmcs'
      BY <1>4, <2>1, Used, SizesArePositive DEF Lift, At, onBox, link
    <3>6. Verbal'
      BY <1>4, <2>1, Used, SizesArePositive DEF Lift, At, onBox, link
    <3>7. Aimed'
      BY <1>4, <2>1, Used, SizesArePositive DEF Lift, At, onBox, link
    <3> QED
      BY <3>1, <3>2, <3>3, <3>4, <3>5, <3>6, <3>7
  <2>2. CASE ~ host.named /\ Go("ask")
    <3>1. TypeOK'
      BY <1>4, <2>2 DEF Lift, At, Go, Off, onBox, link
    <3>2. Quiet'
      BY <1>4, <2>2 DEF Lift, At, Go, Off, onBox, link
    <3>3. KilledIsIdle'
      BY <1>4, <2>2 DEF Lift, At, Go, Off, onBox, link
    <3>4. Identified'
      BY <1>4, <2>2 DEF Lift, At, Go, Off, onBox, link
    <3>5. SizeIsEmmcs'
      BY <1>4, <2>2 DEF Lift, At, Go, Off, onBox, link
    <3>6. Verbal'
      BY <1>4, <2>2 DEF Lift, At, Go, Off, onBox, link
    <3>7. Aimed'
      BY <1>4, <2>2 DEF Lift, At, Go, Off, onBox, link
    <3> QED
      BY <3>1, <3>2, <3>3, <3>4, <3>5, <3>6, <3>7
  <2> QED
    BY <1>4, <2>1, <2>2 DEF Lift
<1>5. CASE AskSize
  <2>1. TypeOK'
    BY <1>5, SizesArePositive DEF AskSize, Size, At, Go, Off, onBox, link
  <2>2. Quiet'
    BY <1>5, SizesArePositive DEF AskSize, Size, At, Go, Off, onBox, link
  <2>3. KilledIsIdle'
    BY <1>5, SizesArePositive DEF AskSize, Size, At, Go, Off, onBox, link
  <2>4. Identified'
    BY <1>5, SizesArePositive DEF AskSize, Size, At, Go, Off, onBox, link
  <2>5. SizeIsEmmcs'
    BY <1>5, SizesArePositive DEF AskSize, Size, At, Go, Off, onBox, link
  <2>6. Verbal'
    BY <1>5, SizesArePositive DEF AskSize, Size, At, Go, Off, onBox, link
  <2>7. Aimed'
    BY <1>5, SizesArePositive DEF AskSize, Size, At, Go, Off, onBox, link
  <2> QED
    BY <2>1, <2>2, <2>3, <2>4, <2>5, <2>6, <2>7
<1>6. CASE SizeRefused
  <2> ~ killed /\ DOMAIN host = DOMAIN Off /\ pipe = <<>> /\ mode = "gadget"
    BY <1>6 DEF SizeRefused, At
  <2>0. TypeOK'
    BY <1>6, NotMadeOut, Used DEF SizeRefused, Die, At, Off, onBox, link
  <2>1. CASE host' = Off /\ pipe' = <<>>
    BY <1>6, <2>0, <2>1, Ended DEF SizeRefused
  <2>2. CASE host.into = "print" /\ host' = [host EXCEPT !.into = "dev"] /\ UNCHANGED pipe
    <3>1. TypeOK'
      BY <1>6, <2>2 DEF SizeRefused, At, Go, Off, onBox, link
    <3>2. Quiet'
      BY <1>6, <2>2 DEF SizeRefused, At, Go, Off, onBox, link
    <3>3. KilledIsIdle'
      BY <1>6, <2>2 DEF SizeRefused, At, Go, Off, onBox, link
    <3>4. Identified'
      BY <1>6, <2>2 DEF SizeRefused, At, Go, Off, onBox, link
    <3>5. SizeIsEmmcs'
      BY <1>6, <2>2 DEF SizeRefused, At, Go, Off, onBox, link
    <3>6. Verbal'
      BY <1>6, <2>2 DEF SizeRefused, At, Go, Off, onBox, link
    <3>7. Aimed'
      BY <1>6, <2>2 DEF SizeRefused, At, Go, Off, onBox, link
    <3> QED
      BY <3>1, <3>2, <3>3, <3>4, <3>5, <3>6, <3>7
  <2>3. CASE host.verb = "backup" /\ Use(Default) /\ UNCHANGED pipe
    <3>1. TypeOK'
      BY <1>6, <2>3, Used DEF SizeRefused, At, onBox, link
    <3>2. Quiet'
      BY <1>6, <2>3, Used DEF SizeRefused, At, onBox, link
    <3>3. KilledIsIdle'
      BY <1>6, <2>3, Used DEF SizeRefused, At, onBox, link
    <3>4. Identified'
      BY <1>6, <2>3, Used DEF SizeRefused, At, onBox, link
    <3>5. SizeIsEmmcs'
      BY <1>6, <2>3, Used DEF SizeRefused, At, onBox, link
    <3>6. Verbal'
      BY <1>6, <2>3, Used DEF SizeRefused, At, onBox, link
    <3>7. Aimed'
      BY <1>6, <2>3, Used DEF SizeRefused, At, onBox, link
    <3> QED
      BY <3>1, <3>2, <3>3, <3>4, <3>5, <3>6, <3>7
  <2>4. CASE host.verb = "probe" /\ host' = [host EXCEPT !.pc = "done"] /\ UNCHANGED pipe
    <3>1. TypeOK'
      BY <1>6, <2>4 DEF SizeRefused, At, Go, Off, onBox, link
    <3>2. Quiet'
      BY <1>6, <2>4 DEF SizeRefused, At, Go, Off, onBox, link
    <3>3. KilledIsIdle'
      BY <1>6, <2>4 DEF SizeRefused, At, Go, Off, onBox, link
    <3>4. Identified'
      BY <1>6, <2>4 DEF SizeRefused, At, Go, Off, onBox, link
    <3>5. SizeIsEmmcs'
      BY <1>6, <2>4 DEF SizeRefused, At, Go, Off, onBox, link
    <3>6. Verbal'
      BY <1>6, <2>4 DEF SizeRefused, At, Go, Off, onBox, link
    <3>7. Aimed'
      BY <1>6, <2>4 DEF SizeRefused, At, Go, Off, onBox, link
    <3> QED
      BY <3>1, <3>2, <3>3, <3>4, <3>5, <3>6, <3>7
  <2> QED
    BY <1>6, <2>1, <2>2, <2>3, <2>4, NotMadeOut DEF SizeRefused, Die
<1>7. CASE Probe
  <2> ~ killed /\ DOMAIN host = DOMAIN Off /\ pipe = <<>> /\ mode = "gadget"
    BY <1>7 DEF Probe, At
  <2>0. TypeOK'
    BY <1>7, NotMadeOut, Used DEF Probe, Go, At, Off, onBox, link
  <2>1. CASE host' = Off /\ pipe' = <<>>
    BY <1>7, <2>0, <2>1, Ended DEF Probe
  <2>2. CASE host.verb = "probe" /\ host' = [host EXCEPT !.pc = "done"] /\ UNCHANGED pipe
    <3>1. TypeOK'
      BY <1>7, <2>2 DEF Probe, At, Go, Off, onBox, link
    <3>2. Quiet'
      BY <1>7, <2>2 DEF Probe, At, Go, Off, onBox, link
    <3>3. KilledIsIdle'
      BY <1>7, <2>2 DEF Probe, At, Go, Off, onBox, link
    <3>4. Identified'
      BY <1>7, <2>2 DEF Probe, At, Go, Off, onBox, link
    <3>5. SizeIsEmmcs'
      BY <1>7, <2>2 DEF Probe, At, Go, Off, onBox, link
    <3>6. Verbal'
      BY <1>7, <2>2 DEF Probe, At, Go, Off, onBox, link
    <3>7. Aimed'
      BY <1>7, <2>2 DEF Probe, At, Go, Off, onBox, link
    <3> QED
      BY <3>1, <3>2, <3>3, <3>4, <3>5, <3>6, <3>7
  <2>3. CASE ~ (AllAnswer /\ host.verb = "restore") /\ host.verb # "probe" /\ (\E d : Use(d)) /\ UNCHANGED pipe
    <3>1. TypeOK'
      BY <1>7, <2>3, Used DEF Probe, At, onBox, link
    <3>2. Quiet'
      BY <1>7, <2>3, Used DEF Probe, At, onBox, link
    <3>3. KilledIsIdle'
      BY <1>7, <2>3, Used DEF Probe, At, onBox, link
    <3>4. Identified'
      BY <1>7, <2>3, Used DEF Probe, At, onBox, link
    <3>5. SizeIsEmmcs'
      BY <1>7, <2>3, Used DEF Probe, At, onBox, link
    <3>6. Verbal'
      BY <1>7, <2>3, Used DEF Probe, At, onBox, link
    <3>7. Aimed'
      BY <1>7, <2>3, Used DEF Probe, At, onBox, link
    <3> QED
      BY <3>1, <3>2, <3>3, <3>4, <3>5, <3>6, <3>7
  <2>4. CASE host.verb = "restore" /\ Use(box.emmc) /\ UNCHANGED pipe
    <3>1. TypeOK'
      BY <1>7, <2>4, Used, SizesArePositive DEF Probe, At, onBox, link
    <3>2. Quiet'
      BY <1>7, <2>4, Used, SizesArePositive DEF Probe, At, onBox, link
    <3>3. KilledIsIdle'
      BY <1>7, <2>4, Used, SizesArePositive DEF Probe, At, onBox, link
    <3>4. Identified'
      BY <1>7, <2>4, Used, SizesArePositive DEF Probe, At, onBox, link
    <3>5. SizeIsEmmcs'
      BY <1>7, <2>4, Used, SizesArePositive DEF Probe, At, onBox, link
    <3>6. Verbal'
      BY <1>7, <2>4, Used, SizesArePositive DEF Probe, At, onBox, link
    <3>7. Aimed'
      BY <1>7, <2>4, Used, SizesArePositive DEF Probe, At, onBox, link
    <3> QED
      BY <3>1, <3>2, <3>3, <3>4, <3>5, <3>6, <3>7
  <2>5. PICK answered \in SUBSET {d \in Port : May(d, host.sectors - 1)} :
          /\ AllAnswer => answered = {d \in Port : May(d, host.sectors - 1)}
          /\ IF Found(answered) = {} THEN Unresolved
             ELSE /\ IF host.verb = "probe" THEN Go("done")
                     ELSE \E d \in Found(answered) : Use(d)
                  /\ UNCHANGED pipe
    BY <1>7 DEF Probe
  <2>6. CASE Found(answered) = {}
    BY <1>7, <2>1, <2>2, <2>3, <2>5, <2>6, NotMadeOut DEF Probe, At
  <2>7. CASE Found(answered) # {} /\ host.verb = "probe"
    BY <2>2, <2>5, <2>7 DEF Go
  <2>8. CASE Found(answered) # {} /\ host.verb # "probe"
    <3>1. PICK d \in Found(answered) : Use(d)
      BY <2>5, <2>8
    <3>2. AllAnswer => d = box.emmc
      <4>1. box.emmc \in Port /\ May(box.emmc, host.sectors - 1)
        BY <1>7, LayoutsAreBoxes DEF Probe, At, May
      <4>2. answered = {d}
        BY <3>1 DEF Found
      <4> QED
        BY <4>1, <4>2, <2>5
    <3> QED
      BY <1>7, <2>3, <2>4, <2>5, <2>8, <3>1, <3>2 DEF Probe, At
  <2> QED
    BY <2>6, <2>7, <2>8
<1>8. CASE ReadWindow
  BY <1>8 DEF ReadWindow, Loaded, At, Go, Exit, Die, Off, onBox, link
<1>9. CASE ArmUpload
  BY <1>9 DEF ArmUpload, At, Go, Exit, Die, Off, onBox, link
<1>10. CASE Header
  <2>1. pipe = <<>> /\ ~ killed /\ mode = "gadget" /\ host.pc = "head"
    BY <1>10 DEF Header, At
  <2>2. /\ host' = [host EXCEPT !.pc = "bulk"]
        /\ UNCHANGED <<box, disk, stage, open, mode, usbBoot, killed, left>>
    BY <1>10 DEF Header, Go, link
  <2>3. /\ \E c : pipe' = <<c>>
        /\ host.media = "mem" => pipe' = <<stage[host.i]>>
    BY <1>10, <2>1, OneChunk DEF Header
  <2>4. /\ DOMAIN host' = DOMAIN Off /\ host'.pc = "bulk"
        /\ host'.verb = host.verb /\ host'.media = host.media /\ host'.named = host.named
        /\ host'.into = host.into /\ host'.count = host.count /\ host'.port = host.port
    BY <2>2 DEF Off
  <2>5. TypeOK'
    BY <2>2, <2>4
  <2>6. Quiet'
    BY <2>3, <2>4
  <2>7. KilledIsIdle' /\ Identified'
    BY <2>1, <2>2, <2>4
  <2>8. SizeIsEmmcs'
    <3>1. host.into \in {"dev", "print"} => pipe' = <<Size(box.sectors[box.emmc])>>
      BY <2>1, <2>3
    <3> QED
      BY <2>2, <2>4, <3>1
  <2>9. Verbal'
    BY <2>1, <2>4
  <2>10. Aimed'
    BY <2>1, <2>2, <2>4
  <2> QED
    BY <2>5, <2>6, <2>7, <2>8, <2>9, <2>10
<1>11. CASE EmptyHeader
  BY <1>11 DEF EmptyHeader, At, Go, Exit, Die, Off, onBox, link
<1>12. CASE Bulk
  <2> PICK c : pipe = <<c>>
    BY <1>12 DEF Bulk, At
  <2> ~ killed /\ DOMAIN host = DOMAIN Off /\ pipe' = <<>> /\ mode = "gadget"
    BY <1>12, OneChunk DEF Bulk, At
  <2>1. TypeOK'
    BY <1>12, OneChunk DEF Bulk, More, Size, At, Go, Off, onBox, link
  <2>2. Quiet'
    BY <1>12, OneChunk DEF Bulk, More, Size, At, Go, Off, onBox, link
  <2>3. KilledIsIdle'
    BY <1>12, OneChunk DEF Bulk, More, Size, At, Go, Off, onBox, link
  <2>4. Identified'
    BY <1>12, OneChunk DEF Bulk, More, Size, At, Go, Off, onBox, link
  <2>5. SizeIsEmmcs'
    BY <1>12, OneChunk DEF Bulk, More, Size, At, Go, Off, onBox, link
  <2>6. Verbal'
    BY <1>12, OneChunk DEF Bulk, More, Size, At, Go, Off, onBox, link
  <2>7. Aimed'
    BY <1>12, OneChunk DEF Bulk, More, Size, At, Go, Off, onBox, link
  <2> QED
    BY <2>1, <2>2, <2>3, <2>4, <2>5, <2>6, <2>7
<1>13. CASE ArmDownload
  BY <1>13 DEF ArmDownload, At, Go, Exit, Die, Off, onBox, link
<1>14. CASE Send
  BY <1>14 DEF Send, At, Go, Exit, Die, Off, onBox, link
<1>15. CASE Verdict
  <2> PICK c : pipe = <<c>>
    BY <1>15 DEF Verdict, At
  <2> ~ killed /\ DOMAIN host = DOMAIN Off /\ pipe' = <<>> /\ mode = "gadget"
    BY <1>15, OneChunk DEF Verdict, Die, At
  <2>0. TypeOK'
    BY <1>15 DEF Verdict, Die, At, Off, onBox, link
  <2>1. CASE host' = Off
    BY <1>15, <2>0, <2>1, Ended DEF Verdict
  <2>2. CASE host' = [host EXCEPT !.i = @ + 1, !.pc = "send"]
    <3>1. TypeOK'
      BY <1>15, <2>2 DEF Verdict, At, Go, Off, onBox, link
    <3>2. Quiet'
      BY <1>15, <2>2 DEF Verdict, At, Go, Off, onBox, link
    <3>3. KilledIsIdle'
      BY <1>15, <2>2 DEF Verdict, At, Go, Off, onBox, link
    <3>4. Identified'
      BY <1>15, <2>2 DEF Verdict, At, Go, Off, onBox, link
    <3>5. SizeIsEmmcs'
      BY <1>15, <2>2 DEF Verdict, At, Go, Off, onBox, link
    <3>6. Verbal'
      BY <1>15, <2>2 DEF Verdict, At, Go, Off, onBox, link
    <3>7. Aimed'
      BY <1>15, <2>2 DEF Verdict, At, Go, Off, onBox, link
    <3> QED
      BY <3>1, <3>2, <3>3, <3>4, <3>5, <3>6, <3>7
  <2>3. CASE host' = [host EXCEPT !.pc = Sent, !.into = "back", !.i = 0]
    <3>1. TypeOK'
      BY <1>15, <2>3 DEF Verdict, Sent, Size, At, Go, Off, onBox, link
    <3>2. Quiet'
      BY <1>15, <2>3 DEF Verdict, Sent, Size, At, Go, Off, onBox, link
    <3>3. KilledIsIdle'
      BY <1>15, <2>3 DEF Verdict, Sent, Size, At, Go, Off, onBox, link
    <3>4. Identified'
      BY <1>15, <2>3 DEF Verdict, Sent, Size, At, Go, Off, onBox, link
    <3>5. SizeIsEmmcs'
      BY <1>15, <2>3 DEF Verdict, Sent, Size, At, Go, Off, onBox, link
    <3>6. Verbal'
      BY <1>15, <2>3 DEF Verdict, Sent, Size, At, Go, Off, onBox, link
    <3>7. Aimed'
      BY <1>15, <2>3 DEF Verdict, Sent, Size, At, Go, Off, onBox, link
    <3> QED
      BY <3>1, <3>2, <3>3, <3>4, <3>5, <3>6, <3>7
  <2> QED
    BY <1>15, <2>1, <2>2, <2>3 DEF Verdict, Die
<1>16. CASE WriteWindow
  BY <1>16 DEF WriteWindow, Written, More, At, Go, Exit, Die, Off, onBox, link
<1>17. CASE RomMoves
  <2>1. PICK file : host' = [host EXCEPT !.i = @ + 1, !.file = file,
                                         !.pc = IF host.i + 1 < host.count THEN "rom" ELSE "done"]
    BY <1>17 DEF RomMoves
  <2> HIDE DEF Kept
  <2> QED
    BY <1>17, <2>1 DEF RomMoves, At, Go, Exit, Die, Off, onBox, link
<1>18. CASE RomRuns
  BY <1>18 DEF RomRuns, At, Go, Exit, Die, Off, onBox, link
<1>19. CASE Passed
  BY <1>19 DEF Passed, At, Go, Exit, Die, Off, onBox, link
<1>20. CASE CommandFails
  BY <1>20 DEF CommandFails, Loaded, Torn, Written, At, Go, Exit, Die, Off, onBox, link
<1>21. CASE TransferFails
  BY <1>21 DEF TransferFails, At, Go, Exit, Die, Off, onBox, link
<1>22. CASE FileFails
  <2>1. TypeOK'
    BY <1>22, OneChunk DEF FileFails, At, Go, Exit, Die, Off, onBox, link
  <2>2. Quiet'
    BY <1>22, OneChunk DEF FileFails, At, Go, Exit, Die, Off, onBox, link
  <2>3. KilledIsIdle'
    BY <1>22, OneChunk DEF FileFails, At, Go, Exit, Die, Off, onBox, link
  <2>4. Identified'
    BY <1>22, OneChunk DEF FileFails, At, Go, Exit, Die, Off, onBox, link
  <2>5. SizeIsEmmcs'
    BY <1>22, OneChunk DEF FileFails, At, Go, Exit, Die, Off, onBox, link
  <2>6. Verbal'
    BY <1>22, OneChunk DEF FileFails, At, Go, Exit, Die, Off, onBox, link
  <2>7. Aimed'
    BY <1>22, OneChunk DEF FileFails, At, Go, Exit, Die, Off, onBox, link
  <2> QED
    BY <2>1, <2>2, <2>3, <2>4, <2>5, <2>6, <2>7
<1>23. CASE Kill
  BY <1>23 DEF Kill, At, Go, Exit, Die, Off, onBox, link
<1>24. CASE Drain
  BY <1>24 DEF Drain, At, Go, Exit, Die, Off, onBox, link
<1>25. CASE Waits
  BY <1>25 DEF Waits, At, Go, Exit, Die, Off, onBox, link
<1>26. CASE Abandons
  BY <1>26 DEF Abandons, At, Go, Exit, Die, Off, onBox, link
<1>27. CASE PowerLoss
  BY <1>27 DEF PowerLoss, Torn, Written, Running, At, Go, Exit, Die, Off, onBox, link
<1>28. CASE End
  BY <1>28 DEF End, At, Go, Exit, Die, Off, onBox, link
<1> QED
  BY <1>0, <1>1, <1>2, <1>3, <1>4, <1>5, <1>6, <1>7, <1>8, <1>9, <1>10, <1>11, <1>12, <1>13, <1>14, <1>15, <1>16, <1>17, <1>18, <1>19, <1>20, <1>21, <1>22, <1>23, <1>24, <1>25, <1>26, <1>27, <1>28 DEF Next, Asked, Sizing

LEMMA InitInv == Init => IInv
<1> SUFFICES ASSUME Init PROVE IInv
  OBVIOUS
<1> QED
  BY DEF Init, Off

HIDE DEF IInv, TypeOK, Quiet, KilledIsIdle, Identified, SizeIsEmmcs, Verbal, Aimed, Sizing

LEMMA Always == Spec => []IInv
  BY InitInv, NextInv, PTL DEF Spec

\* Whatever fails or is killed, amlcmd and the box are in states the model has.
THEOREM AmlBurnTypes == Spec => []TypeOK
<1>1. IInv => TypeOK
  BY DEF IInv
<1> QED
  BY <1>1, Always, PTL

\* drain_in (amlcmd.c:95) and the exits that do without it: no verb that ends by
\* itself leaves the next one a chunk to mistake for its own.
THEOREM VerbsLeaveNothing == Spec => []NothingStranded
<1>1. IInv => NothingStranded
  BY DEF IInv, Quiet, NothingStranded, At
<1> QED
  BY <1>1, Always, PTL

\* main's dispatch (amlcmd.c:634): whichever gadget answers, and however the box
\* went there, the mask ROM is spoken to by the rom verbs alone.
THEOREM RomIsLeftAlone == Spec => []RomGetsNoCommand
<1>1. IInv => RomGetsNoCommand
  BY DEF IInv, TypeOK, Identified, RomGetsNoCommand
<1> QED
  BY <1>1, Always, PTL

\* resolve_device (amlcmd.c:379): if every disk that can read a sector says so, a
\* restore to a box of any layout, cut short anywhere, writes to the eMMC alone.
THEOREM NeverOnAGuess == AllAnswer => (Spec => OnlyEmmcWritten)
<1>1. IInv /\ AllAnswer /\ [Next]_vars
        => [\A d \in Port \ {box.emmc} : disk'[d] = disk[d]]_vars
  <2> SUFFICES ASSUME IInv, AllAnswer, Next, NEW d \in Port \ {box.emmc}
               PROVE  disk'[d] = disk[d]
    BY DEF vars, onBox
  <2>1. ASSUME NEW some, disk' = Written(some), At("write")
        PROVE  disk'[d] = disk[d]
    <3>1. host.port = box.emmc
      BY <2>1 DEF At, IInv, Verbal, Aimed
    <3> QED
      BY <2>1, <3>1 DEF Written, IInv, TypeOK
  <2>2. CASE Send
    BY <2>2 DEF Send, IInv, TypeOK
  <2>3. CASE WriteWindow
    BY <2>1, <2>3 DEF WriteWindow
  <2>4. CASE CommandFails
    BY <2>1, <2>4 DEF CommandFails, Torn
  <2>5. CASE PowerLoss
    BY <2>1, <2>5 DEF PowerLoss, Torn
  <2>6. CASE Asked \/ NoBox \/ Identify \/ Lift \/ AskSize \/ SizeRefused \/ Probe
    BY <2>6 DEF Asked, Begin, Connect, NoBox, Identify, Lift, AskSize, SizeRefused, Probe
  <2>7. CASE ReadWindow \/ ArmUpload \/ Header \/ EmptyHeader \/ Bulk \/ ArmDownload \/ Verdict
    BY <2>7 DEF ReadWindow, ArmUpload, Header, EmptyHeader, Bulk, ArmDownload, Verdict
  <2>8. CASE RomMoves \/ RomRuns \/ Passed \/ TransferFails \/ FileFails \/ Kill
             \/ Drain \/ Waits \/ Abandons \/ End
    BY <2>8 DEF RomMoves, RomRuns, Passed, TransferFails, FileFails, Kill,
                Drain, Waits, Abandons, End
  <2> QED
    BY <2>2, <2>3, <2>4, <2>5, <2>6, <2>7, <2>8 DEF Next
<1> SUFFICES ASSUME AllAnswer PROVE Spec => OnlyEmmcWritten
  OBVIOUS
<1>2. IInv /\ [Next]_vars => [\A d \in Port \ {box.emmc} : disk'[d] = disk[d]]_vars
  BY <1>1
<1> QED
  BY <1>2, Always, PTL DEF Spec, OnlyEmmcWritten

-----------------------------------------------------------------------------
(* What is moved: lemmas for the transfers' numbers and files.              *)

LEMMA ChunksAreAWindow ==
  ASSUME host.off \in Nat, host.count \in Nat, host.off < host.count
  PROVE  /\ Chunks \in Nat /\ 1 <= Chunks /\ host.off + Chunks <= host.count
         /\ host.verb \in {"backup", "restore"} => Chunks <= Window
         /\ host.verb \notin {"backup", "restore"} => Chunks = host.count - host.off
BY SizesArePositive DEF Chunks

LEMMA FileGrows ==
  ASSUME NEW f \in Seq(Chunk), NEW c \in Chunk
  PROVE  /\ Append(f, c) \in Seq(Chunk) /\ Len(f) \in Nat /\ Len(Append(f, c)) = Len(f) + 1
         /\ \A k \in 1 .. Len(f) : Append(f, c)[k] = f[k]
         /\ Append(f, c)[Len(f) + 1] = c
BY AppendProperties, LenProperties

LEMMA RestIsACount ==
  ASSUME host.start \in Nat, NEW n \in Int
  PROVE  Rest(n) \in Nat
<1>1. n - host.start \in Int
  OBVIOUS
<1> QED
  BY <1>1, CountsWrap DEF Rest

LEMMA WhatChunksAre ==
  /\ Junk \in Chunk /\ Zeros \in Chunk /\ Pattern \in Chunk
  /\ Ack(TRUE) \in Chunk /\ Ack(FALSE) \in Chunk /\ Ack(TRUE) # Ack(FALSE)
  /\ \A n \in Nat : Image(n) \in Chunk /\ Size(n) \in Chunk
  /\ \A d \in Port, n \in Nat : Own(d, n) \in Chunk
BY DEF Junk, Zeros, Pattern, Ack, Image, Size, Own, Chunk

\* A step that only the link feels, or what no verb waits for.
LEMMA DataKept ==
  ASSUME DataInv, UNCHANGED <<box, disk, stage, host>>, pipe' = pipe \/ host.pc = "off"
  PROVE  DataInv'
<1>1. UpInv'
  <2>1. Typed' /\ Fresh'
    BY DEF DataInv, UpInv, Typed, Memory, Fresh, Moving
  <2>2. Ranged'
    BY DEF DataInv, UpInv, Ranged, Moving, IsRomVerb, Chunks
  <2>3. Filed' /\ Fetched'
    BY DEF DataInv, UpInv, Filed, Fetched, Moving, OnTheBox, ToMove, Chunks
  <2> QED
    BY <2>1, <2>2, <2>3 DEF UpInv
<1>2. DownInv => DownInv'
  BY DEF DownInv, Arrived, Staged, Stored, Placed, Chunks
<1> QED
  BY <1>1, <1>2 DEF DataInv

\* No process runs.
LEMMA OffIsData == Memory /\ host = Off => DataInv
<1> SUFFICES ASSUME Memory, host = Off PROVE DataInv
  OBVIOUS
<1>1. /\ host.pc = "off" /\ host.verb = "none" /\ host.file = <<>>
      /\ host.start = 0 /\ host.off = 0 /\ host.i = 0 /\ host.count = 0
      /\ host.sectors = 0 /\ host.port = Default /\ host.into = "dev"
  BY DEF Off
<1>2. Typed /\ Fresh
  BY <1>1, DefaultIsAPort DEF Typed, Fresh, Moving
<1>3. Ranged /\ Filed /\ Fetched
  BY <1>1 DEF Ranged, Filed, Fetched, Moving, Uploads
<1>4. DownInv
  BY <1>1 DEF DownInv, Arrived, Staged, Stored
<1> QED
  BY <1>2, <1>3, <1>4 DEF DataInv, UpInv

\* The process ends.
LEMMA DataEnds == (Memory /\ host = Off => DataInv)'
BY OffIsData, PTL

\* Nothing of the file is moved yet.
Begun ==
  /\ Memory
  /\ {host.start, host.i, host.count} \subseteq Nat /\ host.sectors \in Int
  /\ host.off = 0 /\ host.file = <<>> /\ host.port \in Port
  /\ host.into \in {"dev", "print", "back", "count", "file"}
  /\ host.pc = "bulk" => pipe = <<Head(pipe)>> /\ Head(pipe) \in Chunk
  /\ host.pc \in {"identify", "lift", "ask", "probe", "pass", "head", "bulk", "window", "rom", "done"}
  /\ ~ Moving
  /\ host.pc \in {"identify", "head", "rom"} => host.i = 0
  /\ host.pc = "window" => host.verb \in {"backup", "restore", "read", "write", "probe"}
  /\ host.pc = "rom" => IsRomVerb
  /\ host.pc \in {"window", "rom"} \/ (host.pc \in {"head", "bulk"} /\ host.into = "back")
       => 0 < host.count
  /\ host.pc = "done" =>
       \/ host.verb \notin {"backup", "read", "rom read", "restore", "write", "rom write"}
       \/ host.verb \in {"backup", "restore"} /\ host.count = 0
  /\ host.pc = "lift" \/ (host.pc \in {"ask", "head", "bulk"} /\ host.into = "count")
       => host.verb \in {"backup", "restore"}
  /\ host.pc = "pass" => host.verb \in {"set_usb_boot", "reset"}
  /\ host.pc # "done" /\ host.verb \notin {"backup", "restore", "connect"}
       => host.count \in 1 .. Window

LEMMA EmptyFile ==
  ASSUME NEW f, f = <<>>
  PROVE  f \in Seq(Chunk) /\ Len(f) = 0
OBVIOUS

LEMMA NoneYet ==
  /\ Len(<<>>) = 0
  /\ \A j \in 1 .. 0 : FALSE
  /\ \A j \in 0 .. 0 - 1 : FALSE
OBVIOUS

LEMMA BegunIsData == Begun => DataInv
<1> SUFFICES ASSUME Begun PROVE DataInv
  OBVIOUS
<1>1. Typed
  <2>1. host.file \in Seq(Chunk)
    <3>1. host.file = <<>>
      BY DEF Begun
    <3> QED
      BY <3>1, EmptyFile
  <2>2. {host.start, host.off, host.i, host.count} \subseteq Nat
    <3>1. host.off = 0 /\ {host.start, host.i, host.count} \subseteq Nat
      BY DEF Begun
    <3> QED
      BY <3>1
  <2>3. host.pc = "bulk" => pipe = <<Head(pipe)>> /\ Head(pipe) \in Chunk
    BY DEF Begun
  <2>4. Memory /\ host.sectors \in Int /\ host.port \in Port
        /\ host.into \in {"dev", "print", "back", "count", "file"}
    BY DEF Begun
  <2> QED
    BY <2>1, <2>2, <2>3, <2>4 DEF Typed
<1>2. Fresh
  BY DEF Begun, Fresh
<1>3. Ranged
  <2>1. ~ (host.pc \in {"send", "ack", "write"})
    BY DEF Begun
  <2>2. ~ Moving
    BY DEF Begun
  <2>3. host.pc = "head" \/ host.pc = "bulk" => host.into # "file"
    BY <2>2 DEF Moving
  <2> QED
    BY <2>1, <2>2, <2>3 DEF Begun, Ranged
<1>4. host.file = <<>> /\ Len(host.file) = 0 /\ host.off = 0 /\ ~ Moving
  BY NoneYet DEF Begun
<1>5. Filed
  <2>1. host.pc = "done" /\ host.verb \in Uploads => ToMove = 0
    BY SizesArePositive DEF Begun, ToMove, Uploads
  <2>2. host.pc = "rom" => host.i = 0
    BY DEF Begun
  <2>3. \A k \in 1 .. Len(host.file) : host.file[k] = OnTheBox(k - 1)
    BY <1>4, NoneYet
  <2> QED
    BY <1>4, <2>1, <2>2, <2>3 DEF Filed
<1>6. Fetched
  BY <1>4 DEF Fetched
<1>7. DownInv
  <2>1. Arrived /\ Staged
    BY DEF Begun, Arrived, Staged
  <2>2. Stored
    <3>1. /\ host.verb = "restore" /\ host.pc = "done" => host.count = 0
          /\ host.verb = "write" => host.pc # "done"
          /\ host.verb = "rom write" => host.pc # "done"
          /\ host.pc = "rom" => host.i = 0
      BY DEF Begun
    <3> QED
      BY <1>4, <3>1, NoneYet DEF Stored
  <2> QED
    BY <2>1, <2>2 DEF DownInv
<1> QED
  BY <1>1, <1>2, <1>3, <1>5, <1>6, <1>7 DEF DataInv, UpInv

\* A verb gets on with nothing of its file done.
LEMMA DataBegins == Begun' => DataInv'
  BY BegunIsData, PTL

\* The box's memory stays the memory it is, whatever an action puts there.
LEMMA MemoryPut ==
  ASSUME Memory, UNCHANGED <<box, disk>>, NEW i, NEW c \in Chunk,
         stage' \in {stage, [stage EXCEPT ![i] = c]}
  PROVE  Memory'
<1>1. stage' \in [0 .. Window - 1 -> Chunk]
  BY DEF Memory
<1> QED
  BY <1>1 DEF Memory

LEMMA MemoryReset ==
  ASSUME Memory, UNCHANGED <<box, disk>>, stage' = [j \in DOMAIN stage |-> Junk]
  PROVE  Memory'
<1>1. stage' \in [0 .. Window - 1 -> Chunk]
  BY WhatChunksAre DEF Memory
<1> QED
  BY <1>1 DEF Memory

LEMMA LoadedIs ==
  ASSUME Typed, MayAll(host.port, host.start + host.off, Chunks), Chunks \in Nat
  PROVE  /\ Loaded \in [0 .. Window - 1 -> Chunk]
         /\ \A j \in 0 .. Window - 1 : j < Chunks =>
              /\ Loaded[j] = disk[host.port][host.start + host.off + j]
              /\ host.start + host.off + j \in 0 .. box.sectors[host.port] - 1
<1>1. /\ DOMAIN stage = 0 .. Window - 1 /\ \A j \in 0 .. Window - 1 : stage[j] \in Chunk
      /\ disk[host.port] \in [0 .. box.sectors[host.port] - 1 -> Chunk]
      /\ host.start \in Nat /\ host.off \in Nat
  BY DEF Typed, Memory
<1>2. ASSUME NEW j \in 0 .. Window - 1, j < Chunks
      PROVE  /\ disk[host.port][host.start + host.off + j] \in Chunk
             /\ host.start + host.off + j \in 0 .. box.sectors[host.port] - 1
  <2>1. j \in Nat /\ host.start + host.off + j \in
               host.start + host.off .. host.start + host.off + Chunks - 1
    BY <1>1, <1>2
  <2>2. host.start + host.off + j \in 0 .. box.sectors[host.port] - 1
    BY <2>1 DEF MayAll, May
  <2> QED
    BY <1>1, <2>2
<1> QED
  BY <1>1, <1>2 DEF Loaded

LEMMA WrittenIs ==
  ASSUME Typed, NEW some \in SUBSET (0 .. Window - 1)
  PROVE  /\ DOMAIN Written(some) = Port
         /\ \A d \in Port : Written(some)[d] \in [0 .. box.sectors[d] - 1 -> Chunk]
         /\ \A d \in Port : \A s \in 0 .. box.sectors[d] - 1 :
              Written(some)[d][s] =
                IF d = host.port /\ s - Target(0) \in some THEN stage[s - Target(0)]
                ELSE disk[d][s]
<1>1. /\ \A j \in 0 .. Window - 1 : stage[j] \in Chunk
      /\ DOMAIN disk = Port /\ \A d \in Port : disk[d] \in [0 .. box.sectors[d] - 1 -> Chunk]
      /\ host.start \in Nat /\ host.off \in Nat /\ host.port \in Port
  BY DEF Typed, Memory
<1>2. ASSUME NEW s \in 0 .. box.sectors[host.port] - 1
      PROVE  (IF \E j \in some : s = Target(j) THEN stage[CHOOSE j \in some : s = Target(j)]
              ELSE disk[host.port][s])
             = IF s - Target(0) \in some THEN stage[s - Target(0)] ELSE disk[host.port][s]
  <2>1. \A j \in some : s = Target(j) <=> j = s - Target(0)
    <3>1. s \in Int /\ some \subseteq Int
      OBVIOUS
    <3> QED
      BY <1>1, <3>1 DEF Target
  <2>2. CASE s - Target(0) \in some
    <3>1. (CHOOSE j \in some : s = Target(j)) = s - Target(0)
      BY <2>1, <2>2
    <3> QED
      BY <2>1, <2>2, <3>1
  <2>3. CASE s - Target(0) \notin some
    BY <2>1, <2>3
  <2> QED
    BY <2>2, <2>3
<1>3. Written(some) = [disk EXCEPT ![host.port] =
         [s \in 0 .. box.sectors[host.port] - 1 |->
            IF s - Target(0) \in some THEN stage[s - Target(0)] ELSE disk[host.port][s]]]
  <2>1. DOMAIN disk[host.port] = 0 .. box.sectors[host.port] - 1
    BY <1>1
  <2>2. [s \in DOMAIN disk[host.port] |->
           IF \E j \in some : s = Target(j) THEN stage[CHOOSE j \in some : s = Target(j)]
           ELSE disk[host.port][s]]
        = [s \in 0 .. box.sectors[host.port] - 1 |->
             IF s - Target(0) \in some THEN stage[s - Target(0)] ELSE disk[host.port][s]]
    BY <1>2, <2>1, Zenon
  <2> QED
    BY <2>2 DEF Written
<1>4. \A s \in 0 .. box.sectors[host.port] - 1 :
         (IF s - Target(0) \in some THEN stage[s - Target(0)] ELSE disk[host.port][s]) \in Chunk
  BY <1>1
<1>5. /\ DOMAIN Written(some) = Port
      /\ Written(some)[host.port] = [s \in 0 .. box.sectors[host.port] - 1 |->
            IF s - Target(0) \in some THEN stage[s - Target(0)] ELSE disk[host.port][s]]
      /\ \A d \in Port \ {host.port} : Written(some)[d] = disk[d]
  BY <1>1, <1>3
<1>6. /\ Written(some)[host.port] \in [0 .. box.sectors[host.port] - 1 -> Chunk]
      /\ \A s \in 0 .. box.sectors[host.port] - 1 : Written(some)[host.port][s] =
           IF s - Target(0) \in some THEN stage[s - Target(0)] ELSE disk[host.port][s]
  BY <1>4, <1>5
<1>7. \A d \in Port : Written(some)[d] \in [0 .. box.sectors[d] - 1 -> Chunk]
  BY <1>1, <1>5, <1>6
<1>8. ASSUME NEW d \in Port, NEW s \in 0 .. box.sectors[d] - 1
      PROVE  Written(some)[d][s] =
               IF d = host.port /\ s - Target(0) \in some THEN stage[s - Target(0)]
               ELSE disk[d][s]
  <2>1. CASE d = host.port
    BY <1>6, <2>1
  <2>2. CASE d # host.port
    BY <1>5, <2>2
  <2> QED
    BY <2>1, <2>2
<1> QED
  BY <1>5, <1>7, <1>8

-----------------------------------------------------------------------------
(* What is moved, action by action.                                        *)

LEMMA DataStops ==
  ASSUME IInv, DataInv,
         NoBox \/ Kill \/ End \/ FileFails \/ Drain \/ Waits \/ Abandons \/ UNCHANGED vars
  PROVE  DataInv'
<1>1. Memory
  BY DEF DataInv, UpInv, Typed
<1>2. ASSUME UNCHANGED <<box, disk, stage>> PROVE Memory'
  BY <1>1, <1>2 DEF Memory
<1>3. CASE NoBox \/ Kill \/ End \/ FileFails
  <2>1. UNCHANGED <<box, disk, stage>> /\ host' = Off
    BY <1>3 DEF NoBox, Kill, End, FileFails, Exit, onBox
  <2> QED
    BY <1>2, <2>1, DataEnds
<1>4. CASE Drain \/ Waits \/ Abandons \/ UNCHANGED vars
  <2>1. UNCHANGED <<box, disk, stage, host>> /\ (pipe' = pipe \/ host.pc = "off")
    BY <1>4 DEF Drain, Waits, Abandons, vars, onBox, At
  <2> QED
    BY <2>1, DataKept
<1> QED
  BY <1>3, <1>4

\* The window at hand is within the staging memory.
LEMMA WindowFits ==
  ASSUME IInv, Typed, Ranged, host.pc \in {"window", "send", "ack", "write"} \/ Moving
  PROVE  /\ Chunks \in Nat /\ 1 <= Chunks /\ Chunks <= Window
         /\ host.off + Chunks <= host.count
<1>1. host.off \in Nat /\ host.count \in Nat /\ Window \in Nat
  BY SizesArePositive DEF Typed
<1>2. host.off < host.count
  BY DEF Ranged, Moving
<1>3. host.verb \notin {"backup", "restore"} => host.off = 0 /\ host.count <= Window
  <2>1. host.verb # "connect" /\ host.pc \notin {"off", "done"}
    BY DEF Ranged, Moving, IInv, Verbal
  <2> QED
    BY <1>1, <2>1 DEF Ranged
<1> QED
  BY <1>1, <1>2, <1>3, ChunksAreAWindow

LEMMA DataFails ==
  ASSUME IInv, DataInv, CommandFails \/ TransferFails \/ PowerLoss
  PROVE  DataInv'
<1>1. Typed /\ Ranged /\ Memory
  BY DEF DataInv, UpInv, Typed
<1>2. ASSUME Torn, host.pc = "write", UNCHANGED box
      PROVE  /\ DOMAIN disk' = Port
             /\ \A d \in Port : disk'[d] \in [0 .. box.sectors[d] - 1 -> Chunk]
  <2>1. Chunks \in Nat /\ Chunks <= Window
    BY <1>1, <1>2, WindowFits
  <2>2. PICK some \in SUBSET {j \in 0 .. Chunks - 1 : May(host.port, Target(j))} :
               disk' = Written(some)
    BY <1>2 DEF Torn
  <2>3. some \in SUBSET (0 .. Window - 1)
    BY <2>1, SizesArePositive
  <2> QED
    BY <1>1, <2>2, <2>3, WrittenIs
<1>3. host' = Off /\ UNCHANGED box
  BY DEF CommandFails, TransferFails, PowerLoss, Exit, Die
<1>4. disk' = disk \/ (Torn /\ host.pc = "write")
  BY DEF CommandFails, TransferFails, PowerLoss, Torn, At
<1>5. stage' \in [0 .. Window - 1 -> Chunk]
  <2>1. CASE CommandFails
    <3>1. \/ stage' = stage
          \/ /\ host.pc = "window" /\ MayAll(host.port, host.start + host.off, Chunks)
             /\ stage' = Loaded
      BY <2>1 DEF CommandFails, At
    <3>2. host.pc = "window" => Chunks \in Nat
      BY <1>1, WindowFits
    <3> QED
      BY <1>1, <3>1, <3>2, LoadedIs DEF Memory
  <2>2. CASE TransferFails
    <3>1. \/ stage' = stage
          \/ stage' = [stage EXCEPT ![host.i] = Junk]
      BY <2>2 DEF TransferFails
    <3> QED
      BY <1>1, <3>1, WhatChunksAre DEF Memory
  <2>3. CASE PowerLoss
    BY <1>1, <2>3, WhatChunksAre DEF PowerLoss, Memory
  <2> QED
    BY <2>1, <2>2, <2>3
<1>6. Memory'
  BY <1>1, <1>2, <1>3, <1>4, <1>5 DEF Memory
<1> QED
  BY <1>3, <1>6, DataEnds

LEMMA BeginBegins ==
  ASSUME DataInv, NEW verb, NEW media, NEW start \in Nat, NEW count \in Nat,
         Begin(verb, media, start, count), IInv,
         verb \notin {"backup", "restore", "connect"} => count \in 1 .. Window
  PROVE  DataInv'
<1>1. Memory'
  BY DEF DataInv, UpInv, Typed, Memory, Begin, onBox
<1>2. box.emmc \in Port
  BY LayoutsAreBoxes DEF IInv, TypeOK
<1>3. /\ host'.pc = "identify" /\ host'.verb = verb /\ host'.start = start
      /\ host'.count = count /\ host'.i = 0 /\ host'.off = 0 /\ host'.file = <<>>
      /\ host'.into = "dev" /\ host'.sectors = 0 /\ host'.port \in Port
  BY <1>2, DefaultIsAPort DEF Begin, Off
<1>4. ~ Moving'
  BY <1>3 DEF Moving
<1>5. Begun'
  BY <1>1, <1>3, <1>4 DEF Begun
<1> QED
  BY <1>5, DataBegins

LEMMA DataAsked ==
  ASSUME IInv, DataInv, Asked
  PROVE  DataInv'
<1>1. 1 \in 1 .. Window /\ 0 \in Nat /\ 1 \in Nat /\ 1 .. Window \subseteq Nat
      /\ ImageLen \in Nat /\ Starts \subseteq Nat /\ Counts \subseteq Nat
  BY SizesArePositive, AskedInSectors
<1>2. CASE Connect
  <2>1. Memory'
    BY <1>2 DEF DataInv, UpInv, Typed, Memory, Connect, onBox
  <2>2. /\ host'.pc = "identify" /\ host'.verb = "connect" /\ host'.start = 0
        /\ host'.count = 0 /\ host'.i = 0 /\ host'.off = 0 /\ host'.file = <<>>
        /\ host'.into = "dev" /\ host'.sectors = 0 /\ host'.port \in Port
    BY <1>2, DefaultIsAPort DEF Connect, Off
  <2>3. ~ Moving'
    BY <2>2 DEF Moving
  <2>4. Begun'
    BY <2>1, <2>2, <2>3 DEF Begun
  <2> QED
    BY <2>4, DataBegins
<1>3. ASSUME NEW start \in Starts, NEW count \in Counts, Begin("backup", "mem", start, count)
      PROVE  DataInv'
  BY <1>1, <1>3, BeginBegins
<1>4. ASSUME NEW start \in Starts, Begin("restore", "mem", start, ImageLen)
      PROVE  DataInv'
  BY <1>1, <1>4, BeginBegins
<1>5. ASSUME NEW count \in 1 .. Window, NEW media, NEW verb, Begin(verb, media, 0, count)
      PROVE  DataInv'
  BY <1>1, <1>5, BeginBegins
<1>6. ASSUME NEW verb, Begin(verb, "mem", 0, 1)
      PROVE  DataInv'
  BY <1>1, <1>5, <1>6
<1> QED
  BY <1>2, <1>3, <1>4, <1>5, <1>6 DEF Asked

LEMMA DataIdentify ==
  ASSUME IInv, DataInv, Identify
  PROVE  DataInv'
<1>1. Memory' /\ host.pc = "identify" /\ DOMAIN host = DOMAIN Off
  BY DEF DataInv, UpInv, Typed, Memory, Identify, At, IInv, TypeOK
<1>2. CASE host' = Off
  BY <1>1, <1>2, DataEnds
<1>3. CASE GoesOn /\ host' = [host EXCEPT !.pc = First] /\ UNCHANGED pipe
  <2>1. Typed /\ Fresh /\ Ranged /\ host.into = "dev"
    BY <1>1 DEF DataInv, UpInv, IInv, Verbal
  <2>2. host.off = 0 /\ host.file = <<>> /\ host.i = 0
    BY <1>1, <2>1 DEF Fresh, Moving
  <2>3. /\ host'.pc = First /\ host'.verb = host.verb /\ host'.start = host.start
        /\ host'.count = host.count /\ host'.i = 0 /\ host'.off = 0 /\ host'.file = <<>>
        /\ host'.into = "dev" /\ host'.sectors = host.sectors /\ host'.port = host.port
    BY <1>1, <1>3, <2>1, <2>2 DEF Off
  <2>4. {host.start, host.count} \subseteq Nat /\ host.sectors \in Int /\ host.port \in Port
    BY <2>1 DEF Typed
  <2>5. host.verb \notin {"backup", "restore", "connect"} => host.count \in 1 .. Window
    BY <1>1, <2>1 DEF Ranged
  <2>6. First = "done" => host.verb \notin {"backup", "read", "rom read", "restore", "write", "rom write"}
    BY DEF First, IsRomVerb
  <2>7. /\ First = "window" => host.verb \in {"read", "write", "probe"}
        /\ First = "lift" => host.verb \in {"backup", "restore"}
        /\ First = "rom" => IsRomVerb
        /\ First = "pass" => host.verb \in {"set_usb_boot", "reset"}
        /\ First \in {"lift", "window", "pass", "rom", "done"}
    BY DEF First, IsRomVerb
  <2>8. First \in {"window", "rom"} => 0 < host.count
    <3>1. First \in {"window", "rom"} => host.verb \notin {"backup", "restore", "connect"}
      BY <2>7 DEF IsRomVerb
    <3>2. host.count \in 1 .. Window => 0 < host.count
      BY SizesArePositive
    <3> QED
      BY <2>5, <3>1, <3>2
  <2>9. ~ Moving'
    BY <2>3, <2>7 DEF Moving
  <2>11. host'.pc = "rom" => IsRomVerb'
    BY <2>3, <2>7 DEF IsRomVerb
  <2>12. /\ {host'.start, host'.i, host'.count} \subseteq Nat /\ host'.sectors \in Int
         /\ host'.off = 0 /\ host'.file = <<>> /\ host'.port \in Port /\ host'.into = "dev"
         /\ host'.pc \in {"lift", "window", "pass", "rom", "done"} /\ host'.i = 0
    BY <2>3, <2>4, <2>7
  <2>13. /\ host'.pc = "done" =>
               host'.verb \notin {"backup", "read", "rom read", "restore", "write", "rom write"}
         /\ host'.pc = "window" => host'.verb \in {"read", "write", "probe"}
         /\ host'.pc = "lift" => host'.verb \in {"backup", "restore"}
         /\ host'.pc = "pass" => host'.verb \in {"set_usb_boot", "reset"}
         /\ host'.pc \in {"window", "rom"} => 0 < host'.count
         /\ host'.verb \notin {"backup", "restore", "connect"} => host'.count \in 1 .. Window
    BY <2>3, <2>5, <2>6, <2>7, <2>8
  <2>10. Begun'
    BY <1>1, <2>9, <2>11, <2>12, <2>13 DEF Begun
  <2> QED
    BY <2>10, DataBegins
<1> QED
  BY <1>2, <1>3 DEF Identify, Go, Exit, Die

\* The device is made out.
LEMMA UseBegins ==
  ASSUME IInv, DataInv, Memory', host.pc \in {"lift", "ask", "probe"},
         host.verb \in {"backup", "restore"}, NEW port \in Port, Use(port)
  PROVE  DataInv'
<1>1. Typed /\ Fresh /\ DOMAIN host = DOMAIN Off
  BY DEF DataInv, UpInv, IInv, TypeOK
<1>2. host.off = 0 /\ host.file = <<>>
  BY <1>1 DEF Fresh, Moving
<1>3. /\ {host.start, host.i, host.count} \subseteq Nat /\ host.sectors \in Int
      /\ Rest(host.sectors) \in Nat
  BY <1>1, RestIsACount DEF Typed
<1>4. /\ host'.verb = host.verb /\ host'.start = host.start /\ host'.i = host.i
      /\ host'.off = 0 /\ host'.file = <<>> /\ host'.into = "count"
      /\ host'.sectors = host.sectors /\ host'.port = port
  BY <1>1, <1>2 DEF Use, Off
<1>5. \/ host'.pc = "ask" /\ host'.count = host.count
      \/ host'.pc = More(0, Rest(host.sectors)) /\ host'.count = Rest(host.sectors)
      \/ host'.pc = "window" /\ host'.count = host.count /\ host.count # 0
  BY <1>1 DEF Use, Off
<1>6. /\ host'.count \in Nat
      /\ \/ host'.pc = "ask"
         \/ host'.pc = "window" /\ 0 < host'.count
         \/ host'.pc = "done" /\ host'.count = 0
  BY <1>3, <1>5 DEF More
<1>7. ~ Moving'
  BY <1>6 DEF Moving
<1>8. Begun'
  BY <1>3, <1>4, <1>6, <1>7 DEF Begun
<1> QED
  BY <1>8, DataBegins

\* Before a file is moved, it is not begun.
LEMMA WasBegun ==
  ASSUME IInv, DataInv,
         \/ host.pc \in {"lift", "ask", "probe", "pass"}
         \/ host.pc \in {"head", "bulk"} /\ host.into # "file"
  PROVE  Begun
<1>1. Typed /\ Fresh /\ Ranged /\ Verbal
  BY DEF DataInv, UpInv, IInv
<1>2. ~ Moving
  BY DEF Moving
<1>3. /\ Memory
      /\ {host.start, host.i, host.count} \subseteq Nat /\ host.sectors \in Int
      /\ host.port \in Port
      /\ host.into \in {"dev", "print", "back", "count", "file"}
      /\ host.pc = "bulk" => pipe = <<Head(pipe)>> /\ Head(pipe) \in Chunk
  BY <1>1 DEF Typed
<1>4. host.off = 0 /\ host.file = <<>> /\ (host.pc = "head" => host.i = 0)
  BY <1>1, <1>2 DEF Fresh
<1>5. host.pc \in {"head", "bulk"} /\ host.into = "back" => 0 < host.count
  BY <1>1, <1>4 DEF Ranged
<1>6. /\ host.pc = "lift" \/ (host.pc \in {"ask", "head", "bulk"} /\ host.into = "count")
           => host.verb \in {"backup", "restore"}
      /\ host.pc = "pass" => host.verb \in {"set_usb_boot", "reset"}
      /\ host.verb \notin {"backup", "restore", "connect"} => host.count \in 1 .. Window
  BY <1>1 DEF Ranged
<1> QED
  BY <1>2, <1>3, <1>4, <1>5, <1>6 DEF Begun

LEMMA DataLift ==
  ASSUME IInv, DataInv, Lift
  PROVE  DataInv'
<1>1. Memory' /\ host.pc = "lift" /\ DOMAIN host = DOMAIN Off /\ UNCHANGED pipe
  BY DEF DataInv, UpInv, Typed, Memory, Lift, At, IInv, TypeOK
<1>2. Begun /\ host.verb \in {"backup", "restore"} /\ host.port \in Port
  BY <1>1, WasBegun DEF Begun
<1>3. CASE Use(host.port)
  BY <1>1, <1>2, <1>3, UseBegins
<1>4. CASE host' = [host EXCEPT !.pc = "ask"]
  <2>1. /\ host'.pc = "ask" /\ host'.verb = host.verb /\ host'.start = host.start
        /\ host'.count = host.count /\ host'.i = host.i /\ host'.off = host.off
        /\ host'.file = host.file /\ host'.into = host.into
        /\ host'.sectors = host.sectors /\ host'.port = host.port
    BY <1>1, <1>4 DEF Off
  <2>2. Begun'
    BY <1>1, <1>2, <2>1 DEF Begun, Moving
  <2> QED
    BY <2>2, DataBegins
<1> QED
  BY <1>3, <1>4 DEF Lift, Go

\* The size of the disk that is asked for.
LEMMA EmmcSize ==
  ASSUME IInv
  PROVE  box.emmc \in Port /\ Size(box.sectors[box.emmc]) \in Chunk
BY LayoutsAreBoxes, WhatChunksAre DEF IInv, TypeOK

LEMMA DataAskSize ==
  ASSUME IInv, DataInv, AskSize
  PROVE  DataInv'
<1>1. host.pc = "ask" /\ DOMAIN host = DOMAIN Off /\ Verbal
  BY DEF AskSize, At, IInv, TypeOK
<1>2. Begun
  BY <1>1, WasBegun
<1>3. Memory'
  BY <1>2, EmmcSize, MemoryPut DEF AskSize, Begun
<1>4. /\ host'.pc = "head" /\ host'.verb = host.verb /\ host'.start = host.start
      /\ host'.count = host.count /\ host'.i = 0 /\ host'.off = host.off
      /\ host'.file = host.file /\ host'.into = host.into
      /\ host'.sectors = host.sectors /\ host'.port = host.port
  BY <1>1 DEF AskSize, Off
<1>5. host.into \in {"dev", "print", "count"}
  BY <1>1 DEF Verbal
<1>6. ~ Moving'
  BY <1>4, <1>5 DEF Moving
<1>7. Begun'
  BY <1>1, <1>2, <1>3, <1>4, <1>5, <1>6 DEF Begun
<1> QED
  BY <1>7, DataBegins

\* No device was made out.
LEMMA DataUnresolved ==
  ASSUME IInv, DataInv, Memory', host.pc \in {"ask", "probe"}, Unresolved
  PROVE  DataInv'
<1>1. Begun /\ DOMAIN host = DOMAIN Off
  BY WasBegun DEF IInv, TypeOK
<1>2. CASE host' = Off
  BY <1>2, DataEnds
<1>3. CASE host.verb = "backup" /\ Use(Default)
  BY <1>3, UseBegins, DefaultIsAPort
<1>4. CASE host.verb = "probe" /\ host' = [host EXCEPT !.pc = "done"]
  <2>1. /\ host'.pc = "done" /\ host'.verb = "probe" /\ host'.start = host.start
        /\ host'.count = host.count /\ host'.i = host.i /\ host'.off = host.off
        /\ host'.file = host.file /\ host'.into = host.into
        /\ host'.sectors = host.sectors /\ host'.port = host.port
    BY <1>1, <1>4 DEF Off
  <2>2. ~ Moving'
    BY <2>1 DEF Moving
  <2>3. Begun'
    BY <1>1, <2>1, <2>2 DEF Begun
  <2> QED
    BY <2>3, DataBegins
<1> QED
  BY <1>1, <1>2, <1>3, <1>4, NotMadeOut

LEMMA DataSizeRefused ==
  ASSUME IInv, DataInv, SizeRefused
  PROVE  DataInv'
<1>1. host.pc = "ask" /\ DOMAIN host = DOMAIN Off
  BY DEF SizeRefused, At, IInv, TypeOK
<1>2. Begun
  BY <1>1, WasBegun
<1>3. Memory'
  BY <1>2, EmmcSize, MemoryPut DEF SizeRefused, Begun
<1>4. CASE host' = Off
  BY <1>3, <1>4, DataEnds
<1>5. CASE host.into = "print" /\ host' = [host EXCEPT !.into = "dev"]
  <2>1. /\ host'.pc = "ask" /\ host'.verb = host.verb /\ host'.start = host.start
        /\ host'.count = host.count /\ host'.i = host.i /\ host'.off = host.off
        /\ host'.file = host.file /\ host'.into = "dev"
        /\ host'.sectors = host.sectors /\ host'.port = host.port
    BY <1>1, <1>5 DEF Off
  <2>2. ~ Moving'
    BY <2>1 DEF Moving
  <2>3. Begun'
    BY <1>1, <1>2, <1>3, <2>1, <2>2 DEF Begun
  <2> QED
    BY <2>3, DataBegins
<1>6. CASE Unresolved
  BY <1>1, <1>3, <1>6, DataUnresolved
<1> QED
  BY <1>4, <1>5, <1>6 DEF SizeRefused, Die

LEMMA DataProbe ==
  ASSUME IInv, DataInv, Probe
  PROVE  DataInv'
<1>1. host.pc = "probe" /\ DOMAIN host = DOMAIN Off /\ UNCHANGED <<box, disk>> /\ Verbal
  BY DEF Probe, At, IInv, TypeOK
<1>2. Begun
  BY <1>1, WasBegun
<1>3. PICK answered \in SUBSET {d \in Port : May(d, host.sectors - 1)} :
        /\ IF Found(answered) = {} THEN Unresolved
           ELSE /\ IF host.verb = "probe" THEN Go("done")
                   ELSE \E d \in Found(answered) : Use(d)
                /\ UNCHANGED pipe
        /\ stage' \in {stage} \cup
                      {[stage EXCEPT ![0] = disk[d][host.sectors - 1]] : d \in answered}
  BY DEF Probe
<1>4. Memory'
  <2>1. ASSUME NEW d \in answered PROVE disk[d][host.sectors - 1] \in Chunk
    BY <1>2 DEF Begun, Memory, May
  <2>2. stage' = stage \/ \E d \in answered :
               stage' = [stage EXCEPT ![0] = disk[d][host.sectors - 1]]
    BY <1>3
  <2>3. CASE stage' = stage
    BY <1>1, <1>2, <2>3 DEF Begun, Memory
  <2>4. ASSUME NEW d \in answered, stage' = [stage EXCEPT ![0] = disk[d][host.sectors - 1]]
        PROVE  Memory'
    BY <1>1, <1>2, <2>1, <2>4, MemoryPut DEF Begun
  <2> QED
    BY <2>2, <2>3, <2>4
<1>5. CASE Unresolved
  BY <1>1, <1>4, <1>5, DataUnresolved
<1>6. CASE host.verb = "probe" /\ host' = [host EXCEPT !.pc = "done"]
  <2>1. /\ host'.pc = "done" /\ host'.verb = "probe" /\ host'.start = host.start
        /\ host'.count = host.count /\ host'.i = host.i /\ host'.off = host.off
        /\ host'.file = host.file /\ host'.into = host.into
        /\ host'.sectors = host.sectors /\ host'.port = host.port
    BY <1>1, <1>6 DEF Off
  <2>2. ~ Moving'
    BY <2>1 DEF Moving
  <2>3. Begun'
    BY <1>2, <1>4, <2>1, <2>2 DEF Begun
  <2> QED
    BY <2>3, DataBegins
<1>7. ASSUME NEW d \in Found(answered), Use(d), host.verb # "probe" PROVE DataInv'
  <2>1. d \in Port
    BY DEF Found
  <2>2. host.verb \in {"backup", "restore"}
    BY <1>1, <1>7 DEF Verbal, Sizing
  <2> QED
    BY <1>1, <1>4, <1>7, <2>1, <2>2, UseBegins
<1> QED
  BY <1>3, <1>5, <1>6, <1>7 DEF Go

\* A size, or a probe's pattern, on its way.
LEMMA DataHeaderOfSize ==
  ASSUME IInv, DataInv, Header, host.into # "file"
  PROVE  DataInv'
<1>1. host.pc = "head" /\ DOMAIN host = DOMAIN Off /\ Verbal /\ Quiet /\ UNCHANGED <<box, disk, stage>>
  BY DEF Header, At, IInv, TypeOK
<1>2. Begun
  BY <1>1, WasBegun
<1>3. host.media = "mem" /\ host.i = 0 /\ 0 \in 0 .. Window - 1
  BY <1>1, <1>2, SizesArePositive DEF Verbal, Begun, Sizing
<1>4. stage[0] \in Chunk /\ Memory'
  BY <1>1, <1>2, <1>3 DEF Begun, Memory
<1>5. pipe' = <<stage[0]>>
  <2>1. pipe = <<>>
    BY <1>1 DEF Quiet, KilledIsIdle, IInv
  <2> QED
    BY <1>3, <2>1, OneChunk DEF Header
<1>6. pipe' = <<Head(pipe')>> /\ Head(pipe') \in Chunk
  BY <1>4, <1>5, OneChunk
<1>7. /\ host'.pc = "bulk" /\ host'.verb = host.verb /\ host'.start = host.start
      /\ host'.count = host.count /\ host'.i = host.i /\ host'.off = host.off
      /\ host'.file = host.file /\ host'.into = host.into
      /\ host'.sectors = host.sectors /\ host'.port = host.port
  BY <1>1 DEF Header, Go, Off
<1>8. ~ Moving'
  BY <1>7 DEF Moving
<1>9. Begun'
  BY <1>1, <1>2, <1>4, <1>6, <1>7, <1>8 DEF Begun
<1> QED
  BY <1>9, DataBegins

\* It arrives.
LEMMA DataBulkOfSize ==
  ASSUME IInv, DataInv, Bulk, host.into # "file"
  PROVE  DataInv'
<1>1. host.pc = "bulk" /\ DOMAIN host = DOMAIN Off /\ UNCHANGED <<box, disk, stage>> /\ Verbal
  BY DEF Bulk, At, IInv, TypeOK
<1>2. Begun /\ host.into \in {"dev", "print", "back", "count"}
  BY <1>1, WasBegun DEF Begun
<1>3. Memory'
  BY <1>1, <1>2 DEF Begun, Memory
<1>4. Head(pipe).at \in Int
  BY <1>1, <1>2 DEF Begun, Chunk
<1>5. Rest(Head(pipe).at) \in Nat
  BY <1>2, <1>4, RestIsACount DEF Begun
<1>6. /\ host'.verb = host.verb /\ host'.start = host.start /\ host'.i = host.i
      /\ host'.off = host.off /\ host'.file = host.file /\ host'.port = host.port
      /\ \/ /\ host.into = "back" /\ host'.into = "print" /\ host'.pc = "ask"
            /\ host'.count = host.count /\ host'.sectors = host.sectors
         \/ /\ host.into \in {"dev", "print"} /\ host'.into = host.into /\ host'.pc = "probe"
            /\ host'.count = host.count /\ host'.sectors = Head(pipe).at
         \/ /\ host.into = "count" /\ host'.into = "count"
            /\ host'.pc = More(0, Rest(Head(pipe).at))
            /\ host'.count = Rest(Head(pipe).at) /\ host'.sectors = Head(pipe).at
  BY <1>1, <1>2 DEF Bulk, Off
<1>7. \/ host'.pc \in {"ask", "probe"} /\ host'.into \in {"print", "dev"} /\ host'.count = host.count
      \/ /\ host'.into = "count" /\ host.verb \in {"backup", "restore"}
         /\ \/ host'.pc = "window" /\ 0 < host'.count
            \/ host'.pc = "done" /\ host'.count = 0
  <2>1. host.into = "count" => host.verb \in {"backup", "restore"}
    BY <1>1, <1>2 DEF Begun
  <2> QED
    BY <1>5, <1>6, <2>1 DEF More
<1>8. host'.count \in Nat /\ host'.sectors \in Int /\ ~ Moving'
  BY <1>2, <1>4, <1>5, <1>6, <1>7 DEF Begun, Moving
<1>9. host'.verb \notin {"backup", "restore", "connect"} => host'.count \in 1 .. Window
  BY <1>1, <1>2, <1>6, <1>7 DEF Begun
<1>10. Begun'
  BY <1>2, <1>3, <1>6, <1>7, <1>8, <1>9 DEF Begun
<1> QED
  BY <1>10, DataBegins

LEMMA DataPassed ==
  ASSUME IInv, DataInv, Passed \/ RomRuns
  PROVE  DataInv'
<1>1. /\ host.pc = "pass" \/ (host.pc = "rom" /\ host.verb = "rom run")
      /\ DOMAIN host = DOMAIN Off /\ UNCHANGED <<box, disk>>
      /\ host' = [host EXCEPT !.pc = "done"]
  BY DEF Passed, RomRuns, At, Go, IInv, TypeOK
<1>2. Typed /\ Fresh /\ Ranged
  BY DEF DataInv, UpInv
<1>3. Memory'
  <2>1. stage' = stage \/ stage' = [j \in DOMAIN stage |-> Junk]
    BY DEF Passed, RomRuns
  <2>2. CASE stage' = stage
    BY <1>1, <1>2, <2>2 DEF Typed, Memory
  <2> QED
    BY <1>1, <1>2, <2>1, <2>2, MemoryReset DEF Typed
<1>4. host.off = 0 /\ host.file = <<>> /\ host.verb \in {"set_usb_boot", "reset", "rom run"}
  BY <1>1, <1>2 DEF Fresh, Ranged, Moving, Files
<1>5. /\ host'.pc = "done" /\ host'.verb = host.verb /\ host'.start = host.start
      /\ host'.count = host.count /\ host'.i = host.i /\ host'.off = 0
      /\ host'.file = <<>> /\ host'.into = host.into
      /\ host'.sectors = host.sectors /\ host'.port = host.port
  BY <1>1, <1>4 DEF Off
<1>6. ~ Moving'
  BY <1>5 DEF Moving
<1>7. /\ {host.start, host.i, host.count} \subseteq Nat /\ host.sectors \in Int
      /\ host.port \in Port
      /\ host.into \in {"dev", "print", "back", "count", "file"}
  BY <1>2 DEF Typed
<1>8. Begun'
  BY <1>3, <1>4, <1>5, <1>6, <1>7 DEF Begun
<1> QED
  BY <1>8, DataBegins

\* What moves up stores nothing, and what moves down keeps no file.
LEMMA FilesStoreNothing == host.verb \in Files /\ host.pc # "write" => DownInv
BY DEF Files, DownInv, Arrived, Staged, Stored

LEMMA FilesStoreNothingNext == (host.verb \in Files /\ host.pc # "write" => DownInv)'
BY FilesStoreNothing, PTL

\* A window to back up is in the staging memory.
LEMMA DataReadWindow ==
  ASSUME IInv, DataInv, ReadWindow
  PROVE  DataInv'
<1>1. /\ host.pc = "window" /\ host.verb = "backup" /\ host.media = "mem" /\ UNCHANGED <<box, disk, pipe>>
      /\ DOMAIN host = DOMAIN Off
      /\ MayAll(host.port, host.start + host.off, Chunks) /\ stage' = Loaded
  BY DEF ReadWindow, At, IInv, TypeOK, Verbal
<1>2. Typed /\ Fresh /\ Ranged /\ Filed
  BY DEF DataInv, UpInv
<1>3. Chunks \in Nat /\ 1 <= Chunks /\ Chunks <= Window
  BY <1>1, <1>2, WindowFits
<1>4. /\ host'.pc = "head" /\ host'.verb = "backup" /\ host'.start = host.start
      /\ host'.count = host.count /\ host'.i = 0 /\ host'.off = host.off
      /\ host'.file = host.file /\ host'.into = "file" /\ host'.media = host.media
      /\ host'.sectors = host.sectors /\ host'.port = host.port
  BY <1>1 DEF ReadWindow, Off
<1>5. Moving' /\ Chunks' = Chunks /\ "backup" \in Uploads \cap Files
  BY <1>1, <1>4 DEF Moving, Chunks, Files, Uploads
<1>6. /\ \A j : OnTheBox(j) = disk[host.port][host.start + j]
      /\ \A j : OnTheBox(j)' = disk[host.port][host.start + j]
  <2>1. ASSUME NEW j PROVE OnTheBox(j) = disk[host.port][host.start + j]
    BY <1>1 DEF OnTheBox
  <2>2. ASSUME NEW j PROVE OnTheBox(j)' = disk[host.port][host.start + j]
    <3>1. OnTheBox(j)' = disk'[host'.port][host'.start + j]
      BY <1>1, <1>4 DEF OnTheBox
    <3> QED
      BY <1>1, <1>4, <3>1
  <2> QED
    BY <2>1, <2>2
<1>7. Typed'
  <2>1. Memory'
    BY <1>1, <1>2, <1>3, LoadedIs DEF Typed, Memory
  <2> QED
    BY <1>2, <1>4, <2>1 DEF Typed
<1>8. Fresh'
  BY <1>4, <1>5 DEF Fresh, Files, Uploads
<1>9. Ranged'
  <2>1. host.off < host.count
    BY <1>1, <1>2 DEF Ranged
  <2>2. 0 < Chunks'
    BY <1>3, <1>5
  <2> QED
    BY <1>4, <2>1, <2>2 DEF Ranged, Moving
<1>10. Filed'
  <2>1. Len(host.file) = host.off + 0
    BY <1>1, <1>2, <1>5 DEF Filed, Typed
  <2>2. \A k \in 1 .. Len(host'.file) : host'.file[k] = OnTheBox(k - 1)'
    BY <1>1, <1>2, <1>4, <1>5, <1>6 DEF Filed
  <2> QED
    BY <1>4, <2>1, <2>2 DEF Filed
<1>11. Fetched'
  <2>1. ASSUME NEW j \in 0 .. Chunks - 1
        PROVE  stage'[j] = disk[host.port][host.start + (host.off + j)]
    <3>1. j \in 0 .. Window - 1 /\ j < Chunks
      BY <1>3, SizesArePositive
    <3>2. Loaded[j] = disk[host.port][host.start + host.off + j]
      BY <1>1, <1>2, <1>3, <3>1, LoadedIs
    <3>3. host.start + host.off + j = host.start + (host.off + j)
      BY <1>2, <3>1 DEF Typed
    <3> QED
      BY <1>1, <3>2, <3>3
  <2>2. host'.media = "mem"
    BY <1>1, <1>4 DEF IInv, Verbal
  <2> QED
    BY <1>4, <1>5, <1>6, <2>1, <2>2 DEF Fetched
<1>12. DownInv'
  BY <1>4, <1>5, FilesStoreNothingNext
<1> QED
  BY <1>7, <1>8, <1>9, <1>10, <1>11, <1>12 DEF DataInv, UpInv

LEMMA DataArmUpload ==
  ASSUME IInv, DataInv, ArmUpload
  PROVE  DataInv'
<1>1. /\ host.pc = "window" /\ host.verb = "read" /\ UNCHANGED <<box, disk, stage, pipe>>
      /\ DOMAIN host = DOMAIN Off
  BY DEF ArmUpload, At, IInv, TypeOK, onBox
<1>2. Typed /\ Fresh /\ Ranged /\ Filed
  BY DEF DataInv, UpInv
<1>3. Chunks \in Nat /\ 1 <= Chunks /\ Chunks <= Window
  BY <1>1, <1>2, WindowFits
<1>4. /\ host'.pc = "head" /\ host'.verb = "read" /\ host'.start = host.start
      /\ host'.count = host.count /\ host'.i = 0 /\ host'.off = host.off
      /\ host'.file = host.file /\ host'.into = "file" /\ host'.media = host.media
      /\ host'.sectors = host.sectors /\ host'.port = host.port
  BY <1>1 DEF ArmUpload, Off
<1>5. Moving' /\ Chunks' = Chunks /\ "read" \in Uploads \cap Files
  BY <1>1, <1>4 DEF Moving, Chunks, Files, Uploads
<1>6. \A j : OnTheBox(j)' = OnTheBox(j)
  BY <1>1, <1>4 DEF OnTheBox
<1>7. Typed'
  BY <1>1, <1>2, <1>4 DEF Typed, Memory
<1>8. Fresh'
  BY <1>4, <1>5 DEF Fresh, Files, Uploads
<1>9. Ranged'
  <2>1. host.off < host.count /\ host.off = 0 /\ host.count \in 1 .. Window
    BY <1>1, <1>2 DEF Ranged
  <2>2. 0 < Chunks'
    BY <1>3, <1>5
  <2> QED
    BY <1>4, <2>1, <2>2 DEF Ranged, Moving
<1>10. Filed'
  <2>1. Len(host.file) = host.off + 0
    BY <1>1, <1>2, <1>5 DEF Filed, Typed
  <2>2. \A k \in 1 .. Len(host'.file) : host'.file[k] = OnTheBox(k - 1)'
    BY <1>1, <1>2, <1>4, <1>5, <1>6 DEF Filed
  <2> QED
    BY <1>4, <2>1, <2>2 DEF Filed
<1>11. Fetched'
  BY <1>4, SizesArePositive DEF Fetched
<1>12. DownInv'
  BY <1>4, <1>5, FilesStoreNothingNext
<1> QED
  BY <1>7, <1>8, <1>9, <1>10, <1>11, <1>12 DEF DataInv, UpInv

\* What a verb has to do with on the box.
LEMMA OnTheBoxIs ==
  ASSUME IInv, NEW j
  PROVE  /\ host.verb \in {"backup", "restore"} =>
              OnTheBox(j) = disk[host.port][host.start + j]
         /\ host.verb \notin {"backup", "restore"} /\ host.media = "store" =>
              OnTheBox(j) = disk[box.emmc][PartFirst + j]
         /\ host.verb \notin {"backup", "restore"} /\ host.media # "store" =>
              OnTheBox(j) = stage[j]
<1>1. host.verb \in {"backup", "restore"} => host.media # "store"
  BY DEF IInv, Verbal
<1> QED
  BY <1>1 DEF OnTheBox

\* A chunk of the file is queued.
LEMMA DataHeader ==
  ASSUME IInv, DataInv, Header, host.into = "file"
  PROVE  DataInv'
<1>1. /\ host.pc = "head" /\ UNCHANGED <<box, disk, stage>> /\ pipe = <<>>
      /\ DOMAIN host = DOMAIN Off /\ Moving /\ box.emmc \in Port
  BY EmmcSize DEF Header, At, IInv, TypeOK, Quiet, KilledIsIdle, Moving
<1>2. Typed /\ Fresh /\ Ranged /\ Filed /\ Fetched
  BY DEF DataInv, UpInv
<1>3. /\ Chunks \in Nat /\ Chunks <= Window /\ host.i \in Nat /\ host.i < Chunks
      /\ host.verb \in {"backup", "read"}
      /\ host.verb = "read" => host.off = 0
  BY <1>1, <1>2, WindowFits DEF Ranged, Typed
<1>4. /\ host'.pc = "bulk" /\ host'.verb = host.verb /\ host'.start = host.start
      /\ host'.count = host.count /\ host'.i = host.i /\ host'.off = host.off
      /\ host'.file = host.file /\ host'.into = "file" /\ host'.media = host.media
      /\ host'.sectors = host.sectors /\ host'.port = host.port
  BY <1>1 DEF Header, Go, Off
<1>5. Moving' /\ Chunks' = Chunks /\ host.verb \in Uploads \cap Files
  BY <1>3, <1>4 DEF Moving, Chunks, Files, Uploads
<1>6. \A j : OnTheBox(j)' = OnTheBox(j)
  BY <1>1, <1>4 DEF OnTheBox
<1>7. pipe' = <<OnTheBox(host.off + host.i)>> /\ OnTheBox(host.off + host.i) \in Chunk
  <2>1. CASE host.media = "store"
    <3>1. host.verb = "read" /\ host.off + host.i = host.i
      BY <1>3, <2>1 DEF IInv, Verbal
    <3>2. OnTheBox(host.i) = disk[box.emmc][PartFirst + host.i]
      BY <2>1, <3>1, OnTheBoxIs
    <3>3. PartFirst + host.i \in 0 .. box.sectors[box.emmc] - 1
      BY <2>1 DEF Header, MayStore, May
    <3>4. disk[box.emmc][PartFirst + host.i] \in Chunk
      BY <1>1, <1>2, <3>3 DEF Typed, Memory
    <3> QED
      BY <1>1, <2>1, <3>1, <3>2, <3>4, OneChunk DEF Header
  <2>2. CASE host.media # "store"
    <3>1. stage[host.i] = OnTheBox(host.off + host.i)
      <4>1. CASE host.verb = "backup"
        <5>1. host.i \in 0 .. Chunks - 1
          BY <1>3
        <5> QED
          BY <1>1, <1>2, <4>1, <5>1 DEF Fetched
      <4>2. CASE host.verb = "read"
        <5>1. host.off + host.i = host.i
          BY <1>3, <4>2
        <5> QED
          BY <2>2, <4>2, <5>1, OnTheBoxIs
      <4> QED
        BY <1>3, <4>1, <4>2
    <3>2. host.i \in 0 .. Window - 1
      BY <1>3, SizesArePositive
    <3>3. stage[host.i] \in Chunk
      BY <1>2, <3>2 DEF Typed, Memory
    <3> QED
      BY <1>1, <2>2, <3>1, <3>3, OneChunk DEF Header
  <2> QED
    BY <2>1, <2>2
<1>8. Typed'
  <2>1. Memory'
    BY <1>1, <1>2 DEF Typed, Memory
  <2>2. pipe' = <<Head(pipe')>> /\ Head(pipe') \in Chunk
    BY <1>7, OneChunk
  <2> QED
    BY <1>2, <1>4, <2>1, <2>2 DEF Typed
<1>9. Fresh'
  BY <1>4, <1>5 DEF Fresh, Files, Uploads
<1>10. Ranged'
  <2>1. host.off < host.count /\ (host.verb = "read" => host.count \in 1 .. Window)
    BY <1>1, <1>2 DEF Ranged, Moving
  <2> QED
    BY <1>3, <1>4, <1>5, <2>1 DEF Ranged, Moving
<1>11. Filed'
  <2>1. Len(host.file) = host.off + host.i
    BY <1>1, <1>2, <1>5 DEF Filed
  <2>2. \A k \in 1 .. Len(host'.file) : host'.file[k] = OnTheBox(k - 1)'
    BY <1>2, <1>4, <1>5, <1>6 DEF Filed
  <2> QED
    BY <1>4, <2>1, <2>2 DEF Filed
<1>12. Fetched'
  <2>1. host.media = "store" => host.i < PartLen
    BY DEF Header, MayStore
  <2>2. host.media = "store" => host.i <= PartLen
    BY <1>1, <1>2 DEF Fetched
  <2>3. pipe' = (<<OnTheBox(host.off + host.i)>>)'
    BY <1>1, <1>4, <1>7 DEF OnTheBox
  <2>4. host.verb = "backup" =>
          (\A j \in 0 .. Chunks - 1 : stage[j] = OnTheBox(host.off + j))'
    <3>1. host.verb = "backup" => \A j \in 0 .. Chunks - 1 : stage[j] = OnTheBox(host.off + j)
      BY <1>1, <1>2 DEF Fetched
    <3> QED
      BY <1>1, <1>4, <1>5, <3>1 DEF OnTheBox
  <2> QED
    BY <1>4, <2>1, <2>2, <2>3, <2>4 DEF Fetched
<1>13. DownInv'
  BY <1>4, <1>5, FilesStoreNothingNext
<1> QED
  BY <1>8, <1>9, <1>10, <1>11, <1>12, <1>13 DEF DataInv, UpInv

\* The partition ends before the file that was asked for.
LEMMA DataEmptyHeader ==
  ASSUME IInv, DataInv, EmptyHeader
  PROVE  DataInv'
<1>1. /\ host.pc = "head" /\ UNCHANGED <<box, disk, stage, pipe>>
      /\ DOMAIN host = DOMAIN Off /\ host.media = "store" /\ host.i >= PartLen
  BY DEF EmptyHeader, At, IInv, TypeOK, onBox
<1>2. Typed /\ Fresh /\ Ranged /\ Filed /\ Fetched
  BY DEF DataInv, UpInv
<1>3. host.verb = "read" /\ Moving
  BY <1>1, <1>2 DEF IInv, Verbal, Sizing, Moving, Ranged
<1>4. /\ host.off = 0 /\ host.i = PartLen /\ PartLen < host.count
      /\ Len(host.file) = PartLen /\ PartLen \in Nat
  <2>1. host.off = 0 /\ host.i < Chunks /\ host.i <= PartLen /\ host.i \in Nat
        /\ host.count \in Nat
    BY <1>1, <1>2, <1>3 DEF Ranged, Fetched, Typed
  <2>2. Chunks = host.count
    BY <1>2, <1>3, <2>1 DEF Chunks, Typed
  <2>3. Len(host.file) = host.off + host.i
    BY <1>2, <1>3 DEF Filed, Uploads
  <2> QED
    BY <1>1, <2>1, <2>2, <2>3, SizesArePositive
<1>5. /\ host'.pc = "done" /\ host'.verb = "read" /\ host'.start = host.start
      /\ host'.count = host.count /\ host'.i = host.i /\ host'.off = host.off
      /\ host'.file = host.file /\ host'.into = host.into /\ host'.media = host.media
      /\ host'.sectors = host.sectors /\ host'.port = host.port
  BY <1>1, <1>3 DEF EmptyHeader, Go, Off
<1>6. \A j : OnTheBox(j)' = OnTheBox(j)
  BY <1>1, <1>3, <1>5 DEF OnTheBox
<1>7. ~ Moving' /\ "read" \in Uploads \cap Files
  BY <1>5 DEF Moving, Files, Uploads
<1>8. Typed'
  BY <1>1, <1>2, <1>5 DEF Typed, Memory
<1>9. Fresh'
  BY <1>5, <1>7 DEF Fresh
<1>10. Ranged'
  BY <1>5 DEF Ranged, Moving
<1>11. Filed'
  <2>1. ToMove' = PartLen
    BY <1>1, <1>4, <1>5 DEF ToMove
  <2>2. \A k \in 1 .. Len(host'.file) : host'.file[k] = OnTheBox(k - 1)'
    BY <1>2, <1>3, <1>5, <1>6, <1>7 DEF Filed
  <2> QED
    BY <1>4, <1>5, <1>7, <2>1, <2>2 DEF Filed
<1>12. Fetched'
  BY <1>5, <1>7 DEF Fetched
<1>13. DownInv'
  BY <1>5, <1>7, FilesStoreNothingNext
<1> QED
  BY <1>8, <1>9, <1>10, <1>11, <1>12, <1>13 DEF DataInv, UpInv

\* A chunk of the file arrives, the window's last or not.
LEMMA DataBulk ==
  ASSUME IInv, DataInv, Bulk, host.into = "file"
  PROVE  DataInv'
<1>1. /\ host.pc = "bulk" /\ UNCHANGED <<box, disk, stage>>
      /\ DOMAIN host = DOMAIN Off /\ Moving
  BY DEF Bulk, At, IInv, TypeOK, Moving
<1>2. Typed /\ Fresh /\ Ranged /\ Filed /\ Fetched
  BY DEF DataInv, UpInv
<1>3. /\ Chunks \in Nat /\ host.off + Chunks <= host.count /\ host.i < Chunks
      /\ host.i \in Nat /\ host.off \in Nat /\ host.count \in Nat
      /\ host.verb \in {"backup", "read"} /\ host.verb \in Uploads \cap Files
      /\ host.verb = "read" => host.off = 0 /\ Chunks = host.count /\ host.count \in 1 .. Window
  <2>1. /\ host.verb \in {"backup", "read"} /\ host.i < Chunks
        /\ host.verb = "read" => host.off = 0 /\ host.count \in 1 .. Window
    BY <1>1, <1>2 DEF Ranged
  <2>2. Chunks \in Nat /\ host.off + Chunks <= host.count
    BY <1>1, <1>2, WindowFits
  <2>3. host.verb = "read" => Chunks = host.count
    BY <1>2, <2>1 DEF Chunks, Typed
  <2> QED
    BY <1>2, <2>1, <2>2, <2>3 DEF Typed, Files, Uploads
<1>4. /\ Head(pipe) \in Chunk /\ Head(pipe) = OnTheBox(host.off + host.i)
      /\ host.file \in Seq(Chunk) /\ Len(host.file) = host.off + host.i
      /\ \A k \in 1 .. Len(host.file) : host.file[k] = OnTheBox(k - 1)
      /\ host.media = "store" => host.i < PartLen
  <2>1. pipe = <<OnTheBox(host.off + host.i)>>
    BY <1>1, <1>2 DEF Fetched
  <2>2. Head(pipe) = OnTheBox(host.off + host.i)
    BY <2>1, OneChunk
  <2> QED
    BY <1>1, <1>2, <1>3, <2>2 DEF Typed, Fetched, Filed
<1>5. /\ host'.verb = host.verb /\ host'.start = host.start /\ host'.count = host.count
      /\ host'.file = Append(host.file, Head(pipe)) /\ host'.into = "file"
      /\ host'.media = host.media /\ host'.sectors = host.sectors /\ host'.port = host.port
      /\ \/ /\ host.i + 1 < Chunks /\ host'.pc = "head"
            /\ host'.i = host.i + 1 /\ host'.off = host.off
         \/ /\ ~ (host.i + 1 < Chunks) /\ host'.i = host.i
            /\ host'.off = host.off + (host.i + 1)
            /\ host'.pc = More(host.off + (host.i + 1), host.count)
  BY <1>1 DEF Bulk, Off
<1>6. \A j : OnTheBox(j)' = OnTheBox(j)
  BY <1>1, <1>5 DEF OnTheBox
<1>7. /\ host'.file \in Seq(Chunk) /\ Len(host'.file) = host.off + host.i + 1
      /\ \A k \in 1 .. Len(host'.file) : host'.file[k] = OnTheBox(k - 1)'
  <2>1. /\ Append(host.file, Head(pipe)) \in Seq(Chunk)
        /\ Len(Append(host.file, Head(pipe))) = Len(host.file) + 1
        /\ \A k \in 1 .. Len(host.file) : Append(host.file, Head(pipe))[k] = host.file[k]
        /\ Append(host.file, Head(pipe))[Len(host.file) + 1] = Head(pipe)
    BY <1>4, FileGrows
  <2>2. ASSUME NEW k \in 1 .. Len(host.file) + 1
        PROVE  Append(host.file, Head(pipe))[k] = OnTheBox(k - 1)
    <3>1. CASE k \in 1 .. Len(host.file)
      BY <1>4, <2>1, <3>1
    <3>2. CASE k = Len(host.file) + 1
      <4>1. k - 1 = host.off + host.i
        BY <1>3, <1>4, <3>2
      <4> QED
        BY <1>4, <2>1, <3>2, <4>1
    <3> QED
      BY <1>3, <1>4, <3>1, <3>2
  <2> QED
    BY <1>3, <1>4, <1>5, <1>6, <2>1, <2>2
<1>8. \/ /\ host'.pc = "head" /\ host'.i = host.i + 1 /\ host'.off = host.off
         /\ host'.i < Chunks
      \/ /\ host'.pc = "window" /\ host'.off = host.off + host.i + 1 /\ host'.off < host.count
         /\ host.verb = "backup" /\ host'.i = host.i
      \/ /\ host'.pc = "done" /\ host'.off = host.off + host.i + 1 /\ host'.off = host.count
         /\ host'.i = host.i /\ (host.verb = "read" => host.count = host.i + 1)
  <2>1. CASE host.i + 1 < Chunks /\ host'.i = host.i + 1 /\ host'.off = host.off /\ host'.pc = "head"
    BY <2>1
  <2>2. CASE /\ ~ (host.i + 1 < Chunks) /\ host'.i = host.i
             /\ host'.off = host.off + (host.i + 1)
             /\ host'.pc = More(host.off + (host.i + 1), host.count)
    <3>1. /\ Chunks = host.i + 1 /\ host.off + (host.i + 1) = host.off + host.i + 1
          /\ host.off + host.i + 1 <= host.count
      BY <1>3, <2>2
    <3>2. host.verb = "read" => host.count = host.i + 1 /\ host.off + host.i + 1 = host.count
      BY <1>3, <3>1
    <3>3. CASE host.off + host.i + 1 < host.count
      <4>1. host'.pc = "window" /\ host.verb = "backup"
        BY <1>3, <2>2, <3>1, <3>2, <3>3 DEF More
      <4> QED
        BY <2>2, <3>1, <3>3, <4>1
    <3>4. CASE ~ (host.off + host.i + 1 < host.count)
      <4>1. host'.pc = "done" /\ host.off + host.i + 1 = host.count
        BY <1>3, <2>2, <3>1, <3>4 DEF More
      <4> QED
        BY <2>2, <3>1, <3>2, <4>1
    <3> QED
      BY <3>3, <3>4
  <2> QED
    BY <1>5, <2>1, <2>2
<1>9. host'.i \in Nat /\ host'.off \in Nat
  BY <1>3, <1>8
<1>10. Typed'
  <2>1. Memory'
    BY <1>1, <1>2 DEF Typed, Memory
  <2> QED
    BY <1>2, <1>5, <1>7, <1>8, <1>9, <2>1 DEF Typed
<1>11. Fresh'
  BY <1>3, <1>5, <1>8 DEF Fresh, Moving
<1>12. Ranged'
  <2>1. host'.pc = "head" => Chunks' = Chunks /\ host.off < host.count
    BY <1>1, <1>2, <1>5, <1>8 DEF Chunks, Ranged
  <2> QED
    BY <1>3, <1>5, <1>8, <2>1 DEF Ranged, Moving
<1>13. Filed'
  <2>1. host'.pc = "done" => Len(host'.file) = ToMove'
    BY <1>3, <1>4, <1>5, <1>7, <1>8, SizesArePositive DEF ToMove
  <2>2. /\ host'.pc = "window" => Len(host'.file) = host'.off
        /\ host'.pc = "head" => Len(host'.file) = host'.off + host'.i
        /\ host'.pc \in {"head", "window", "done"}
    BY <1>3, <1>7, <1>8
  <2> QED
    BY <1>7, <2>1, <2>2 DEF Filed, Moving
<1>14. Fetched'
  <2>1. CASE host'.pc = "head"
    <3>1. host'.off = host.off /\ host'.i = host.i + 1 /\ Chunks' = Chunks
      BY <1>5, <1>8, <2>1 DEF Chunks
    <3>2. host.verb = "backup" => \A j \in 0 .. Chunks - 1 : stage[j] = OnTheBox(host.off + j)
      BY <1>1, <1>2 DEF Fetched
    <3>3. host.media = "store" => host.i + 1 <= PartLen
      BY <1>3, <1>4, SizesArePositive
    <3> QED
      BY <1>1, <1>5, <1>6, <2>1, <3>1, <3>2, <3>3 DEF Fetched
  <2>2. CASE host'.pc # "head"
    <3>1. ~ Moving'
      BY <1>8, <2>2 DEF Moving
    <3> QED
      BY <2>2, <3>1 DEF Fetched
  <2> QED
    BY <2>1, <2>2
<1>15. DownInv'
  BY <1>3, <1>5, <1>8, FilesStoreNothingNext
<1> QED
  BY <1>10, <1>11, <1>12, <1>13, <1>14, <1>15 DEF DataInv, UpInv

LEMMA DownloadsKeepNoFile == host.verb \notin Uploads /\ ~ Moving => Filed /\ Fetched
BY DEF Filed, Fetched

LEMMA DownloadsKeepNoFileNext == (host.verb \notin Uploads /\ ~ Moving => Filed /\ Fetched)'
BY DownloadsKeepNoFile, PTL

\* Where the file goes.
LEMMA PlacedIs ==
  ASSUME IInv, Typed, Ranged, host.pc \in {"send", "ack"}
  PROVE  /\ Chunks \in Nat /\ Chunks <= Window /\ host.i \in Nat /\ host.i < Chunks
         /\ host.off \in Nat /\ host.off + Chunks <= host.count
         /\ host.i \in 0 .. Window - 1 /\ host.i \in 0 .. Chunks - 1
         /\ host.verb \in {"restore", "write", "probe"} /\ host.verb \notin Files \cup Uploads
         /\ host.verb # "write" => host.media = "mem"
         /\ host.verb # "restore" => host.off = 0 /\ Chunks = host.count /\ host.count \in 1 .. Window
<1>1. /\ host.verb \in {"restore", "write", "probe"} /\ host.i < Chunks
      /\ host.verb # "restore" => host.off = 0 /\ host.count \in 1 .. Window
  BY DEF Ranged
<1>2. Chunks \in Nat /\ Chunks <= Window /\ host.off + Chunks <= host.count
  BY WindowFits
<1>3. host.verb # "restore" => Chunks = host.count
  BY <1>1 DEF Chunks, Typed
<1>4. host.i \in Nat /\ host.off \in Nat /\ Window \in Nat
  BY SizesArePositive DEF Typed
<1>5. host.verb # "write" => host.media = "mem"
  BY <1>1 DEF IInv, Verbal
<1>6. host.i \in 0 .. Window - 1 /\ host.i \in 0 .. Chunks - 1
  BY <1>1, <1>2, <1>4
<1>7. host.verb \notin Files \cup Uploads
  BY <1>1 DEF Files, Uploads
<1> QED
  BY <1>1, <1>2, <1>3, <1>4, <1>5, <1>6, <1>7

\* A sector of a disk is written.
LEMMA DiskPut ==
  ASSUME Memory, NEW d \in Port, NEW k, NEW c \in Chunk,
         disk' = [disk EXCEPT ![d][k] = c]
  PROVE  /\ DOMAIN disk' = Port
         /\ \A p \in Port : disk'[p] \in [0 .. box.sectors[p] - 1 -> Chunk]
         /\ \A p \in Port : \A s \in 0 .. box.sectors[p] - 1 :
              disk'[p][s] = IF p = d /\ s = k THEN c ELSE disk[p][s]
<1>1. DOMAIN disk = Port /\ \A p \in Port : disk[p] \in [0 .. box.sectors[p] - 1 -> Chunk]
  BY DEF Memory
<1>2. /\ DOMAIN disk' = Port
      /\ disk'[d] = [disk[d] EXCEPT ![k] = c]
      /\ \A p \in Port \ {d} : disk'[p] = disk[p]
  BY <1>1
<1>3. /\ disk'[d] \in [0 .. box.sectors[d] - 1 -> Chunk]
      /\ \A s \in 0 .. box.sectors[d] - 1 : disk'[d][s] = IF s = k THEN c ELSE disk[d][s]
  BY <1>1, <1>2
<1> QED
  BY <1>1, <1>2, <1>3

LEMMA DataArmDownload ==
  ASSUME IInv, DataInv, ArmDownload
  PROVE  DataInv'
<1>1. /\ host.pc = "window" /\ host.verb \in {"restore", "write", "probe"}
      /\ UNCHANGED <<box, disk, stage, pipe>> /\ DOMAIN host = DOMAIN Off
  BY DEF ArmDownload, At, IInv, TypeOK, onBox
<1>2. Typed /\ Fresh /\ Ranged /\ (FileReads => Stored)
  BY DEF DataInv, UpInv, DownInv
<1>3. 1 <= Chunks /\ Chunks \in Nat
  BY <1>1, <1>2, WindowFits
<1>4. /\ host'.pc = "send" /\ host'.verb = host.verb /\ host'.start = host.start
      /\ host'.count = host.count /\ host'.i = 0 /\ host'.off = host.off
      /\ host'.file = host.file /\ host'.into = host.into /\ host'.media = host.media
      /\ host'.sectors = host.sectors /\ host'.port = host.port
  BY <1>1 DEF ArmDownload, Off
<1>5. ~ Moving' /\ Chunks' = Chunks /\ host'.verb \notin Files \cup Uploads
  BY <1>1, <1>4 DEF Moving, Chunks, Files, Uploads
<1>6. Typed'
  BY <1>1, <1>2, <1>4 DEF Typed, Memory
<1>7. Fresh'
  BY <1>2, <1>4, <1>5 DEF Fresh
<1>8. Ranged'
  <2>1. /\ host.off < host.count /\ host.off \in Nat
        /\ host.verb # "restore" => host.off = 0 /\ host.count \in 1 .. Window
    BY <1>1, <1>2 DEF Ranged, Typed
  <2>2. host'.i < Chunks'
    BY <1>3, <1>4, <1>5
  <2> QED
    BY <1>1, <1>4, <1>5, <2>1, <2>2 DEF Ranged
<1>9. FileReads => DownInv'
  <2> SUFFICES ASSUME FileReads PROVE DownInv'
    OBVIOUS
  <2>1. Arrived' /\ Staged'
    BY <1>4, NoneYet DEF Arrived, Staged
  <2>2. Stored'
    BY <1>1, <1>2, <1>4 DEF Stored
  <2> QED
    BY <2>1, <2>2 DEF DownInv
<1> QED
  BY <1>5, <1>6, <1>7, <1>8, <1>9, DownloadsKeepNoFileNext DEF DataInv, UpInv

LEMMA SentIs ==
  ASSUME host.off \in Nat, host.i \in Nat, NEW sent \in Buffered(host.i)
  PROVE  /\ sent \in Chunk
         /\ FileReads /\ host.verb # "probe" => sent = Image(host.off + host.i)
<1>1. sent \in {Pattern, Zeros, Image(host.off + host.i)}
  BY DEF Buffered
<1> QED
  BY <1>1, WhatChunksAre DEF Buffered

\* A chunk of the image is sent, and the box queues its verdict.
LEMMA DataSend ==
  ASSUME IInv, DataInv, Send
  PROVE  DataInv'
<1>1. /\ host.pc = "send" /\ UNCHANGED box /\ pipe = <<>> /\ DOMAIN host = DOMAIN Off
      /\ box.emmc \in Port
  BY EmmcSize DEF Send, At, IInv, TypeOK, Quiet, KilledIsIdle
<1>2. Typed /\ Fresh /\ Ranged /\ (FileReads => Arrived /\ Stored)
  BY DEF DataInv, UpInv, DownInv
<1>3. PICK good \in BOOLEAN, sent \in Buffered(host.i) :
        /\ \/ /\ host.media = "store" /\ (good => MayStore(host.i)) /\ stage' = stage
              /\ disk' = IF good THEN [disk EXCEPT ![box.emmc][PartFirst + host.i] = sent]
                         ELSE disk
           \/ /\ host.media # "store" /\ disk' = disk
              /\ stage' = [stage EXCEPT ![host.i] = IF good THEN sent ELSE Junk]
        /\ pipe' = Append(pipe, Ack(good))
  BY DEF Send
<1>4. /\ Chunks \in Nat /\ host.i \in Nat /\ host.i < Chunks /\ host.off \in Nat
      /\ host.i \in 0 .. Window - 1
      /\ host.verb \in {"restore", "write", "probe"} /\ host.verb \notin Files \cup Uploads
      /\ host.verb # "write" => host.media = "mem"
      /\ host.verb # "restore" => host.off = 0 /\ host.count \in 1 .. Window
  BY <1>1, <1>2, PlacedIs
<1>5. /\ host'.pc = "ack" /\ host'.verb = host.verb /\ host'.start = host.start
      /\ host'.count = host.count /\ host'.i = host.i /\ host'.off = host.off
      /\ host'.file = host.file /\ host'.into = host.into /\ host'.media = host.media
      /\ host'.sectors = host.sectors /\ host'.port = host.port
  BY <1>1 DEF Send, Go, Off
<1>6. ~ Moving' /\ Chunks' = Chunks /\ host'.verb \notin Files \cup Uploads
  BY <1>4, <1>5 DEF Moving, Chunks
<1>7. sent \in Chunk /\ (FileReads /\ host.verb # "probe" => sent = Image(host.off + host.i))
  BY <1>4, SentIs
<1>8. host.media = "store" /\ good => PartFirst + host.i \in 0 .. box.sectors[box.emmc] - 1
  BY <1>3 DEF MayStore, May
<1>9. Memory'
  <2>1. /\ stage \in [0 .. Window - 1 -> Chunk] /\ DOMAIN disk = Port
        /\ \A d \in Port : disk[d] \in [0 .. box.sectors[d] - 1 -> Chunk]
    BY <1>2 DEF Typed, Memory
  <2>2. stage' \in [0 .. Window - 1 -> Chunk]
    BY <1>3, <1>7, <2>1, WhatChunksAre
  <2>3. CASE disk' = disk
    BY <1>1, <2>1, <2>2, <2>3 DEF Memory
  <2>4. CASE disk' = [disk EXCEPT ![box.emmc][PartFirst + host.i] = sent]
    <3>1. DOMAIN disk' = Port /\ \A d \in Port : disk'[d] \in [0 .. box.sectors[d] - 1 -> Chunk]
      BY <1>1, <1>2, <1>7, <2>4, DiskPut DEF Typed
    <3> QED
      BY <1>1, <2>2, <3>1 DEF Memory
  <2> QED
    BY <1>3, <2>3, <2>4
<1>10. Typed'
  BY <1>2, <1>5, <1>9 DEF Typed
<1>11. Fresh'
  BY <1>2, <1>5, <1>6 DEF Fresh
<1>12. Ranged'
  <2>1. host.off < host.count
    BY <1>1, <1>2 DEF Ranged
  <2> QED
    BY <1>4, <1>5, <1>6, <2>1 DEF Ranged
<1>13. FileReads => DownInv'
  <2> SUFFICES ASSUME FileReads PROVE DownInv'
    OBVIOUS
  <2>0. /\ stage \in [0 .. Window - 1 -> Chunk]
        /\ \A d \in Port : DOMAIN disk[d] = 0 .. box.sectors[d] - 1
        /\ \A d \in Port : DOMAIN disk'[d] = 0 .. box.sectors[d] - 1
    BY <1>1, <1>2, <1>9 DEF Typed, Memory
  <2>1. host.verb # "probe" => \A j \in 0 .. host.i - 1 : Placed(j, Image(host.off + j))
    BY <1>1, <1>2, <1>4 DEF Arrived
  <2>2. ASSUME NEW j \in 0 .. host.i - 1, NEW c, Placed(j, c) PROVE Placed(j, c)'
    <3>1. CASE host.media = "store"
      <4>1. PartFirst + j \in 0 .. box.sectors[box.emmc] - 1
            /\ disk[box.emmc][PartFirst + j] = c
        BY <1>1, <2>0, <2>2, <3>1 DEF Placed
      <4>2. disk'[box.emmc][PartFirst + j] = disk[box.emmc][PartFirst + j]
        <5>1. PartFirst + j # PartFirst + host.i
          BY <1>4, FirstIsASector
        <5>2. disk' = disk \/ disk' = [disk EXCEPT ![box.emmc][PartFirst + host.i] = sent]
          BY <1>3
        <5>3. CASE disk' = [disk EXCEPT ![box.emmc][PartFirst + host.i] = sent]
          BY <1>1, <1>2, <1>7, <4>1, <5>1, <5>3, DiskPut DEF Typed
        <5> QED
          BY <5>2, <5>3
      <4> QED
        BY <1>1, <1>5, <2>0, <3>1, <4>1, <4>2 DEF Placed
    <3>2. CASE host.media # "store"
      <4>1. j # host.i /\ j \in 0 .. Window - 1
        BY <1>4, SizesArePositive
      <4>2. stage'[j] = stage[j]
        BY <1>3, <2>0, <3>2, <4>1
      <4> QED
        BY <1>5, <2>2, <3>2, <4>2 DEF Placed
    <3> QED
      BY <3>1, <3>2
  <2>3. good = TRUE => Placed(host.i, sent)'
    <3>1. CASE host.media = "store" /\ good = TRUE
      <4>1. disk' = [disk EXCEPT ![box.emmc][PartFirst + host.i] = sent]
        BY <1>3, <3>1
      <4>2. disk'[box.emmc][PartFirst + host.i] = sent
        BY <1>1, <1>2, <1>7, <1>8, <3>1, <4>1, DiskPut DEF Typed
      <4> QED
        BY <1>1, <1>5, <1>8, <2>0, <3>1, <4>2 DEF Placed
    <3>2. CASE host.media # "store" /\ good = TRUE
      <4>1. stage'[host.i] = sent
        BY <1>3, <1>4, <2>0, <3>2
      <4> QED
        BY <1>5, <3>2, <4>1 DEF Placed
    <3> QED
      BY <3>1, <3>2
  <2>4. pipe' = <<Ack(good)>>
    BY <1>1, <1>3, OneChunk
  <2>5. pipe' = <<Ack(TRUE)>> => good = TRUE
    <3>1. good = FALSE => pipe' # <<Ack(TRUE)>>
      BY <2>4, WhatChunksAre
    <3> QED
      BY <3>1
  <2>6. Arrived'
    <3>1. host.verb # "probe" =>
             \A j \in 0 .. host.i - 1 : Placed(j, Image(host.off + j))'
      <4>1. ASSUME NEW j \in 0 .. host.i - 1, host.verb # "probe"
            PROVE  Placed(j, Image(host.off + j))'
        <5>1. Placed(j, Image(host.off + j))
          BY <2>1, <4>1
        <5> QED
          BY <1>5, <2>2, <5>1
      <4> QED
        BY <4>1
    <3>2. host.verb # "probe" /\ pipe' = <<Ack(TRUE)>> =>
             Placed(host.i, Image(host.off + host.i))'
      BY <1>5, <1>7, <2>3, <2>5
    <3> QED
      BY <1>5, <3>1, <3>2 DEF Arrived
  <2>7. Staged'
    BY <1>5 DEF Staged
  <2>8. Stored'
    <3>1. host.verb = "restore" => disk' = disk
      BY <1>3, <1>4
    <3> QED
      BY <1>1, <1>2, <1>5, <3>1 DEF Stored
  <2> QED
    BY <2>6, <2>7, <2>8 DEF DownInv
<1> QED
  BY <1>6, <1>10, <1>11, <1>12, <1>13, DownloadsKeepNoFileNext DEF DataInv, UpInv

\* The box's verdict on a chunk.
LEMMA DataVerdict ==
  ASSUME IInv, DataInv, Verdict
  PROVE  DataInv'
<1>1. /\ host.pc = "ack" /\ UNCHANGED <<box, disk, stage>> /\ DOMAIN host = DOMAIN Off
  BY DEF Verdict, At, IInv, TypeOK
<1>2. Typed /\ Fresh /\ Ranged /\ Memory /\ (FileReads => Arrived /\ Stored)
  BY DEF DataInv, UpInv, DownInv, Typed
<1>3. Memory'
  BY <1>1, <1>2 DEF Memory
<1>4. /\ Chunks \in Nat /\ host.i \in Nat /\ host.i < Chunks /\ host.off \in Nat
      /\ host.off + Chunks <= host.count
      /\ host.verb \in {"restore", "write", "probe"} /\ host.verb \notin Files \cup Uploads
      /\ host.verb # "write" => host.media = "mem"
      /\ host.verb # "restore" => host.off = 0 /\ Chunks = host.count /\ host.count \in 1 .. Window
  BY <1>1, <1>2, PlacedIs
<1>5. CASE host' = Off
  BY <1>3, <1>5, DataEnds
<1>6. CASE GoodAck(Head(pipe)) /\ host' = IF host.i + 1 < Chunks
               THEN [host EXCEPT !.i = @ + 1, !.pc = "send"]
               ELSE [host EXCEPT !.pc = Sent, !.into = "back", !.i = 0]
  <2>1. pipe = <<Ack(TRUE)>>
    <3>1. PICK c : pipe = <<c>>
      BY <1>1 DEF IInv, Quiet
    <3> QED
      BY <1>6, <3>1, OneChunk DEF GoodAck
  <2>2. /\ host'.verb = host.verb /\ host'.start = host.start
        /\ host'.count = host.count /\ host'.off = host.off
        /\ host'.file = host.file /\ host'.media = host.media
        /\ host'.sectors = host.sectors /\ host'.port = host.port
        /\ \/ /\ host.i + 1 < Chunks /\ host'.i = host.i + 1 /\ host'.pc = "send"
              /\ host'.into = host.into
           \/ /\ ~ (host.i + 1 < Chunks) /\ host'.i = 0 /\ host'.into = "back"
              /\ \/ host.verb = "restore" /\ host'.pc = "write"
                 \/ host.verb = "probe" /\ host'.pc = "head"
                 \/ host.verb = "write" /\ host'.pc = "done"
    BY <1>1, <1>4, <1>6 DEF Sent, Off
  <2>3. Chunks' = Chunks /\ ~ Moving' /\ host'.verb \notin Files \cup Uploads
    BY <1>4, <2>2 DEF Chunks, Moving
  <2>4. Typed'
    BY <1>2, <1>3, <1>4, <2>2 DEF Typed
  <2>5. Fresh'
    BY <1>2, <1>4, <2>2, <2>3 DEF Fresh
  <2>6. Ranged'
    <3>1. host.off < host.count
      BY <1>1, <1>2 DEF Ranged
    <3> QED
      BY <1>4, <2>2, <2>3, <3>1 DEF Ranged
  <2>7. FileReads => DownInv'
    <3> SUFFICES ASSUME FileReads PROVE DownInv'
      OBVIOUS
    <3>1. ASSUME NEW j \in 0 .. host.i, host.verb # "probe"
          PROVE  Placed(j, Image(host.off + j))
      <4>1. CASE j = host.i
        BY <1>1, <1>2, <1>4, <2>1, <3>1, <4>1 DEF Arrived
      <4>2. CASE j # host.i
        <5>1. j \in 0 .. host.i - 1
          BY <1>4, <4>2
        <5> QED
          BY <1>1, <1>2, <1>4, <3>1, <5>1 DEF Arrived
      <4> QED
        BY <4>1, <4>2
    <3>2. ASSUME NEW j, NEW c, Placed(j, c) PROVE Placed(j, c)'
      BY <1>1, <2>2, <3>2 DEF Placed
    <3>3. Arrived'
      <4>1. CASE host'.pc = "send" /\ host.verb # "probe"
        <5>1. host'.i = host.i + 1
          BY <2>2, <4>1
        <5>2. ASSUME NEW j \in 0 .. host'.i - 1 PROVE Placed(j, Image(host.off + j))'
          <6>1. j \in 0 .. host.i
            BY <1>4, <5>1
          <6>2. Placed(j, Image(host.off + j))
            BY <3>1, <4>1, <6>1
          <6> QED
            BY <2>2, <3>2, <6>2
        <5> QED
          BY <4>1, <5>2 DEF Arrived
      <4> QED
        BY <2>2, <4>1 DEF Arrived
    <3>4. Staged'
      <4>1. CASE host'.pc = "write"
        <5>1. host.verb = "restore" /\ host.media = "mem" /\ Chunks = host.i + 1
          BY <1>4, <2>2, <4>1
        <5>2. ASSUME NEW j \in 0 .. Chunks - 1 PROVE stage[j] = Image(host.off + j)
          <6>1. Placed(j, Image(host.off + j))
            BY <1>4, <3>1, <5>1
          <6> QED
            BY <5>1, <6>1 DEF Placed
        <5> QED
          BY <1>1, <2>2, <2>3, <5>2 DEF Staged
      <4> QED
        BY <4>1 DEF Staged
    <3>5. Stored'
      <4>1. CASE host'.pc = "done"
        <5>1. host.verb = "write" /\ host.off = 0 /\ host.count = host.i + 1
          BY <1>4, <2>2, <4>1
        <5>2. ASSUME NEW j \in 0 .. host.count - 1 PROVE Placed(j, Image(j))'
          <6>1. Placed(j, Image(host.off + j))
            BY <1>4, <3>1, <5>1
          <6>2. host.off + j = j
            BY <5>1
          <6> QED
            BY <3>2, <6>1, <6>2
        <5> QED
          BY <2>2, <4>1, <5>1, <5>2 DEF Stored
      <4>2. CASE host'.pc # "done"
        BY <1>1, <1>2, <2>2, <4>2 DEF Stored
      <4> QED
        BY <4>1, <4>2
    <3> QED
      BY <3>3, <3>4, <3>5 DEF DownInv
  <2> QED
    BY <2>3, <2>4, <2>5, <2>6, <2>7, DownloadsKeepNoFileNext DEF DataInv, UpInv
<1> QED
  BY <1>5, <1>6 DEF Verdict, Die

\* A window goes to the disk.
LEMMA DataWriteWindow ==
  ASSUME IInv, DataInv, WriteWindow
  PROVE  DataInv'
<1>1. /\ host.pc = "write" /\ UNCHANGED <<box, stage, pipe>> /\ DOMAIN host = DOMAIN Off
      /\ MayAll(host.port, Target(0), Chunks) /\ disk' = Written(0 .. Chunks - 1)
      /\ host.verb = "restore" /\ host.media = "mem"
  BY DEF WriteWindow, At, IInv, TypeOK, onBox, Verbal
<1>2. Typed /\ Fresh /\ Ranged /\ Memory /\ (FileReads => Staged /\ Stored)
  BY DEF DataInv, UpInv, DownInv, Typed
<1>3. /\ Chunks \in Nat /\ 1 <= Chunks /\ Chunks <= Window /\ host.off + Chunks <= host.count
      /\ host.off \in Nat /\ host.count \in Nat /\ host.start \in Nat /\ host.port \in Port
  BY <1>1, <1>2, WindowFits DEF Typed
<1>4. /\ host'.verb = "restore" /\ host'.start = host.start /\ host'.count = host.count
      /\ host'.off = host.off + Chunks /\ host'.i = host.i /\ host'.into = host.into
      /\ host'.file = host.file /\ host'.media = host.media
      /\ host'.sectors = host.sectors /\ host'.port = host.port
      /\ \/ host'.pc = "window" /\ host.off + Chunks < host.count
         \/ host'.pc = "done" /\ host.off + Chunks = host.count
  BY <1>1, <1>3 DEF WriteWindow, More, Off
<1>5. 0 .. Chunks - 1 \in SUBSET (0 .. Window - 1)
  BY <1>3, SizesArePositive
<1>6. /\ DOMAIN disk' = Port
      /\ \A d \in Port : disk'[d] \in [0 .. box.sectors[d] - 1 -> Chunk]
      /\ \A d \in Port : \A s \in 0 .. box.sectors[d] - 1 :
           disk'[d][s] = IF d = host.port /\ s - Target(0) \in 0 .. Chunks - 1
                         THEN stage[s - Target(0)] ELSE disk[d][s]
  <2>1. /\ DOMAIN Written(0 .. Chunks - 1) = Port
        /\ \A d \in Port : Written(0 .. Chunks - 1)[d] \in [0 .. box.sectors[d] - 1 -> Chunk]
        /\ \A d \in Port : \A s \in 0 .. box.sectors[d] - 1 :
             Written(0 .. Chunks - 1)[d][s] =
               IF d = host.port /\ s - Target(0) \in 0 .. Chunks - 1
               THEN stage[s - Target(0)] ELSE disk[d][s]
    BY <1>2, <1>5, WrittenIs
  <2> QED
    BY <1>1, <2>1
<1>7. ~ Moving' /\ host'.verb \notin Files \cup Uploads
  BY <1>4 DEF Moving, Files, Uploads
<1>8. Typed'
  <2>1. Memory'
    BY <1>1, <1>2, <1>6 DEF Memory
  <2> QED
    BY <1>2, <1>3, <1>4, <2>1 DEF Typed
<1>9. Fresh'
  BY <1>2, <1>1, <1>4, <1>7 DEF Fresh, Files, Uploads
<1>10. Ranged'
  BY <1>3, <1>4, <1>7 DEF Ranged
<1>11. FileReads => DownInv'
  <2> SUFFICES ASSUME FileReads PROVE DownInv'
    OBVIOUS
  <2>1. Arrived' /\ Staged'
    BY <1>4 DEF Arrived, Staged
  <2>5. \A s \in 0 .. box.sectors[host.port] - 1 :
          disk'[host.port][s] = IF s - Target(0) \in 0 .. Chunks - 1
                                THEN stage[s - Target(0)] ELSE disk[host.port][s]
    BY <1>3, <1>6
  <2>2. ASSUME NEW j \in 0 .. host.off + Chunks - 1, NEW s, s = host.start + j
        PROVE  s \in 0 .. box.sectors[host.port] - 1 /\ disk'[host.port][s] = Image(j)
    <3>1. CASE j < host.off
      <4>1. j \in 0 .. host.off - 1
        BY <1>3, <3>1
      <4>2. s \in 0 .. box.sectors[host.port] - 1 /\ disk[host.port][s] = Image(j)
        BY <1>1, <1>2, <1>3, <2>2, <4>1 DEF Stored, Memory
      <4>3. s - Target(0) \notin 0 .. Chunks - 1
        BY <1>3, <2>2, <3>1 DEF Target
      <4> QED
        BY <2>5, <4>2, <4>3
    <3>2. CASE ~ (j < host.off)
      <4>1. /\ s - Target(0) = j - host.off /\ j - host.off \in 0 .. Chunks - 1
            /\ s \in Target(0) .. Target(0) + Chunks - 1
        BY <1>3, <2>2, <3>2 DEF Target
      <4>2. s \in 0 .. box.sectors[host.port] - 1
        BY <1>1, <4>1 DEF MayAll, May
      <4>3. stage[j - host.off] = Image(host.off + (j - host.off))
        BY <1>1, <1>2, <4>1 DEF Staged
      <4>4. host.off + (j - host.off) = j
        BY <1>3
      <4>5. disk'[host.port][s] = stage[s - Target(0)]
        BY <2>5, <4>1, <4>2
      <4> QED
        BY <4>1, <4>2, <4>3, <4>4, <4>5
    <3> QED
      BY <3>1, <3>2
  <2>3. DOMAIN disk'[host.port] = 0 .. box.sectors[host.port] - 1
    BY <1>3, <1>6
  <2>6. \A j \in 0 .. host.off + Chunks - 1 :
           /\ host.start + j \in DOMAIN disk'[host.port]
           /\ disk'[host.port][host.start + j] = Image(j)
    BY <2>2, <2>3
  <2>4. Stored'
    <3>1. \A j \in 0 .. host'.off - 1 :
             /\ host'.start + j \in DOMAIN disk'[host'.port]
             /\ disk'[host'.port][host'.start + j] = Image(j)
      <4>1. host'.off = host.off + Chunks /\ host'.start = host.start /\ host'.port = host.port
        BY <1>4
      <4>2. ASSUME NEW j \in 0 .. host'.off - 1
            PROVE  /\ host.start + j \in DOMAIN disk'[host.port]
                   /\ disk'[host.port][host.start + j] = Image(j)
        <5>1. j \in 0 .. host.off + Chunks - 1
          BY <1>3, <4>1, <4>2
        <5> QED
          BY <2>6, <5>1
      <4> QED
        BY <4>1, <4>2
    <3>2. host'.pc = "done" => host'.off = host'.count
      BY <1>3, <1>4
    <3> QED
      BY <1>4, <3>1, <3>2 DEF Stored
  <2> QED
    BY <2>1, <2>4 DEF DownInv
<1> QED
  BY <1>7, <1>8, <1>9, <1>10, <1>11, DownloadsKeepNoFileNext DEF DataInv, UpInv

\* The mask ROM's memory, to or from the file.
LEMMA DataRomMoves ==
  ASSUME IInv, DataInv, RomMoves
  PROVE  DataInv'
<1>1. /\ host.pc = "rom" /\ UNCHANGED <<box, disk, pipe>> /\ DOMAIN host = DOMAIN Off
      /\ host.verb \in {"rom read", "rom write"} /\ host.media = "mem"
  BY DEF RomMoves, At, IInv, TypeOK, Verbal
<1>2. Typed /\ Fresh /\ Ranged /\ Memory /\ Filed /\ (FileReads => Stored)
  BY DEF DataInv, UpInv, DownInv, Typed
<1>3. /\ host.off = 0 /\ host.count \in 1 .. Window /\ host.i \in Nat /\ host.i < host.count
      /\ host.i \in 0 .. Window - 1 /\ host.count \in Nat
  <2>1. /\ host.off = 0 /\ host.count \in 1 .. Window /\ host.i < host.count
        /\ host.i \in Nat /\ host.count \in Nat /\ Window \in Nat
    BY <1>1, <1>2, SizesArePositive DEF Ranged, Typed
  <2> QED
    BY <2>1
<1>4. /\ host'.verb = host.verb /\ host'.start = host.start /\ host'.count = host.count
      /\ host'.off = 0 /\ host'.i = host.i + 1 /\ host'.into = host.into
      /\ host'.media = host.media /\ host'.sectors = host.sectors /\ host'.port = host.port
      /\ \/ host'.pc = "rom" /\ host.i + 1 < host.count
         \/ host'.pc = "done" /\ host.i + 1 = host.count
  <2>1. /\ host'.verb = host.verb /\ host'.start = host.start /\ host'.count = host.count
        /\ host'.off = 0 /\ host'.i = host.i + 1 /\ host'.into = host.into
        /\ host'.media = host.media /\ host'.sectors = host.sectors /\ host'.port = host.port
    BY <1>1, <1>3 DEF RomMoves, Off
  <2>3. host'.pc = IF host.i + 1 < host.count THEN "rom" ELSE "done"
    BY <1>1 DEF RomMoves, Off
  <2>4. \/ host'.pc = "rom" /\ host.i + 1 < host.count
        \/ host'.pc = "done" /\ host.i + 1 = host.count
    BY <1>3, <2>3
  <2> QED
    BY <2>1, <2>4
<1>14. /\ host'.file \in {Append(host.file, stage[host.i]), host.file}
       /\ host.verb = "rom read" /\ FileTakes => host'.file = Append(host.file, stage[host.i])
       /\ host.verb # "rom read" => host'.file = host.file
  <2>1. \E file \in IF host.verb = "rom read" THEN Kept(stage[host.i]) ELSE {host.file} :
          host'.file = file
    BY <1>1 DEF RomMoves, Off
  <2> QED
    BY <2>1 DEF Kept
<1>5. stage \in [0 .. Window - 1 -> Chunk] /\ stage[host.i] \in Chunk
  BY <1>2, <1>3 DEF Memory
<1>6. Memory'
  BY <1>1, <1>2, <1>3, MemoryPut, WhatChunksAre DEF RomMoves
<1>7. host'.file \in Seq(Chunk)
  <2>1. host.file \in Seq(Chunk)
    BY <1>2 DEF Typed
  <2>2. Append(host.file, stage[host.i]) \in Seq(Chunk)
    BY <1>5, <2>1, FileGrows
  <2> QED
    BY <1>14, <2>1, <2>2
<1>8. Typed'
  <2>1. {host'.start, host'.off, host'.i, host'.count} \subseteq Nat
    <3>1. host.start \in Nat /\ host'.off \in Nat /\ host'.i \in Nat
      BY <1>2, <1>3, <1>4 DEF Typed
    <3> QED
      BY <1>3, <1>4, <3>1
  <2>2. host'.sectors \in Int /\ host'.port \in Port
        /\ host'.into \in {"dev", "print", "back", "count", "file"} /\ host'.pc # "bulk"
    BY <1>2, <1>4 DEF Typed
  <2> QED
    BY <1>6, <1>7, <2>1, <2>2 DEF Typed
<1>9. ~ Moving'
  BY <1>4 DEF Moving
<1>10. Fresh'
  BY <1>1, <1>2, <1>4, <1>14 DEF Fresh, Files, Uploads
<1>11. Ranged'
  BY <1>1, <1>3, <1>4, <1>9 DEF Ranged, IsRomVerb
<1>12. CASE host.verb = "rom read" /\ FileTakes
  <2>1. stage' = stage /\ host.verb \in Uploads \cap Files
    BY <1>12 DEF RomMoves, Uploads, Files
  <2>2. /\ host.file \in Seq(Chunk) /\ Len(host.file) = host.i
        /\ \A k \in 1 .. Len(host.file) : host.file[k] = stage[k - 1]
    <3>1. \A k : OnTheBox(k) = stage[k]
      BY <1>1, <1>12, OnTheBoxIs
    <3> QED
      BY <1>1, <1>2, <2>1, <3>1 DEF Filed, Typed
  <2>3. /\ Len(host'.file) = host.i + 1
        /\ \A k \in 1 .. Len(host'.file) : host'.file[k] = stage[k - 1]
    <3>1. /\ Len(Append(host.file, stage[host.i])) = Len(host.file) + 1
          /\ \A k \in 1 .. Len(host.file) : Append(host.file, stage[host.i])[k] = host.file[k]
          /\ Append(host.file, stage[host.i])[Len(host.file) + 1] = stage[host.i]
      BY <1>5, <2>2, FileGrows
    <3>2. ASSUME NEW k \in 1 .. host.i + 1
          PROVE  Append(host.file, stage[host.i])[k] = stage[k - 1]
      <4>1. CASE k = host.i + 1
        <5>1. k - 1 = host.i
          BY <1>3, <4>1
        <5> QED
          BY <2>2, <3>1, <4>1, <5>1
      <4>2. CASE k # host.i + 1
        <5>1. k \in 1 .. Len(host.file)
          BY <1>3, <2>2, <4>2
        <5> QED
          BY <2>2, <3>1, <5>1
      <4> QED
        BY <4>1, <4>2
    <3>3. host'.file = Append(host.file, stage[host.i])
      BY <1>14, <1>12
    <3> QED
      BY <2>2, <3>1, <3>2, <3>3
  <2>4. \A k : OnTheBox(k)' = stage[k]
    BY <1>1, <1>4, <1>12, <2>1 DEF OnTheBox
  <2>5. host'.pc = "done" => ToMove' = host.count
    BY <1>4, <1>12 DEF ToMove
  <2>6. Filed'
    BY <1>3, <1>4, <1>9, <2>3, <2>4, <2>5 DEF Filed
  <2>7. Fetched' /\ DownInv'
    BY <1>4, <1>9, <2>1, FilesStoreNothingNext DEF Fetched
  <2> QED
    BY <1>8, <1>10, <1>11, <2>6, <2>7 DEF DataInv, UpInv
<1>15. CASE host.verb = "rom read" /\ ~ FileTakes
  <2>1. host'.verb \notin Uploads /\ host'.verb \in Files
    BY <1>4, <1>15 DEF Uploads, Files
  <2>2. Filed' /\ Fetched' /\ DownInv'
    BY <1>4, <1>9, <2>1, FilesStoreNothingNext, DownloadsKeepNoFileNext
  <2> QED
    BY <1>8, <1>10, <1>11, <2>2 DEF DataInv, UpInv
<1>13. CASE host.verb = "rom write"
  <2>1. stage' = [stage EXCEPT ![host.i] = Image(host.i)] /\ host.verb \notin Uploads
    BY <1>13 DEF RomMoves, Uploads
  <2>2. FileReads => DownInv'
    <3> SUFFICES ASSUME FileReads PROVE DownInv'
      OBVIOUS
    <3>1. \A j \in 0 .. host.i - 1 : stage[j] = Image(j)
      BY <1>1, <1>2, <1>13 DEF Stored
    <3>2. ASSUME NEW j \in 0 .. host.i PROVE stage'[j] = Image(j)
      <4>1. CASE j = host.i
        BY <1>3, <1>5, <2>1, <4>1
      <4>2. CASE j # host.i
        <5>1. j \in 0 .. host.i - 1 /\ j \in 0 .. Window - 1
          BY <1>3, <4>2, SizesArePositive
        <5> QED
          BY <1>5, <2>1, <3>1, <4>2, <5>1
      <4> QED
        BY <4>1, <4>2
    <3>3. \A j \in 0 .. (IF host'.pc = "rom" THEN host'.i ELSE host'.count) - 1 : stage'[j] = Image(j)
      <4>1. (IF host'.pc = "rom" THEN host'.i ELSE host'.count) - 1 = host.i
        <5>1. (IF host'.pc = "rom" THEN host'.i ELSE host'.count) = host.i + 1
          BY <1>4
        <5> QED
          BY <1>3, <5>1
      <4> QED
        BY <3>2, <4>1
    <3>4. Stored'
      BY <1>4, <1>13, <3>3 DEF Stored
    <3>5. Arrived' /\ Staged'
      BY <1>4 DEF Arrived, Staged
    <3> QED
      BY <3>4, <3>5 DEF DownInv
  <2> QED
    BY <1>4, <1>8, <1>9, <1>10, <1>11, <2>1, <2>2, DownloadsKeepNoFileNext DEF DataInv, UpInv
<1> QED
  BY <1>1, <1>12, <1>13, <1>15

LEMMA NextData == IInv /\ DataInv /\ [Next]_vars => DataInv'
<1> SUFFICES ASSUME IInv, DataInv, [Next]_vars PROVE DataInv'
  OBVIOUS
<1>1. CASE Header \/ Bulk
  BY <1>1, DataHeader, DataHeaderOfSize, DataBulk, DataBulkOfSize
<1> QED
  BY <1>1, DataStops, DataFails, DataAsked, DataIdentify, DataLift, DataAskSize,
     DataSizeRefused, DataProbe, DataPassed, DataReadWindow, DataArmUpload, DataEmptyHeader,
     DataArmDownload, DataSend, DataVerdict, DataWriteWindow, DataRomMoves DEF Next

LEMMA InitData == Init => DataInv
<1> SUFFICES ASSUME Init PROVE DataInv
  OBVIOUS
<1>1. stage \in [0 .. Window - 1 -> Chunk]
  BY WhatChunksAre DEF Init
<1>2. DOMAIN disk = Port /\ \A d \in Port : disk[d] \in [0 .. box.sectors[d] - 1 -> Chunk]
  <2>1. ASSUME NEW d \in Port, NEW s \in 0 .. box.sectors[d] - 1 PROVE Own(d, s) \in Chunk
    <3>1. s \in Nat
      BY LayoutsAreBoxes DEF Init
    <3> QED
      BY <3>1, WhatChunksAre
  <2> QED
    BY <2>1 DEF Init
<1>3. Memory /\ host = Off
  BY <1>1, <1>2 DEF Init, Memory
<1> QED
  BY <1>3, OffIsData

LEMMA AlwaysData == Spec => []DataInv
<1>1. Init /\ [][Next]_vars => []DataInv
  BY InitData, NextData, Always, PTL DEF Spec
<1> QED
  BY <1>1, PTL DEF Spec

\* cmd_backup, cmd_read and cmd_rom (amlcmd.c:460): whatever was cut short or failed
\* before, whatever the disk answers of itself and wherever in it a backup starts, a
\* backup or a read that ends well leaves in the file what the box has, sector for
\* sector; so does a rom read, if the file takes all it is given.
THEOREM FileIsWhatTheBoxHas == Spec => []FileIsSource
<1>1. DataInv => FileIsSource
  <2> SUFFICES ASSUME DataInv, host.pc = "done", host.verb \in Uploads
               PROVE  /\ Len(host.file) = ToMove
                      /\ \A j \in 0 .. ToMove - 1 : host.file[j + 1] = OnTheBox(j)
    BY DEF FileIsSource, At, Uploads
  <2>1. /\ \A k \in 1 .. Len(host.file) : host.file[k] = OnTheBox(k - 1)
        /\ Len(host.file) = ToMove
    BY DEF DataInv, UpInv, Filed
  <2>2. Len(host.file) \in Nat
    BY LenProperties DEF DataInv, UpInv, Typed
  <2>3. ASSUME NEW j \in 0 .. ToMove - 1 PROVE host.file[j + 1] = OnTheBox(j)
    <3>1. j + 1 \in 1 .. Len(host.file) /\ j + 1 - 1 = j
      BY <2>1, <2>2
    <3>2. host.file[j + 1] = OnTheBox(j + 1 - 1)
      BY <2>1, <3>1
    <3> QED
      BY <3>1, <3>2
  <2> QED
    BY <2>1, <2>3
<1> QED
  BY <1>1, AlwaysData, PTL

\* cmd_restore, cmd_write and cmd_rom (amlcmd.c:497): a verb that ends well has put
\* each of the file's sectors in its place, through as many windows as it took, if the
\* file could be read to its end.
THEOREM TheBoxHasTheFile == ASSUME FileReads PROVE Spec => []TargetIsFile
<1>1. IInv /\ DataInv => TargetIsFile
  <2> SUFFICES ASSUME IInv, DataInv, host.pc = "done",
                      host.verb \in {"restore", "write", "rom write"},
                      NEW j \in 0 .. host.count - 1
               PROVE  OnTheBox(j) = Image(j)
    BY DEF TargetIsFile, At
  <2>1. Stored
    BY DEF DataInv, DownInv
  <2>2. CASE host.verb = "restore"
    BY <2>1, <2>2, OnTheBoxIs DEF Stored
  <2>3. CASE host.verb = "write"
    <3>1. Placed(j, Image(j))
      BY <2>1, <2>3 DEF Stored
    <3> QED
      BY <2>3, <3>1, OnTheBoxIs DEF Placed
  <2>4. CASE host.verb = "rom write"
    <3>1. host.media # "store"
      BY <2>4 DEF IInv, Verbal
    <3>2. stage[j] = Image(j)
      BY <2>1, <2>4 DEF Stored
    <3> QED
      BY <2>4, <3>1, <3>2, OnTheBoxIs
  <2> QED
    BY <2>2, <2>3, <2>4
<1> QED
  BY <1>1, Always, AlwaysData, PTL

\* A window that goes to the disk, whole or torn, puts the image's sectors in place.
LEMMA WindowInPlace ==
  ASSUME IInv, DataInv, FileReads, host.pc = "write",
         NEW some \in SUBSET (0 .. Chunks - 1), disk' = Written(some),
         NEW d \in Port, NEW s \in DOMAIN disk[d], disk'[d][s] # disk[d][s]
  PROVE  /\ host.verb = "restore"
         /\ s - host.start \in host.off .. host.off + Window - 1
         /\ disk'[d][s] = Image(s - host.start)
<1>1. /\ Typed /\ Ranged /\ Staged /\ host.verb = "restore"
  BY DEF DataInv, UpInv, DownInv, IInv, Verbal
<1>2. /\ Chunks \in Nat /\ Chunks <= Window /\ Window \in Nat
      /\ host.off \in Nat /\ host.start \in Nat
  BY <1>1, WindowFits, SizesArePositive DEF Typed
<1>3. some \in SUBSET (0 .. Window - 1)
  BY <1>2
<1>4. s \in 0 .. box.sectors[d] - 1
  BY <1>1 DEF Typed, Memory
<1>5. disk'[d][s] = IF d = host.port /\ s - Target(0) \in some THEN stage[s - Target(0)]
                    ELSE disk[d][s]
  <2>1. Written(some)[d][s] = IF d = host.port /\ s - Target(0) \in some THEN stage[s - Target(0)]
                              ELSE disk[d][s]
    BY <1>1, <1>3, <1>4, WrittenIs
  <2> QED
    BY <2>1
<1>6. s - Target(0) \in 0 .. Chunks - 1 /\ disk'[d][s] = stage[s - Target(0)]
  BY <1>5
<1>7. /\ s - host.start \in host.off .. host.off + Window - 1
      /\ host.off + (s - Target(0)) = s - host.start
  BY <1>2, <1>4, <1>6 DEF Target
<1>8. stage[s - Target(0)] = Image(host.off + (s - Target(0)))
  BY <1>1, <1>6 DEF Staged
<1> QED
  BY <1>1, <1>6, <1>7, <1>8

\* cmd_restore's windows (amlcmd.c:499) and download's chunks: a restore or a write,
\* cut short at any point of any window, has changed no sector but to what the file has
\* for it.
THEOREM WindowsInOrder == ASSUME FileReads PROVE Spec => WritesImageInOrder
<1> DEFINE InOrder ==
      \A d \in Port : \A s \in DOMAIN disk[d] : disk'[d][s] # disk[d][s] =>
        \/ /\ host.verb = "restore"
           /\ s - host.start \in host.off .. host.off + Window - 1
           /\ disk'[d][s] = Image(s - host.start)
        \/ /\ host.verb = "write" /\ host.media = "store"
           /\ s - PartFirst = host.i
           /\ disk'[d][s] = Image(host.i)
<1>1. IInv /\ DataInv /\ [Next]_vars => [InOrder]_vars
  <2> SUFFICES ASSUME IInv, DataInv, Next PROVE InOrder
    BY DEF vars, onBox
  <2>1. CASE disk' = disk
    BY <2>1
  <2>2. ASSUME host.pc = "write", NEW some \in SUBSET (0 .. Chunks - 1), disk' = Written(some)
        PROVE  InOrder
    BY <2>2, WindowInPlace
  <2>3. CASE Send
    <3>1. host.pc = "send" /\ Typed /\ Ranged /\ Memory /\ box.emmc \in Port
      BY <2>3, EmmcSize DEF Send, At, DataInv, UpInv, Typed
    <3>2. PICK good \in BOOLEAN, sent \in Buffered(host.i) :
            IF host.media = "store"
            THEN /\ good => MayStore(host.i)
                 /\ disk' = IF good THEN [disk EXCEPT ![box.emmc][PartFirst + host.i] = sent]
                            ELSE disk
                 /\ UNCHANGED stage
            ELSE /\ stage' = [stage EXCEPT ![host.i] = IF good THEN sent ELSE Junk]
                 /\ UNCHANGED disk
      BY <2>3 DEF Send
    <3>3. CASE host.media = "store" /\ disk' = [disk EXCEPT ![box.emmc][PartFirst + host.i] = sent]
      <4>1. host.verb = "write"
        BY <3>1, <3>3 DEF IInv, Verbal, Ranged
      <4>2. host.off = 0 /\ host.i \in Nat /\ host.off + host.i = host.i
        BY <3>1, <4>1 DEF Ranged, Typed
      <4>3. sent \in Chunk /\ sent = Image(host.i)
        BY <4>1, <4>2, SentIs
      <4>4. ASSUME NEW d \in Port, NEW s \in DOMAIN disk[d], disk'[d][s] # disk[d][s]
            PROVE  s - PartFirst = host.i /\ disk'[d][s] = Image(host.i)
        <5>1. s \in 0 .. box.sectors[d] - 1
          BY <3>1 DEF Memory
        <5>2. s = PartFirst + host.i /\ disk'[d][s] = sent
          BY <3>1, <3>3, <4>3, <4>4, <5>1, DiskPut
        <5> QED
          BY <4>2, <4>3, <5>2, FirstIsASector
      <4> QED
        BY <3>3, <4>1, <4>4
    <3> QED
      BY <2>1, <3>2, <3>3
  <2>4. CASE WriteWindow
    BY <2>2, <2>4 DEF WriteWindow, At
  <2>5. CASE CommandFails \/ PowerLoss
    <3>1. \/ disk' = disk
          \/ host.pc = "write" /\ Torn
      BY <2>5 DEF CommandFails, PowerLoss, At, Torn
    <3>2. ASSUME host.pc = "write", Torn PROVE InOrder
      <4>1. PICK some \in SUBSET {j \in 0 .. Chunks - 1 : May(host.port, Target(j))} :
               disk' = Written(some)
        BY <3>2 DEF Torn
      <4> QED
        BY <2>2, <3>2, <4>1
    <3> QED
      BY <2>1, <3>1, <3>2
  <2>6. CASE Asked \/ NoBox \/ Identify \/ Lift \/ AskSize \/ SizeRefused \/ Probe
    BY <2>1, <2>6 DEF Asked, Begin, Connect, NoBox, Identify, Lift, AskSize, SizeRefused, Probe
  <2>7. CASE ReadWindow \/ ArmUpload \/ Header \/ EmptyHeader \/ Bulk \/ ArmDownload \/ Verdict
    BY <2>1, <2>7 DEF ReadWindow, ArmUpload, Header, EmptyHeader, Bulk, ArmDownload, Verdict
  <2>8. CASE RomMoves \/ RomRuns \/ Passed \/ TransferFails \/ FileFails \/ Kill
             \/ Drain \/ Waits \/ Abandons \/ End
    BY <2>1, <2>8 DEF RomMoves, RomRuns, Passed, TransferFails, FileFails, Kill,
                      Drain, Waits, Abandons, End
  <2> QED
    BY <2>3, <2>4, <2>5, <2>6, <2>7, <2>8 DEF Next
<1> HIDE DEF InOrder
<1>2. Spec => [][InOrder]_vars
  BY <1>1, Always, AlwaysData, PTL DEF Spec
<1> QED
  BY <1>2 DEF InOrder, WritesImageInOrder
=============================================================================
