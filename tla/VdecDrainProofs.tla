--------------------------- MODULE VdecDrainProofs ---------------------------
(***************************************************************************)
(* Of VdecDrain, for any number of buffers, inputs, STOPs and seeks: nothing*)
(* of the drain outlives the session; and, where a client does not restart  *)
(* the stream in the middle of its drain and the decoder decodes within the *)
(* drain's wait, a STOP brings one LAST at most, and brings it last.        *)
(***************************************************************************)
EXTENDS VdecDrain, FiniteSetTheorems, SequenceTheorems, TLAPS

Place == {"no", "check", "eos", "idle", "last", "mark", "drained", "refused"}

TypeOK ==
  /\ client \in {"playing", "stopped", "ended", "seeking", "closing", "released", "closed"}
  /\ src \in Seq(Input) /\ fifo \in Seq(Input) /\ eos \in BOOLEAN
  /\ queued \in Nat /\ done \in Seq({"picture", "last"})
  /\ job \in {"idle", "running", "completing"} /\ trans \in BOOLEAN
  /\ feedDue \in BOOLEAN /\ feedAt \in {"rest", "lock", "finish", "complete", "drain"}
  /\ drainDue \in BOOLEAN /\ drainAt \in [Task -> Place]
  /\ draining \in BOOLEAN /\ should_stop \in BOOLEAN
  /\ last_pending \in BOOLEAN /\ has_stopped \in BOOLEAN
  /\ esparser_queued_bufs \in Nat /\ stops \in Nat /\ lasts \in Nat

\* esparser_queued_bufs counts what was parsed with a picture, and more.
Counted == Pictures(fifo) <= esparser_queued_bufs

-----------------------------------------------------------------------------
(* The job and its completion, whatever the client does.                    *)

\* The m2m core holds the job from its start to the end of its completion, or of the
\* abort that the client waits for; never both.
JobIsHeld ==
  /\ job # "idle" => trans
  /\ feedAt = "complete" => job = "completing"
  /\ feedAt = "drain" => trans /\ job = "idle"
  /\ drainAt["feed"] # "no" => feedAt = "drain"
  /\ Blocked => /\ trans /\ job = "idle" /\ feedAt \notin {"complete", "drain"}
                /\ client \in {"seeking", "closing"}

\* A session being closed has no drain of the worker, one released no job.
Closing ==
  /\ client \in {"closing", "released", "closed"} => ~ drainDue /\ drainAt["drain"] = "no"
  /\ client \in {"released", "closed"} => ~ trans
  /\ client = "closed" => feedAt = "rest" /\ ~ feedDue

JobInv == TypeOK /\ Counted /\ JobIsHeld /\ Closing

-----------------------------------------------------------------------------
(* The drain, of a client that lets it end.                                 *)

\* A task that took the drain on, up to and after its LAST.
Before == {"eos", "idle", "last"}
After == {"mark", "drained"}

NoPicture(some) == \A i \in DOMAIN some : some[i] # "picture"

\* No picture will come out: nobody returns a buffer once the session is closed.
Stuck == queued = 0 /\ client \in {"closing", "released", "closed"}

\* Nothing of a drain is left while the client queues input or seeks.
Restarted ==
  /\ client \in {"playing", "seeking"} =>
       ~ draining /\ ~ drainDue /\ \A t \in Task : drainAt[t] \notin Before \cup After
  /\ client = "playing" => ~ should_stop /\ ~ last_pending /\ ~ eos

\* Whoever took the drain on has told the parser to stop, and then the decoder.
Stopping ==
  /\ draining => ~ should_stop
  /\ \A t \in Task :
       /\ drainAt[t] \in Before \cup After => should_stop
       /\ drainAt[t] \in {"idle", "last"} \cup After => eos
  /\ last_pending => should_stop
  /\ should_stop => src = <<>>

\* Once the LAST is out, waits for a buffer, or is about to be given, there is no
\* picture to decode.
Over ==
  has_stopped \/ last_pending \/ (\E t \in Task : drainAt[t] \in {"last"} \cup After)
  => NoPicture(fifo) \/ Stuck

\* A stream that stops has yet to give its LAST, or gave it.
Giving ==
  should_stop /\ ~ has_stopped => last_pending \/ \E t \in Task : drainAt[t] \in Before

\* has_stopped left over by a seek without START keeps the stream from being parsed.
Stale ==
  has_stopped /\ ~ should_stop =>
    /\ job = "idle" /\ esparser_queued_bufs = 0
    /\ draining => src # <<>> \/ client \in {"released", "closed"}
    /\ client # "ended" /\ \A i \in DOMAIN done : done[i] # "last"

\* A LAST is still to come of the STOP.
Owing ==
  draining \/ last_pending \/ (~ has_stopped /\ \E t \in Task : drainAt[t] \in Before)

Lasts == lasts <= stops /\ (Owing => lasts < stops)

DrainParts == Restarted /\ Stopping /\ Over /\ Giving /\ Stale /\ Lasts

DrainInv == JobInv /\ DrainParts

-----------------------------------------------------------------------------
(* Pictures in a sequence of inputs.                                       *)

LEMMA PicturesAreSome ==
  ASSUME NEW s \in Seq(Input)
  PROVE  /\ IsFiniteSet({i \in DOMAIN s : s[i] = "picture"})
         /\ Pictures(s) \in Nat
         /\ Pictures(s) = 0 <=> NoPicture(s)
<1> DEFINE P == {i \in DOMAIN s : s[i] = "picture"}
<1>1. DOMAIN s = 1..Len(s) /\ Len(s) \in Nat
  BY LenProperties
<1>2. IsFiniteSet(1..Len(s))
  BY <1>1, FS_Interval, SMT
<1>3. IsFiniteSet(P)
  BY <1>1, <1>2, FS_Subset
<1>4. Cardinality(P) \in Nat /\ (Cardinality(P) = 0 <=> P = {})
  BY <1>3, FS_CardinalityType, FS_EmptySet
<1>5. P = {} <=> NoPicture(s)
  BY DEF NoPicture
<1> QED
  BY <1>3, <1>4, <1>5 DEF Pictures

LEMMA PicturesAppended ==
  ASSUME NEW s \in Seq(Input), NEW e \in Input
  PROVE  Append(s, e) \in Seq(Input) /\ Pictures(Append(s, e)) <= Pictures(s) + 1
<1> DEFINE P == {i \in DOMAIN s : s[i] = "picture"}
           Q == {i \in DOMAIN Append(s, e) : Append(s, e)[i] = "picture"}
           n == Len(s) + 1
<1>1. /\ Append(s, e) \in Seq(Input) /\ Len(Append(s, e)) = n /\ Len(s) \in Nat
      /\ \A i \in 1..Len(s) : Append(s, e)[i] = s[i]
  BY AppendProperties
<1>2. DOMAIN s = 1..Len(s) /\ DOMAIN Append(s, e) = 1..n
  BY <1>1, LenProperties
<1>3. Q \subseteq P \cup {n}
  BY <1>1, <1>2
<1>4. IsFiniteSet(P) /\ Cardinality(P) \in Nat
  BY PicturesAreSome DEF Pictures
<1>5. Pictures(s) = Cardinality(P) /\ Pictures(Append(s, e)) = Cardinality(Q)
  BY DEF Pictures
<1>6. Cardinality(Q) \in Nat
  BY <1>1, <1>5, PicturesAreSome
<1> HIDE DEF P, Q
<1>7. /\ IsFiniteSet(P \cup {n})
      /\ Cardinality(P \cup {n}) = IF n \in P THEN Cardinality(P) ELSE Cardinality(P) + 1
  BY <1>4, FS_AddElement
<1>8. Cardinality(Q) <= Cardinality(P \cup {n})
  BY <1>3, <1>7, FS_Subset
<1> QED
  BY <1>1, <1>4, <1>5, <1>6, <1>7, <1>8

LEMMA PicturesTaken ==
  ASSUME NEW s \in Seq(Input), s # <<>>
  PROVE  /\ Tail(s) \in Seq(Input) /\ Head(s) \in Input
         /\ Pictures(Tail(s)) <= Pictures(s)
         /\ Head(s) = "picture" => Pictures(Tail(s)) + 1 <= Pictures(s)
<1> DEFINE P == {i \in DOMAIN s : s[i] = "picture"}
           Q == {i \in DOMAIN Tail(s) : Tail(s)[i] = "picture"}
           f == [i \in Q |-> i + 1]
<1>1. /\ Tail(s) \in Seq(Input) /\ Head(s) \in Input /\ Len(Tail(s)) = Len(s) - 1
      /\ \A i \in 1..Len(Tail(s)) : Tail(s)[i] = s[i + 1]
  BY HeadTailProperties
<1>2. DOMAIN s = 1..Len(s) /\ DOMAIN Tail(s) = 1..(Len(s) - 1) /\ Len(s) \in Nat
  BY <1>1, LenProperties
<1>3. IsFiniteSet(P) /\ Cardinality(P) \in Nat /\ IsFiniteSet(Q) /\ Cardinality(Q) \in Nat
  BY <1>1, PicturesAreSome DEF Pictures
<1>4. \A i \in Q : i + 1 \in P \ {1}
  BY <1>1, <1>2
<1>5. f \in Injection(Q, P \ {1})
  <2>1. f \in [Q -> P \ {1}]
    BY <1>4
  <2>2. \A a, b \in Q : f[a] = f[b] => a = b
    BY <1>2
  <2> QED
    BY <2>1, <2>2 DEF Injection, IsInjective
<1>6. IsFiniteSet(P \ {1}) /\ Cardinality(P \ {1}) = IF 1 \in P THEN Cardinality(P) - 1
                                                    ELSE Cardinality(P)
  BY <1>3, FS_RemoveElement
<1> HIDE DEF f
<1>7. Cardinality(Q) <= Cardinality(P \ {1})
  BY <1>3, <1>5, <1>6, FS_Injection
<1>8. Head(s) = "picture" => 1 \in P
  BY <1>1, <1>2
<1>9. Pictures(s) = Cardinality(P) /\ Pictures(Tail(s)) = Cardinality(Q)
  BY DEF Pictures
<1> HIDE DEF P, Q
<1> QED
  BY <1>1, <1>3, <1>6, <1>7, <1>8, <1>9

-----------------------------------------------------------------------------
(* The job: types, then who holds it, one step for each action.             *)

USE DEF input, capture, m2m, feeding, drain, flags, bounds, tally

\* What the m2m core's look may change.
LEMMA Scheduled ==
  ASSUME TypeOK, NEW held \in BOOLEAN, NEW waiting, NEW stopped,
         TrySchedule(held, waiting, stopped)
  PROVE  \/ trans' = held /\ job' = job /\ feedDue' = feedDue
         \/ /\ ~ held /\ waiting # <<>> /\ ~ stopped
            /\ client \in {"playing", "stopped", "ended"}
            /\ trans' = TRUE /\ job' = "running" /\ feedDue' = TRUE
BY DEF TrySchedule, TypeOK

\* What giving a LAST may change.
LEMMA Gives ==
  ASSUME TypeOK, NEW free \in Nat, NEW some \in Seq({"picture", "last"}),
         GiveLast(free), done' = WithLast(free, some)
  PROVE  /\ queued' \in Nat /\ last_pending' \in BOOLEAN /\ has_stopped' \in BOOLEAN
         /\ lasts' \in Nat /\ done' \in Seq({"picture", "last"})
         /\ \/ /\ free = 0 /\ queued' = 0 /\ last_pending' /\ has_stopped' = has_stopped
               /\ lasts' = lasts
            \/ ~ last_pending' /\ has_stopped' /\ lasts' = lasts + 1
<1>1. Append(some, "last") \in Seq({"picture", "last"})
  OBVIOUS
<1>2. done' \in Seq({"picture", "last"})
  BY <1>1 DEF WithLast
<1>3. CASE free = 0
  <2>1. queued' = 0 /\ last_pending' = TRUE /\ has_stopped' = has_stopped /\ lasts' = lasts
    BY <1>3 DEF GiveLast
  <2> QED
    BY <1>2, <1>3, <2>1 DEF TypeOK
<1>4. CASE free # 0
  <2>1. /\ queued' = free - 1 /\ last_pending' = FALSE /\ has_stopped' = TRUE
        /\ lasts' = lasts + 1
    BY <1>4 DEF GiveLast
  <2>2. free - 1 \in Nat /\ lasts + 1 \in Nat
    BY <1>4 DEF TypeOK
  <2> QED
    BY <1>2, <2>1, <2>2
<1> QED
  BY <1>3, <1>4

\* Where a drain moves a task.
LEMMA Moved ==
  ASSUME TypeOK, NEW t \in Task, NEW from \in Place, NEW to \in Place, Moves(t, from, to)
  PROVE  /\ drainAt' \in [Task -> Place]
         /\ drainAt[t] = from /\ drainAt'[t] = to
         /\ \A u \in Task : u # t => drainAt'[u] = drainAt[u]
BY DEF TypeOK, Moves

LEMMA FeedTypes ==
  ASSUME JobInv, FeedBegin \/ FeedOne \/ FeedYield \/ FeedComplete \/ JobFinish
  PROVE  TypeOK' /\ Counted'
<1> USE DEF JobInv, TypeOK, Counted
<1>1. CASE FeedBegin
  <2>1. /\ feedDue' \in BOOLEAN /\ feedAt' \in {"rest", "lock"}
        /\ UNCHANGED <<client, input, capture, m2m, drain, flags, tally>>
    BY <1>1 DEF FeedBegin
  <2> QED
    BY <2>1
<1>2. CASE FeedOne
  <2>1. feedAt' \in {"rest", "lock", "finish", "complete", "drain"}
    BY <1>2 DEF FeedOne
  <2>2. UNCHANGED <<client, eos, capture, m2m, feedDue, drain, flags, bounds, lasts>>
    BY <1>2 DEF FeedOne
  <2>3. CASE UNCHANGED <<src, fifo, esparser_queued_bufs>>
    BY <2>1, <2>2, <2>3
  <2>4. CASE /\ src # <<>> /\ src' = Tail(src) /\ fifo' = Append(fifo, Head(src))
             /\ esparser_queued_bufs' = esparser_queued_bufs + 1
    <3>1. /\ src' \in Seq(Input) /\ fifo' \in Seq(Input)
          /\ Pictures(fifo') <= Pictures(fifo) + 1
      BY <2>4, PicturesTaken, PicturesAppended
    <3>2. Pictures(fifo) \in Nat /\ Pictures(fifo') \in Nat
      BY <3>1, PicturesAreSome
    <3>3. Counted'
      BY <2>4, <3>1, <3>2
    <3> QED
      BY <2>1, <2>2, <2>4, <3>1, <3>3
  <2> QED
    BY <1>2, <2>3, <2>4 DEF FeedOne
<1>3. CASE FeedYield \/ FeedComplete
  BY <1>3 DEF FeedYield, FeedComplete, Task, Place
<1>4. CASE JobFinish
  <2>1. trans' \in BOOLEAN /\ job' \in {"idle", "running", "completing"} /\ feedDue' \in BOOLEAN
    BY <1>4, Scheduled DEF JobFinish
  <2> QED
    BY <1>4, <2>1 DEF JobFinish, Task, Place
<1> QED
  BY <1>1, <1>2, <1>3, <1>4

LEMMA DrainTypes ==
  ASSUME JobInv, DrainBegin \/ DrainEnd \/ AbortEnd \/ \E t \in Task : DrainStep(t)
  PROVE  TypeOK' /\ Counted'
<1> USE DEF JobInv, TypeOK, Counted
<1>1. CASE DrainBegin
  <2>1. "drain" \in Task /\ {"no", "check"} \subseteq Place
    BY DEF Task, Place
  <2>2. drainAt' \in [Task -> Place] /\ drainDue' \in BOOLEAN
    BY <1>1, <2>1, Moved DEF DrainBegin
  <2> QED
    BY <1>1, <2>2 DEF DrainBegin
<1>2. CASE DrainEnd
  <2>1. trans' \in BOOLEAN /\ job' \in {"idle", "running", "completing"} /\ feedDue' \in BOOLEAN
    BY <1>2, Scheduled DEF DrainEnd
  <2> QED
    BY <1>2, <2>1 DEF DrainEnd, Task, Place
<1>3. CASE AbortEnd
  <2>1. drainAt' \in [Task -> Place] /\ trans' \in BOOLEAN
    BY <1>3 DEF AbortEnd, Task, Place
  <2> QED
    BY <1>3, <2>1 DEF AbortEnd
<1>4. ASSUME NEW t \in Task, DrainCheck(t) \/ DrainEos(t) \/ DrainInactive(t) \/ DrainMark(t)
      PROVE  TypeOK' /\ Counted'
  <2>1. drainAt' \in [Task -> Place]
    BY <1>4, Moved DEF DrainCheck, DrainEos, DrainInactive, DrainMark, Place
  <2>2. /\ UNCHANGED <<client, src, fifo, capture, m2m, feeding, drainDue, last_pending, tally>>
        /\ eos' \in BOOLEAN /\ draining' \in BOOLEAN /\ should_stop' \in BOOLEAN
        /\ has_stopped' \in BOOLEAN
    BY <1>4 DEF DrainCheck, DrainEos, DrainInactive, DrainMark
  <2> QED
    BY <2>1, <2>2
<1>5. ASSUME NEW t \in Task, DrainLast(t)
      PROVE  TypeOK' /\ Counted'
  <2>1. /\ drainAt' \in [Task -> Place]
        /\ UNCHANGED <<client, input, m2m, feeding, drainDue, draining, should_stop,
                       esparser_queued_bufs, bounds>>
    BY <1>5 DEF DrainLast, Moves, Place
  <2>2. CASE has_stopped
    BY <1>5, <2>1, <2>2 DEF DrainLast
  <2>3. CASE ~ has_stopped
    BY <1>5, <2>1, <2>3, Gives DEF DrainLast
  <2> QED
    BY <2>2, <2>3
<1> QED
  BY <1>1, <1>2, <1>3, <1>4, <1>5 DEF DrainStep

LEMMA DecodeTypes ==
  ASSUME JobInv, Skip \/ PictureDone
  PROVE  TypeOK' /\ Counted'
<1> USE DEF JobInv, TypeOK, Counted
<1>1. fifo # <<>> /\ fifo' = Tail(fifo)
  BY DEF Skip, PictureDone, Decodable
<1>2. /\ fifo' \in Seq(Input) /\ Pictures(fifo') \in Nat /\ Pictures(fifo) \in Nat
      /\ Pictures(fifo') <= Pictures(fifo)
      /\ Head(fifo) = "picture" => Pictures(fifo') + 1 <= Pictures(fifo)
  BY <1>1, PicturesTaken, PicturesAreSome
<1>3. CASE Skip
  BY <1>2, <1>3 DEF Skip
<1>4. CASE PictureDone
  <2>1. /\ Head(fifo) = "picture" /\ queued - 1 \in Nat
        /\ Append(done, "picture") \in Seq({"picture", "last"})
        /\ esparser_queued_bufs' = esparser_queued_bufs - 1
        /\ UNCHANGED <<client, src, eos, m2m, feedAt, drain, draining, should_stop, bounds>>
        /\ feedDue' \in BOOLEAN
    BY <1>4 DEF PictureDone
  <2>2. esparser_queued_bufs' \in Nat /\ Pictures(fifo') <= esparser_queued_bufs'
    BY <1>2, <2>1
  <2>3. /\ queued' \in Nat /\ last_pending' \in BOOLEAN /\ has_stopped' \in BOOLEAN
        /\ lasts' \in Nat /\ done' \in Seq({"picture", "last"})
    <3>1. CASE should_stop /\ esparser_queued_bufs <= 1
      BY <1>4, <2>1, <3>1, Gives DEF PictureDone
    <3>2. CASE ~ (should_stop /\ esparser_queued_bufs <= 1)
      BY <1>4, <2>1, <3>2 DEF PictureDone
    <3> QED
      BY <3>1, <3>2
  <2> QED
    BY <1>2, <2>1, <2>2, <2>3
<1> QED
  BY <1>3, <1>4

LEMMA ClientTypes ==
  ASSUME JobInv,
         \/ \E i \in Input : QueueInput(i)
         \/ Take \/ Return \/ Stop \/ Start \/ SeekOff \/ SeekOn \/ Close \/ Release \/ Free
  PROVE  TypeOK' /\ Counted'
<1> USE DEF JobInv, TypeOK, Counted
<1>1. ASSUME NEW i \in Input, QueueInput(i) PROVE TypeOK' /\ Counted'
  <2>1. src' \in Seq(Input)
    BY <1>1 DEF QueueInput
  <2>2. trans' \in BOOLEAN /\ job' \in {"idle", "running", "completing"} /\ feedDue' \in BOOLEAN
    <3>1. CASE job = "running"
      BY <1>1, <3>1 DEF QueueInput
    <3>2. CASE job # "running"
      BY <1>1, <3>2, Scheduled DEF QueueInput
    <3> QED
      BY <3>1, <3>2
  <2> QED
    BY <1>1, <2>1, <2>2 DEF QueueInput
<1>2. CASE Take
  BY <1>2 DEF Take
<1>3. CASE Return
  <2>1. CASE last_pending
    BY <1>3, <2>1, Gives DEF Return
  <2>2. CASE ~ last_pending
    BY <1>3, <2>2 DEF Return
  <2> QED
    BY <2>1, <2>2
<1>4. CASE Stop
  <2>1. /\ eos' \in BOOLEAN /\ draining' \in BOOLEAN /\ drainDue' \in BOOLEAN
        /\ should_stop' \in BOOLEAN /\ has_stopped' \in BOOLEAN
    BY <1>4 DEF Stop
  <2>2. /\ client' = "stopped" /\ stops' = stops + 1
        /\ UNCHANGED <<src, fifo, capture, m2m, feeding, drainAt, last_pending,
                       esparser_queued_bufs, lasts>>
    BY <1>4 DEF Stop
  <2> QED
    BY <2>1, <2>2
<1>5. CASE Start
  BY <1>5 DEF Start
<1>6. CASE SeekOff \/ Close
  <2>1. /\ feedDue' \in BOOLEAN /\ job' \in {"idle", "running", "completing"}
        /\ drainAt' \in [Task -> Place]
    BY <1>6 DEF SeekOff, Close, Cancel, Task, Place
  <2>2. /\ client' \in {"seeking", "closing"} /\ drainDue' \in BOOLEAN
        /\ UNCHANGED <<input, capture, trans, feedAt, flags, esparser_queued_bufs, stops,
                       lasts>>
    BY <1>6 DEF SeekOff, Close
  <2> QED
    BY <2>1, <2>2
<1>7. <<>> \in Seq(Input) /\ Pictures(<<>>) = 0 /\ Buffers \in Nat
  <2>1. NoPicture(<<>>) /\ <<>> \in Seq(Input)
    BY DEF NoPicture
  <2> QED
    BY <2>1, PicturesAreSome, BoundsAreNumbers
<1>8. CASE SeekOn
  <2>1. /\ src' = <<>> /\ fifo' = <<>> /\ queued' = Buffers /\ done' = <<>>
        /\ esparser_queued_bufs' = 0 /\ client' = "playing"
        /\ UNCHANGED <<m2m, feeding, drain, bounds, lasts>>
    BY <1>8 DEF SeekOn
  <2>2. /\ eos' \in BOOLEAN /\ draining' \in BOOLEAN /\ should_stop' \in BOOLEAN
        /\ last_pending' \in BOOLEAN /\ has_stopped' \in BOOLEAN
    BY <1>8 DEF SeekOn
  <2>3. Counted'
    BY <1>7, <2>1
  <2> QED
    BY <1>7, <2>1, <2>2, <2>3
<1>9. CASE Release
  BY <1>7, <1>9 DEF Release
<1>10. CASE Free
  BY <1>10 DEF Free
<1> QED
  BY <1>1, <1>2, <1>3, <1>4, <1>5, <1>6, <1>8, <1>9, <1>10

\* A drain's steps leave the job, the client and who drains as they are.
LEMMA DrainStepMoves ==
  ASSUME TypeOK, NEW t \in Task, DrainStep(t)
  PROVE  /\ UNCHANGED <<client, m2m, feeding, drainDue>>
         /\ drainAt' \in [Task -> Place]
         /\ drainAt[t] # "no" /\ drainAt'[t] # "no"
         /\ \A u \in Task : u # t => drainAt'[u] = drainAt[u]
<1>1. CASE DrainCheck(t)
  BY <1>1, Moved DEF DrainCheck, Place
<1>2. CASE DrainEos(t)
  BY <1>2, Moved DEF DrainEos, Place
<1>3. CASE DrainInactive(t)
  BY <1>3, Moved DEF DrainInactive, Place
<1>4. CASE DrainLast(t)
  BY <1>4, Moved DEF DrainLast, Place
<1>5. CASE DrainMark(t)
  BY <1>5, Moved DEF DrainMark, Place
<1> QED
  BY <1>1, <1>2, <1>3, <1>4, <1>5 DEF DrainStep

LEMMA FeedHeld ==
  ASSUME JobInv, FeedBegin \/ FeedOne \/ FeedYield \/ FeedComplete \/ JobFinish
  PROVE  JobIsHeld' /\ Closing'
<1> USE DEF JobInv, JobIsHeld, Closing, Blocked
<1>1. CASE FeedBegin
  BY <1>1 DEF FeedBegin
<1>2. CASE FeedOne
  BY <1>2 DEF FeedOne
<1>3. CASE FeedYield
  BY <1>3 DEF FeedYield
<1>4. CASE FeedComplete
  BY <1>4 DEF FeedComplete, TypeOK, Task
<1>5. CASE JobFinish
  <2>1. /\ trans /\ job = "idle" /\ drainAt["client"] = "no"
        /\ client \notin {"released", "closed"}
    BY <1>5 DEF JobFinish
  <2>2. /\ drainAt'["feed"] = "no" /\ drainAt'["client"] = "no"
        /\ drainAt'["drain"] = drainAt["drain"] /\ feedAt' = "rest"
        /\ client' = client /\ drainDue' = drainDue
    BY <1>5, <2>1 DEF JobFinish, TypeOK, Task
  <2>3. job' # "idle" => trans'
    BY <1>5, <2>1, Scheduled DEF JobFinish
  <2>4. job' \in {"idle", "running"}
    BY <1>5, <2>1, Scheduled DEF JobFinish
  <2> QED
    BY <2>1, <2>2, <2>3, <2>4
<1> QED
  BY <1>1, <1>2, <1>3, <1>4, <1>5

LEMMA DrainHeld ==
  ASSUME JobInv, DrainBegin \/ DrainEnd \/ AbortEnd \/ \E t \in Task : DrainStep(t)
  PROVE  JobIsHeld' /\ Closing'
<1> USE DEF JobInv, JobIsHeld, Closing, Blocked
<1>1. CASE DrainBegin
  <2>1. "drain" \in Task /\ {"no", "check"} \subseteq Place
    BY DEF Task, Place
  <2>2. /\ drainAt'["feed"] = drainAt["feed"] /\ drainAt'["client"] = drainAt["client"]
        /\ drainDue /\ UNCHANGED <<client, m2m, feeding>>
    BY <1>1, <2>1, Moved DEF DrainBegin, Task
  <2> QED
    BY <2>2
<1>2. CASE DrainEnd
  <2>1. /\ drainAt'["feed"] = drainAt["feed"] /\ drainAt'["client"] = drainAt["client"]
        /\ drainAt["drain"] # "no" /\ UNCHANGED <<client, feedAt, drainDue>>
    BY <1>2 DEF DrainEnd, TypeOK, Task
  <2>2. client \notin {"closing", "released", "closed"}
    BY <2>1
  <2>3. CASE trans' = trans /\ job' = job /\ feedDue' = feedDue
    BY <2>1, <2>2, <2>3
  <2>4. CASE ~ trans /\ trans' = TRUE /\ job' = "running"
    BY <2>1, <2>2, <2>4
  <2> QED
    BY <1>2, <2>3, <2>4, Scheduled DEF DrainEnd, TypeOK
<1>3. CASE AbortEnd
  <2>1. /\ drainAt'["feed"] = drainAt["feed"] /\ drainAt'["client"] = "no"
        /\ drainAt'["drain"] = drainAt["drain"]
        /\ drainAt["client"] # "no" /\ trans' = FALSE
        /\ UNCHANGED <<client, job, feeding, drainDue>>
    BY <1>3 DEF AbortEnd, TypeOK, Task
  <2> QED
    BY <2>1
<1>4. ASSUME NEW t \in Task, DrainStep(t)
      PROVE  JobIsHeld' /\ Closing'
  <2>1. /\ UNCHANGED <<client, m2m, feeding, drainDue>>
        /\ \A u \in Task : drainAt'[u] # "no" => drainAt[u] # "no"
    BY <1>4, DrainStepMoves
  <2>2. {"feed", "drain", "client"} \subseteq Task
    BY DEF Task
  <2> QED
    BY <2>1, <2>2
<1> QED
  BY <1>1, <1>2, <1>3, <1>4

LEMMA DecodeHeld ==
  ASSUME JobInv, Skip \/ PictureDone
  PROVE  JobIsHeld' /\ Closing'
<1> USE DEF JobInv, JobIsHeld, Closing, Blocked
<1>1. /\ UNCHANGED <<client, m2m, feedAt, drain>>
      /\ feedDue' = feedDue \/ job = "running"
  BY DEF Skip, PictureDone, TypeOK
<1> QED
  BY <1>1

LEMMA ClientHeld ==
  ASSUME JobInv,
         \/ \E i \in Input : QueueInput(i)
         \/ Take \/ Return \/ Stop \/ Start \/ SeekOff \/ SeekOn \/ Close \/ Release \/ Free
  PROVE  JobIsHeld' /\ Closing'
<1> USE DEF JobInv, JobIsHeld, Closing, Blocked
<1>1. ASSUME NEW i \in Input, QueueInput(i) PROVE JobIsHeld' /\ Closing'
  <2>1. client = "playing" /\ UNCHANGED <<client, feedAt, drain>>
    BY <1>1 DEF QueueInput
  <2>2. CASE job' = job /\ trans' = trans
    BY <2>1, <2>2
  <2>3. CASE ~ trans /\ trans' = TRUE /\ job' = "running"
    BY <2>1, <2>3
  <2> QED
    BY <1>1, <2>2, <2>3, Scheduled DEF QueueInput, TypeOK
<1>2. CASE Take \/ Return \/ Stop \/ Start
  <2>1. UNCHANGED <<m2m, feedAt, drainAt>>
    BY <1>2 DEF Take, Return, Stop, Start
  <2>2. client \in {"playing", "stopped", "ended"} /\ client' \in {"playing", "stopped", "ended"}
    BY <1>2 DEF Take, Return, Stop, Start
  <2> QED
    BY <2>1, <2>2
<1>3. CASE SeekOff \/ Close
  <2>1. /\ client \in {"playing", "stopped", "ended"} /\ client' \in {"seeking", "closing"}
        /\ drainAt["client"] = "no" /\ UNCHANGED <<trans, feedAt>>
        /\ client' = "closing" => ~ drainDue' /\ drainAt["drain"] = "no"
    BY <1>3 DEF SeekOff, Close
  <2>2. CASE trans /\ job = "running"
    <3>1. /\ job' = "idle" /\ drainAt'["feed"] = drainAt["feed"]
          /\ drainAt'["drain"] = drainAt["drain"]
      BY <1>3, <2>2 DEF SeekOff, Close, Cancel, TypeOK, Task
    <3> QED
      BY <2>1, <2>2, <3>1
  <2>3. CASE ~ (trans /\ job = "running")
    BY <1>3, <2>1, <2>3 DEF SeekOff, Close, Cancel
  <2> QED
    BY <2>2, <2>3
<1>4. CASE SeekOn \/ Release
  <2>1. /\ ~ Blocked /\ ~ trans /\ UNCHANGED <<m2m, feeding, drain>>
        /\ \/ client = "closing" /\ client' = "released"
           \/ client = "seeking" /\ client' = "playing"
    BY <1>4 DEF SeekOn, Release
  <2> QED
    BY <2>1
<1>5. CASE Free
  BY <1>5 DEF Free
<1> QED
  BY <1>1, <1>2, <1>3, <1>4, <1>5

LEMMA JobInitially == Init => JobInv
<1> SUFFICES ASSUME Init PROVE JobInv
  OBVIOUS
<1>1. <<>> \in Seq(Input) /\ NoPicture(<<>>) /\ <<>> \in Seq({"picture", "last"})
  BY DEF NoPicture
<1>2. Pictures(<<>>) = 0
  BY <1>1, PicturesAreSome
<1>3. TypeOK
  BY <1>1, BoundsAreNumbers DEF Init, TypeOK, Place
<1>4. Counted
  BY <1>2 DEF Init, Counted
<1>5. JobIsHeld /\ Closing
  BY DEF Init, JobIsHeld, Closing, Blocked, Task
<1> QED
  BY <1>3, <1>4, <1>5 DEF JobInv

LEMMA JobStep == JobInv /\ [Next]_vars => JobInv'
<1> SUFFICES ASSUME JobInv, [Next]_vars PROVE JobInv'
  OBVIOUS
<1> USE DEF JobInv
<1>1. CASE FeedBegin \/ FeedOne \/ FeedYield \/ FeedComplete \/ JobFinish
  BY <1>1, FeedTypes, FeedHeld
<1>2. CASE DrainBegin \/ DrainEnd \/ AbortEnd \/ \E t \in Task : DrainStep(t)
  BY <1>2, DrainTypes, DrainHeld
<1>3. CASE Skip \/ PictureDone
  BY <1>3, DecodeTypes, DecodeHeld
<1>4. CASE \/ \E i \in Input : QueueInput(i)
           \/ Take \/ Return \/ Stop \/ Start \/ SeekOff \/ SeekOn \/ Close \/ Release \/ Free
  BY <1>4, ClientTypes, ClientHeld
<1>5. CASE UNCHANGED vars
  BY <1>5 DEF vars, TypeOK, Counted, JobIsHeld, Closing, Blocked
<1>6. {"feed", "drain", "client"} \subseteq Task
  BY DEF Task
<1> QED
  BY <1>1, <1>2, <1>3, <1>4, <1>5, <1>6 DEF Next, Feed, Drain, Abort, Decode

-----------------------------------------------------------------------------
(* The drain, one lemma for each group of actions.                          *)

LEMMA NoPictureTaken ==
  ASSUME NEW s \in Seq(Input), s # <<>>, NoPicture(s)
  PROVE  NoPicture(Tail(s))
<1>1. /\ Len(Tail(s)) = Len(s) - 1 /\ Tail(s) \in Seq(Input)
      /\ \A i \in 1..Len(Tail(s)) : Tail(s)[i] = s[i + 1]
  BY HeadTailProperties
<1>2. DOMAIN s = 1..Len(s) /\ DOMAIN Tail(s) = 1..(Len(s) - 1) /\ Len(s) \in Nat
  BY <1>1, LenProperties
<1> QED
  BY <1>1, <1>2 DEF NoPicture

\* A step that moves nobody into, or out of, a drain and touches no picture, and
\* starts no job of a stream marked stopped.
Quiet ==
  /\ UNCHANGED <<client, src, fifo, eos, capture, flags, esparser_queued_bufs, stops, lasts>>
  /\ drainDue' => drainDue
  /\ \A t \in Task : \/ drainAt'[t] = drainAt[t]
                     \/ drainAt[t] \notin Before /\ drainAt'[t] \notin Before \cup After
  /\ has_stopped /\ ~ should_stop => job' = "idle"

LEMMA QuietStep ==
  ASSUME DrainInv, Quiet
  PROVE  DrainParts'
<1> USE DEF DrainInv, DrainParts, Quiet
<1>1. \A t \in Task : drainAt'[t] \in Before \cup After => drainAt'[t] = drainAt[t]
  OBVIOUS
<1>2. \A t \in Task : drainAt[t] \in Before => drainAt'[t] = drainAt[t]
  OBVIOUS
<1>3. Restarted'
  BY <1>1 DEF Restarted
<1>4. Stopping'
  BY <1>1 DEF Stopping, Before, After
<1>5. Over'
  BY <1>1 DEF Over, Before, After, Stuck, NoPicture
<1>6. Giving'
  BY <1>2 DEF Giving
<1>7. Stale'
  BY DEF Stale
<1>8. Lasts'
  BY <1>1 DEF Lasts, Owing
<1> QED
  BY <1>3, <1>4, <1>5, <1>6, <1>7, <1>8

LEMMA FeedDrains ==
  ASSUME DrainInv, FeedBegin \/ FeedOne \/ FeedYield \/ FeedComplete \/ JobFinish
  PROVE  DrainParts'
<1>1. TypeOK /\ JobIsHeld /\ (has_stopped /\ ~ should_stop => job = "idle")
  BY DEF DrainInv, DrainParts, JobInv, Stale
<1>2. CASE \/ FeedBegin \/ FeedYield
           \/ FeedOne /\ UNCHANGED <<src, fifo, esparser_queued_bufs>>
  <2>1. /\ UNCHANGED <<client, src, fifo, eos, capture, drain, flags, esparser_queued_bufs,
                       stops, lasts>>
        /\ job = "idle" => job' = "idle"
    BY <1>2 DEF FeedBegin, FeedYield, FeedOne
  <2>2. Quiet
    BY <1>1, <2>1 DEF Quiet
  <2> QED
    BY <2>2, QuietStep
<1>3. CASE FeedOne /\ ~ UNCHANGED <<src, fifo, esparser_queued_bufs>>
  <2> USE DEF DrainInv, DrainParts
  <2>1. /\ job = "running" /\ ~ should_stop
        /\ UNCHANGED <<client, eos, capture, m2m, drain, flags, bounds, lasts>>
    BY <1>3 DEF FeedOne
  <2>2. ~ has_stopped /\ ~ last_pending
    BY <2>1 DEF Stale, Stopping
  <2>3. \A t \in Task : drainAt[t] \notin Before \cup After
    BY <2>1 DEF Stopping
  <2>4. Restarted' /\ Stopping'
    BY <2>1, <2>2, <2>3 DEF Restarted, Stopping, Before, After
  <2>5. Over' /\ Giving' /\ Stale'
    BY <2>1, <2>2, <2>3 DEF Over, Giving, Stale, Before, After
  <2>6. Lasts'
    BY <2>1 DEF Lasts, Owing
  <2> QED
    BY <2>4, <2>5, <2>6
<1>4. CASE FeedComplete
  <2>1. drainAt["feed"] = "no"
    BY <1>1, <1>4 DEF FeedComplete, JobIsHeld
  <2>2. \A t \in Task : drainAt'[t] = drainAt[t] \/ (drainAt[t] = "no" /\ drainAt'[t] = "check")
    BY <1>1, <1>4, <2>1 DEF FeedComplete, TypeOK
  <2>3. Quiet
    BY <1>4, <2>2 DEF Quiet, FeedComplete, Before, After
  <2> QED
    BY <2>3, QuietStep
<1>5. CASE JobFinish
  <2>1. \A t \in Task : \/ drainAt'[t] = drainAt[t]
                        \/ drainAt[t] \in {"drained", "refused"} /\ drainAt'[t] = "no"
    BY <1>1, <1>5 DEF JobFinish, TypeOK
  <2>2. has_stopped => job' = job
    BY <1>1, <1>5, Scheduled DEF JobFinish
  <2>3. Quiet
    BY <1>1, <1>5, <2>1, <2>2 DEF Quiet, JobFinish, Before, After
  <2> QED
    BY <2>3, QuietStep
<1> QED
  BY <1>2, <1>3, <1>4, <1>5

LEMMA WorkerDrains ==
  ASSUME DrainInv, DrainBegin \/ DrainEnd \/ AbortEnd
  PROVE  DrainParts'
<1>1. TypeOK /\ (has_stopped /\ ~ should_stop => job = "idle")
  BY DEF DrainInv, DrainParts, JobInv, Stale
<1>2. /\ UNCHANGED <<client, src, fifo, eos, capture, flags, esparser_queued_bufs, stops, lasts>>
      /\ drainDue' => drainDue
  BY <1>1 DEF DrainBegin, DrainEnd, AbortEnd, TypeOK
<1>3. \A t \in Task : \/ drainAt'[t] = drainAt[t]
                      \/ drainAt[t] = "no" /\ drainAt'[t] = "check"
                      \/ drainAt[t] \in {"drained", "refused"} /\ drainAt'[t] = "no"
  BY <1>1 DEF DrainBegin, Moves, DrainEnd, AbortEnd, TypeOK
<1>4. has_stopped => job' = job
  <2>1. CASE DrainBegin \/ AbortEnd
    BY <2>1 DEF DrainBegin, AbortEnd
  <2>2. CASE DrainEnd
    BY <1>1, <2>2, Scheduled DEF DrainEnd, TypeOK
  <2> QED
    BY <2>1, <2>2
<1>5. Quiet
  BY <1>1, <1>2, <1>3, <1>4 DEF Quiet, Before, After
<1> QED
  BY <1>5, QuietStep

LEMMA CheckDrains ==
  ASSUME DrainInv, NEW t \in Task, DrainCheck(t)
  PROVE  DrainParts'
<1>1. /\ TypeOK /\ JobIsHeld /\ Closing
      /\ Restarted /\ Stopping /\ Over /\ Giving /\ Stale /\ Lasts
  BY DEF DrainInv, DrainParts, JobInv
<1>2. CASE ~ MayDrain
  <2>1. \A u \in Task : \/ drainAt'[u] = drainAt[u]
                        \/ drainAt[u] = "check" /\ drainAt'[u] = "refused"
    BY <1>1, <1>2 DEF DrainCheck, Moves, TypeOK
  <2>2. Quiet
    BY <1>1, <1>2, <2>1 DEF Quiet, DrainCheck, Before, After, Stale
  <2> QED
    BY <2>2, QuietStep
<1>3. CASE MayDrain
  <2>1. draining /\ src = <<>> /\ ~ should_stop /\ ~ last_pending
    BY <1>1, <1>3 DEF MayDrain, Stopping
  <2>2. \A u \in Task : drainAt[u] \notin Before \cup After
    BY <1>1, <2>1 DEF Stopping
  <2>3. /\ drainAt[t] = "check" /\ drainAt'[t] = "eos"
        /\ \A u \in Task : u # t => drainAt'[u] = drainAt[u]
    BY <1>1, <1>3, Moved DEF DrainCheck, Place
  <2>4. /\ draining' = FALSE /\ should_stop' = TRUE
        /\ UNCHANGED <<client, input, capture, m2m, feeding, drainDue, last_pending,
                       has_stopped, tally>>
    BY <1>3 DEF DrainCheck
  <2>5. client \notin {"released", "closed"}
    <3>1. drainAt["feed"] = "no" /\ drainAt["client"] = "no" /\ drainAt["drain"] = "no"
          => \A u \in Task : drainAt[u] = "no"
      BY DEF Task
    <3> QED
      BY <1>1, <2>3, <3>1 DEF JobIsHeld, Blocked, Closing
  <2>6. ~ has_stopped
    BY <1>1, <2>1, <2>5 DEF Stale
  <2>7. client \notin {"playing", "seeking"}
    BY <1>1, <2>1 DEF Restarted
  <2>8. Restarted' /\ Giving' /\ Stale'
    BY <2>3, <2>4, <2>7 DEF Restarted, Giving, Stale, Before
  <2>9. Stopping' /\ Over'
    BY <2>1, <2>2, <2>3, <2>4, <2>6 DEF Stopping, Over, Before, After
  <2>10. Lasts'
    BY <1>1, <2>1, <2>4 DEF Lasts, Owing
  <2> QED
    BY <2>8, <2>9, <2>10 DEF DrainParts
<1> QED
  BY <1>2, <1>3

\* A task that took the drain on goes on with it.
LEMMA StepDrains ==
  ASSUME DrainInv, Prompt, NEW t \in Task,
         DrainEos(t) \/ DrainInactive(t) \/ DrainLast(t) \/ DrainMark(t)
  PROVE  DrainParts'
<1>1. /\ TypeOK /\ JobIsHeld
      /\ Restarted /\ Stopping /\ Over /\ Giving /\ Stale /\ Lasts
  BY DEF DrainInv, DrainParts, JobInv
<1>2. /\ drainAt[t] \in {"eos", "idle", "last", "mark"}
      /\ drainAt[t] = "eos" => drainAt'[t] = "idle"
      /\ drainAt[t] = "idle" => drainAt'[t] = "last"
      /\ drainAt[t] = "last" => drainAt'[t] = "mark"
      /\ drainAt[t] = "mark" => drainAt'[t] = "drained"
      /\ \A u \in Task : u # t => drainAt'[u] = drainAt[u]
  BY <1>1, Moved DEF DrainEos, DrainInactive, DrainLast, DrainMark, Place
<1>3. drainAt[t] \in Before \cup After /\ drainAt'[t] \in Before \cup After
  BY <1>2 DEF Before, After
<1>4. /\ should_stop /\ ~ draining /\ src = <<>> /\ client \notin {"playing", "seeking"}
      /\ drainAt[t] # "eos" => eos
  BY <1>1, <1>2, <1>3 DEF Stopping, Restarted, Before, After
<1>5. /\ UNCHANGED <<client, src, fifo, m2m, feeding, drainDue, draining, should_stop,
                     esparser_queued_bufs, bounds>>
      /\ eos \/ drainAt[t] = "eos" => eos'
  <2>1. CASE DrainEos(t)
    BY <2>1 DEF DrainEos
  <2>2. CASE DrainInactive(t) \/ DrainLast(t) \/ DrainMark(t)
    <3>1. drainAt[t] # "eos"
      BY <2>2 DEF DrainInactive, DrainLast, DrainMark, Moves
    <3> QED
      BY <2>2, <3>1 DEF DrainInactive, DrainLast, DrainMark
  <2> QED
    BY <2>1, <2>2
<1>6. Restarted' /\ Stale'
  BY <1>4, <1>5 DEF Restarted, Stale
<1>7. Stopping'
  BY <1>1, <1>2, <1>4, <1>5 DEF Stopping, Before, After
<1>8. CASE DrainEos(t) \/ DrainInactive(t)
  <2>1. /\ drainAt[t] \in Before /\ drainAt'[t] \in Before
        /\ UNCHANGED <<capture, last_pending, has_stopped, lasts>>
    BY <1>2, <1>8 DEF DrainEos, DrainInactive, Moves, Before
  <2>2. Giving'
    BY <1>1, <1>2, <1>5, <2>1 DEF Giving
  <2>3. Lasts'
    BY <1>1, <1>2, <1>5, <2>1 DEF Lasts, Owing
  <2>4. CASE DrainEos(t)
    <3>1. drainAt[t] = "eos" /\ drainAt'[t] = "idle"
      BY <2>4, <1>2 DEF DrainEos, Moves
    <3>2. Over'
      BY <1>1, <1>2, <1>5, <2>1, <3>1 DEF Over, Stuck, After
    <3> QED
      BY <1>6, <1>7, <2>2, <2>3, <3>2 DEF DrainParts
  <2>5. CASE DrainInactive(t)
    <3>1. drainAt[t] = "idle" /\ (Decodable => queued = 0 /\ Blocked)
      BY <2>5, <1>2 DEF DrainInactive, Moves
    <3>2. ASSUME Decodable PROVE Over'
      <4>1. queued = 0 /\ client = "closing"
        BY <1>1, <1>4, <3>1, <3>2 DEF JobIsHeld
      <4>2. Stuck'
        BY <1>5, <2>1, <4>1 DEF Stuck
      <4> QED
        BY <4>2 DEF Over
    <3>3. ASSUME ~ Decodable PROVE Over'
      <4>1. fifo' = <<>>
        BY <1>4, <1>5, <3>1, <3>3 DEF Decodable
      <4>2. NoPicture(fifo')
        BY <4>1 DEF NoPicture
      <4> QED
        BY <4>2 DEF Over
    <3> QED
      BY <1>6, <1>7, <2>2, <2>3, <3>2, <3>3 DEF DrainParts
  <2> QED
    BY <1>8, <2>4, <2>5
<1>9. CASE DrainLast(t) /\ ~ has_stopped
  <2>1. drainAt[t] = "last" /\ drainAt'[t] = "mark" /\ drainAt[t] \in Before
    BY <1>2, <1>9 DEF DrainLast, Moves, Before
  <2>2. \/ queued = 0 /\ queued' = 0 /\ last_pending' /\ has_stopped' = has_stopped
           /\ lasts' = lasts
        \/ queued # 0 /\ ~ last_pending' /\ has_stopped' /\ lasts' = lasts + 1
    BY <1>1, <1>9 DEF DrainLast, GiveLast, TypeOK
  <2>3. Over'
    BY <1>1, <1>5, <2>1, <2>2 DEF Over, Stuck
  <2>4. Giving'
    BY <2>2 DEF Giving
  <2>5. lasts < stops /\ lasts \in Nat /\ stops \in Nat
    BY <1>1, <1>9, <2>1 DEF Lasts, Owing, TypeOK
  <2>6. Lasts'
    BY <1>4, <1>5, <2>2, <2>5 DEF Lasts, Owing
  <2> QED
    BY <1>6, <1>7, <2>3, <2>4, <2>6 DEF DrainParts
<1>10. CASE DrainMark(t) \/ (DrainLast(t) /\ has_stopped)
  <2>1. /\ drainAt[t] \in {"last"} \cup After
        /\ UNCHANGED <<capture, last_pending, lasts>> /\ has_stopped' = TRUE
    BY <1>1, <1>2, <1>10 DEF DrainLast, DrainMark, Moves, After, TypeOK
  <2>2. Over'
    BY <1>1, <1>5, <2>1 DEF Over, Stuck
  <2>3. Giving'
    BY <2>1 DEF Giving
  <2>4. Lasts'
    BY <1>1, <1>5, <2>1 DEF Lasts, Owing
  <2> QED
    BY <1>6, <1>7, <2>2, <2>3, <2>4 DEF DrainParts
<1> QED
  BY <1>8, <1>9, <1>10

LEMMA DecodeDrains ==
  ASSUME DrainInv, Skip \/ PictureDone
  PROVE  DrainParts'
<1>1. /\ TypeOK /\ Counted
      /\ Restarted /\ Stopping /\ Over /\ Giving /\ Stale /\ Lasts
  BY DEF DrainInv, DrainParts, JobInv
<1>2. fifo \in Seq(Input) /\ fifo # <<>> /\ fifo' = Tail(fifo)
  BY <1>1 DEF Skip, PictureDone, Decodable, TypeOK
<1>3. NoPicture(fifo) => NoPicture(fifo')
  BY <1>2, NoPictureTaken
<1>4. CASE Skip
  <2>1. UNCHANGED <<client, src, eos, capture, m2m, feeding, drain, flags, tally>>
    BY <1>4 DEF Skip
  <2>2. Restarted' /\ Stopping' /\ Giving' /\ Stale' /\ Lasts'
    BY <1>1, <2>1 DEF Restarted, Stopping, Giving, Stale, Lasts, Owing
  <2>3. Over'
    BY <1>1, <1>3, <2>1 DEF Over, Stuck
  <2> QED
    BY <2>2, <2>3 DEF DrainParts
<1>5. CASE PictureDone
  <2>1. /\ Head(fifo) = "picture" /\ queued > 0
        /\ UNCHANGED <<client, src, eos, m2m, feedAt, drain, draining, should_stop, bounds>>
        /\ esparser_queued_bufs' = esparser_queued_bufs - 1
    BY <1>5 DEF PictureDone
  <2>2. ~ NoPicture(fifo)
    <3>1. fifo[1] = "picture" /\ 1 \in DOMAIN fifo
      BY <1>2, <2>1, HeadTailProperties, LenProperties
    <3> QED
      BY <3>1 DEF NoPicture
  <2>3. /\ ~ has_stopped /\ ~ last_pending
        /\ \A t \in Task : drainAt[t] \notin {"last"} \cup After
    BY <1>1, <2>1, <2>2 DEF Over, Stuck
  <2>4. CASE ~ (should_stop /\ esparser_queued_bufs <= 1)
    <3>1. UNCHANGED <<last_pending, has_stopped, lasts>>
      BY <1>5, <2>4 DEF PictureDone
    <3>2. Restarted' /\ Stopping' /\ Giving' /\ Lasts'
      BY <1>1, <2>1, <3>1 DEF Restarted, Stopping, Giving, Lasts, Owing
    <3>3. Over' /\ Stale'
      BY <2>1, <2>3, <3>1 DEF Over, Stale
    <3> QED
      BY <3>2, <3>3 DEF DrainParts
  <2>5. CASE should_stop /\ esparser_queued_bufs <= 1
    <3>1. NoPicture(fifo')
      <4>1. /\ fifo' \in Seq(Input) /\ Pictures(fifo') \in Nat /\ Pictures(fifo) \in Nat
            /\ Pictures(fifo') + 1 <= Pictures(fifo)
        BY <1>2, <2>1, PicturesTaken, PicturesAreSome
      <4>2. Pictures(fifo) <= 1
        BY <1>1, <2>5, <4>1 DEF Counted, TypeOK
      <4>3. Pictures(fifo') = 0
        BY <4>1, <4>2
      <4> QED
        BY <4>1, <4>3, PicturesAreSome
    <3>2. \/ last_pending' = TRUE /\ has_stopped' = has_stopped /\ lasts' = lasts
          \/ last_pending' = FALSE /\ has_stopped' = TRUE /\ lasts' = lasts + 1
      BY <1>5, <2>5 DEF PictureDone, GiveLast
    <3>3. ~ draining /\ src = <<>> /\ client # "playing"
      BY <1>1, <2>5 DEF Stopping, Restarted
    <3>4. lasts < stops /\ lasts \in Nat /\ stops \in Nat
      BY <1>1, <2>3, <2>5 DEF Giving, Lasts, Owing, TypeOK
    <3>5. Restarted' /\ Stopping'
      BY <1>1, <2>1, <2>5, <3>3 DEF Restarted, Stopping
    <3>6. Over' /\ Giving' /\ Stale'
      BY <2>1, <2>5, <3>1, <3>2 DEF Over, Giving, Stale
    <3>7. Lasts'
      BY <2>1, <3>2, <3>3, <3>4 DEF Lasts, Owing
    <3> QED
      BY <3>5, <3>6, <3>7 DEF DrainParts
  <2> QED
    BY <2>4, <2>5
<1> QED
  BY <1>4, <1>5

LEMMA InputDrains ==
  ASSUME DrainInv, NEW i \in Input, QueueInput(i)
  PROVE  DrainParts'
<1>1. /\ TypeOK /\ Restarted /\ Stopping /\ Over /\ Giving /\ Stale /\ Lasts
  BY DEF DrainInv, DrainParts, JobInv
<1>2. /\ client = "playing"
      /\ UNCHANGED <<client, fifo, eos, capture, feedAt, drain, flags,
                     esparser_queued_bufs, stops, seeks, lasts>>
  BY DEF QueueInput
<1>3. has_stopped /\ job = "idle" => job' = "idle"
  <2>1. ASSUME job # "running" PROVE job' = job \/ ~ has_stopped
    BY <1>1, <2>1, Scheduled DEF QueueInput, TypeOK
  <2> QED
    BY <2>1
<1>4. ~ should_stop /\ ~ draining /\ \A t \in Task : drainAt[t] \notin Before \cup After
  BY <1>1, <1>2 DEF Restarted
<1>5. Restarted' /\ Giving' /\ Lasts'
  BY <1>1, <1>2 DEF Restarted, Giving, Lasts, Owing
<1>6. Stopping'
  BY <1>1, <1>2, <1>4 DEF Stopping
<1>7. Over'
  BY <1>1, <1>2 DEF Over, Stuck
<1>8. Stale'
  BY <1>1, <1>2, <1>3, <1>4 DEF Stale
<1> QED
  BY <1>5, <1>6, <1>7, <1>8 DEF DrainParts

LEMMA CaptureDrains ==
  ASSUME DrainInv, Take \/ Return
  PROVE  DrainParts'
<1>1. /\ TypeOK /\ Restarted /\ Stopping /\ Over /\ Giving /\ Stale /\ Lasts
  BY DEF DrainInv, DrainParts, JobInv
<1>2. ~ Stuck
  BY DEF Take, Return, Stuck
<1>3. CASE Take
  <2>1. /\ client \in {"playing", "stopped"}
        /\ UNCHANGED <<input, queued, m2m, feeding, drain, flags, tally>>
        /\ done # <<>> /\ done' = Tail(done)
        /\ \/ client' = client
           \/ client = "stopped" /\ client' = "ended" /\ Head(done) = "last"
    BY <1>3 DEF Take
  <2>2. Restarted' /\ Stopping' /\ Giving' /\ Lasts'
    BY <1>1, <2>1 DEF Restarted, Stopping, Giving, Lasts, Owing
  <2>3. Over'
    BY <1>1, <1>2, <2>1 DEF Over
  <2>4. ASSUME \A i \in DOMAIN done : done[i] # "last"
        PROVE  Head(done) # "last" /\ \A i \in DOMAIN done' : done'[i] # "last"
    <3>1. /\ Len(Tail(done)) = Len(done) - 1 /\ Tail(done) \in Seq({"picture", "last"})
          /\ \A i \in 1..Len(Tail(done)) : Tail(done)[i] = done[i + 1]
          /\ Head(done) = done[1]
      BY <1>1, <2>1, HeadTailProperties DEF TypeOK
    <3>2. DOMAIN done = 1..Len(done) /\ DOMAIN Tail(done) = 1..(Len(done) - 1)
          /\ Len(done) \in Nat /\ 1 \in DOMAIN done
      BY <1>1, <2>1, <3>1, LenProperties DEF TypeOK
    <3> QED
      BY <2>1, <2>4, <3>1, <3>2
  <2>5. Stale'
    BY <1>1, <2>1, <2>4 DEF Stale
  <2> QED
    BY <2>2, <2>3, <2>5 DEF DrainParts
<1>4. CASE Return /\ last_pending
  <2>1. should_stop /\ ~ draining /\ NoPicture(fifo) /\ client # "playing"
    BY <1>1, <1>2, <1>4 DEF Stopping, Over, Restarted
  <2>2. /\ last_pending' = FALSE /\ has_stopped' = TRUE /\ lasts' = lasts + 1
        /\ UNCHANGED <<client, input, m2m, feedAt, drain, draining, should_stop,
                       esparser_queued_bufs, bounds>>
    BY <1>1, <1>4 DEF Return, GiveLast, TypeOK
  <2>3. lasts < stops /\ lasts \in Nat /\ stops \in Nat
    BY <1>1, <1>4 DEF Lasts, Owing, TypeOK
  <2>4. Restarted' /\ Stopping'
    BY <1>1, <2>1, <2>2 DEF Restarted, Stopping
  <2>5. Over' /\ Giving' /\ Stale'
    BY <2>1, <2>2 DEF Over, Giving, Stale
  <2>6. Lasts'
    BY <2>1, <2>2, <2>3 DEF Lasts, Owing
  <2> QED
    BY <2>4, <2>5, <2>6 DEF DrainParts
<1>5. CASE Return /\ ~ last_pending
  <2>1. UNCHANGED <<client, input, done, m2m, feedAt, drain, flags, esparser_queued_bufs,
                    bounds, lasts>>
    BY <1>5 DEF Return
  <2>2. Restarted' /\ Stopping' /\ Giving' /\ Stale' /\ Lasts'
    BY <1>1, <2>1 DEF Restarted, Stopping, Giving, Stale, Lasts, Owing
  <2>3. Over'
    BY <1>1, <1>2, <2>1 DEF Over
  <2> QED
    BY <2>2, <2>3 DEF DrainParts
<1> QED
  BY <1>3, <1>4, <1>5

LEMMA StopDrains ==
  ASSUME DrainInv, Stop
  PROVE  DrainParts'
<1>1. /\ TypeOK /\ Counted
      /\ Restarted /\ Stopping /\ Over /\ Giving /\ Stale /\ Lasts
  BY DEF DrainInv, DrainParts, JobInv
<1>2. /\ client = "playing" /\ client' = "stopped" /\ stops' = stops + 1
      /\ UNCHANGED <<src, fifo, capture, m2m, feeding, drainAt, last_pending,
                     esparser_queued_bufs, fed, seeks, lasts>>
  BY DEF Stop
<1>3. /\ ~ draining /\ ~ should_stop /\ ~ last_pending
      /\ \A t \in Task : drainAt[t] \notin Before \cup After
  BY <1>1, <1>2 DEF Restarted
<1>4. Restarted'
  BY <1>2 DEF Restarted
<1>5. Lasts'
  <2>1. lasts <= stops /\ lasts \in Nat /\ stops \in Nat
    BY <1>1 DEF Lasts, TypeOK
  <2> QED
    BY <1>2, <2>1 DEF Lasts
<1>6. CASE src # <<>> \/ esparser_queued_bufs > 0 \/ job # "idle"
  <2>1. draining' = TRUE /\ UNCHANGED <<should_stop, has_stopped, eos>>
    BY <1>6 DEF Stop
  <2>2. Stopping' /\ Giving'
    BY <1>2, <1>3, <2>1 DEF Stopping, Giving, Before, After
  <2>3. Over'
    BY <1>1, <1>2, <2>1 DEF Over, Stuck
  <2>4. Stale'
    BY <1>1, <1>2, <1>6, <2>1 DEF Stale
  <2> QED
    BY <1>4, <1>5, <2>2, <2>3, <2>4 DEF DrainParts
<1>7. CASE ~ (src # <<>> \/ esparser_queued_bufs > 0 \/ job # "idle")
  <2>1. /\ should_stop' = TRUE /\ has_stopped' = TRUE /\ eos' = TRUE
        /\ UNCHANGED draining /\ src = <<>> /\ esparser_queued_bufs = 0
    BY <1>1, <1>7 DEF Stop, TypeOK
  <2>2. NoPicture(fifo)
    <3>1. fifo \in Seq(Input) /\ Pictures(fifo) <= 0
      BY <1>1, <2>1 DEF Counted, TypeOK
    <3>2. Pictures(fifo) \in Nat /\ (Pictures(fifo) = 0 <=> NoPicture(fifo))
      BY <3>1, PicturesAreSome
    <3> QED
      BY <3>1, <3>2
  <2>3. Stopping' /\ Over' /\ Giving' /\ Stale'
    BY <1>2, <1>3, <2>1, <2>2 DEF Stopping, Over, Giving, Stale
  <2> QED
    BY <1>4, <1>5, <2>3 DEF DrainParts
<1> QED
  BY <1>6, <1>7

LEMMA StartDrains ==
  ASSUME DrainInv, ~ Hasty, Start
  PROVE  DrainParts'
<1>1. Lasts
  BY DEF DrainInv, DrainParts
<1>2. /\ Settled /\ client' = "playing"
      /\ eos' = FALSE /\ draining' = FALSE /\ should_stop' = FALSE
      /\ last_pending' = FALSE /\ has_stopped' = FALSE
      /\ UNCHANGED <<src, fifo, capture, m2m, feeding, drain, tally>>
  BY DEF Start
<1>3. ~ drainDue' /\ \A t \in Task : drainAt'[t] \notin Before \cup After
  BY <1>2 DEF Settled, Before, After
<1>4. Restarted' /\ Stopping'
  BY <1>2, <1>3 DEF Restarted, Stopping, Before, After
<1>5. Over' /\ Giving' /\ Stale'
  BY <1>2, <1>3 DEF Over, Giving, Stale, Before, After
<1>6. Lasts'
  BY <1>1, <1>2, <1>3 DEF Lasts, Owing
<1> QED
  BY <1>4, <1>5, <1>6 DEF DrainParts

\* A STREAMOFF begins: only the job's abort may look for a drain.
LEMMA OffDrains ==
  ASSUME DrainInv, ~ Hasty, SeekOff \/ Close
  PROVE  DrainParts'
<1>1. /\ TypeOK /\ JobIsHeld
      /\ Restarted /\ Stopping /\ Over /\ Giving /\ Stale /\ Lasts
  BY DEF DrainInv, DrainParts, JobInv
<1>2. /\ client \in {"playing", "stopped", "ended"}
      /\ UNCHANGED <<input, capture, trans, feedAt, flags, esparser_queued_bufs, stops, lasts>>
  BY DEF SeekOff, Close
<1>3. /\ drainAt["client"] = "no"
      /\ \A t \in Task : \/ drainAt'[t] = drainAt[t]
                         \/ drainAt[t] = "no" /\ drainAt'[t] = "check"
      /\ job = "idle" => job' = "idle"
  <2>1. drainAt["client"] = "no"
    BY <1>1, <1>2 DEF JobIsHeld, Blocked
  <2> QED
    BY <1>1, <2>1 DEF SeekOff, Close, Cancel, TypeOK
<1>4. \A t \in Task : /\ drainAt'[t] \in Before \cup After => drainAt'[t] = drainAt[t]
                      /\ drainAt[t] \in Before \cup After => drainAt'[t] = drainAt[t]
  BY <1>3 DEF Before, After
<1>5. Restarted'
  <2>1. CASE SeekOff
    <3>1. Settled /\ drainDue' = drainDue /\ client' = "seeking"
      BY <2>1 DEF SeekOff
    <3>2. \A t \in Task : drainAt'[t] \notin Before \cup After
      BY <1>4, <3>1 DEF Settled, Before, After
    <3> QED
      BY <1>2, <3>1, <3>2 DEF Restarted, Settled
  <2>2. CASE Close
    BY <2>2 DEF Close, Restarted
  <2> QED
    BY <2>1, <2>2
<1>6. Stopping'
  BY <1>1, <1>2, <1>4 DEF Stopping, Before, After
<1>7. Over'
  <2>1. ~ Stuck
    BY <1>2 DEF Stuck
  <2> QED
    BY <1>1, <1>2, <1>4, <2>1 DEF Over, Before, After
<1>8. Giving'
  BY <1>1, <1>2, <1>4 DEF Giving
<1>9. client' \in {"seeking", "closing"}
  BY DEF SeekOff, Close
<1>10. Stale'
  BY <1>1, <1>2, <1>3, <1>9 DEF Stale
<1>11. Lasts'
  BY <1>1, <1>2, <1>4 DEF Lasts, Owing
<1> QED
  BY <1>5, <1>6, <1>7, <1>8, <1>10, <1>11 DEF DrainParts

LEMMA OnDrains ==
  ASSUME DrainInv, SeekOn \/ Release \/ Free
  PROVE  DrainParts'
<1>1. /\ TypeOK /\ JobIsHeld
      /\ Restarted /\ Stopping /\ Over /\ Giving /\ Stale /\ Lasts
  BY DEF DrainInv, DrainParts, JobInv
<1>2. NoPicture(<<>>) /\ \A i \in DOMAIN <<>> : <<>>[i] # "last"
  BY DEF NoPicture
<1>3. CASE SeekOn
  <2>1. /\ client = "seeking" /\ ~ trans /\ client' = "playing"
        /\ src' = <<>> /\ fifo' = <<>> /\ eos' = FALSE /\ done' = <<>>
        /\ should_stop' = FALSE /\ last_pending' = FALSE
        /\ esparser_queued_bufs' = 0
        /\ draining = FALSE => draining' = FALSE
        /\ UNCHANGED <<m2m, feeding, drain, bounds, lasts>>
    BY <1>3 DEF SeekOn
  <2>2. /\ draining = FALSE /\ ~ drainDue
        /\ \A t \in Task : drainAt[t] \notin Before \cup After
    BY <1>1, <2>1 DEF Restarted, TypeOK
  <2>3. job' = "idle" /\ ~ draining'
    BY <1>1, <2>1, <2>2 DEF JobIsHeld
  <2>4. Restarted' /\ Stopping'
    BY <2>1, <2>2, <2>3 DEF Restarted, Stopping, Before, After
  <2>5. Over' /\ Giving'
    BY <1>2, <2>1 DEF Over, Giving
  <2>6. Stale'
    BY <1>2, <2>1, <2>3 DEF Stale
  <2>7. Lasts'
    BY <1>1, <2>1, <2>2, <2>3 DEF Lasts, Owing
  <2> QED
    BY <2>4, <2>5, <2>6, <2>7 DEF DrainParts
<1>4. CASE Release \/ Free
  <2>1. /\ client \in {"closing", "released"} /\ client' \in {"released", "closed"}
        /\ UNCHANGED <<eos, m2m, feedAt, drain, flags, tally>>
    BY <1>4 DEF Release, Free
  <2>2. Restarted' /\ Giving' /\ Lasts'
    BY <1>1, <2>1 DEF Restarted, Giving, Lasts, Owing
  <2>3. CASE Release
    <3>1. src' = <<>> /\ fifo' = <<>> /\ done' = <<>>
      BY <2>3 DEF Release
    <3>2. Stopping' /\ Over'
      BY <1>1, <1>2, <2>1, <3>1 DEF Stopping, Over
    <3>3. Stale'
      BY <1>1, <1>2, <2>1, <3>1 DEF Stale
    <3> QED
      BY <2>2, <3>2, <3>3 DEF DrainParts
  <2>4. CASE Free
    <3>1. UNCHANGED <<input, capture>> /\ client = "released"
      BY <2>4 DEF Free
    <3>2. Stopping' /\ Over'
      BY <1>1, <2>1, <3>1 DEF Stopping, Over, Stuck
    <3>3. Stale'
      BY <1>1, <2>1, <3>1 DEF Stale
    <3> QED
      BY <2>2, <3>2, <3>3 DEF DrainParts
  <2> QED
    BY <1>4, <2>3, <2>4
<1> QED
  BY <1>3, <1>4

LEMMA DrainInitially == Init => DrainInv
<1> SUFFICES ASSUME Init PROVE DrainInv
  OBVIOUS
<1>1. \A t \in Task : drainAt[t] = "no"
  BY DEF Init
<1>2. Restarted /\ Stopping
  BY <1>1 DEF Init, Restarted, Stopping, Before, After
<1>3. Over /\ Giving /\ Stale
  BY <1>1 DEF Init, Over, Giving, Stale, After
<1>4. Lasts
  BY <1>1 DEF Init, Lasts, Owing, Before
<1> QED
  BY <1>2, <1>3, <1>4, JobInitially DEF DrainInv, DrainParts

LEMMA DrainInvStep ==
  ASSUME Prompt, ~ Hasty
  PROVE  DrainInv /\ [Next]_vars => DrainInv'
<1> SUFFICES ASSUME DrainInv, [Next]_vars PROVE DrainParts'
  BY JobStep DEF DrainInv
<1>1. CASE FeedBegin \/ FeedOne \/ FeedYield \/ FeedComplete \/ JobFinish
  BY <1>1, FeedDrains
<1>2. CASE DrainBegin \/ DrainEnd \/ AbortEnd
  BY <1>2, WorkerDrains
<1>3. ASSUME NEW t \in Task, DrainStep(t) PROVE DrainParts'
  BY <1>3, CheckDrains, StepDrains DEF DrainStep
<1>4. CASE Skip \/ PictureDone
  BY <1>4, DecodeDrains
<1>5. ASSUME NEW i \in Input, QueueInput(i) PROVE DrainParts'
  BY <1>5, InputDrains
<1>6. CASE Take \/ Return
  BY <1>6, CaptureDrains
<1>7. CASE Stop \/ Start
  BY <1>7, StopDrains, StartDrains
<1>8. CASE SeekOff \/ Close
  BY <1>8, OffDrains
<1>9. CASE SeekOn \/ Release \/ Free
  BY <1>9, OnDrains
<1>10. CASE UNCHANGED vars
  <2>1. Quiet
    BY <1>10 DEF vars, Quiet, DrainInv, DrainParts, Stale
  <2> QED
    BY <2>1, QuietStep
<1>11. {"feed", "drain", "client"} \subseteq Task
  BY DEF Task
<1> QED
  BY <1>1, <1>2, <1>3, <1>4, <1>5, <1>6, <1>7, <1>8, <1>9, <1>10, <1>11
     DEF Next, Feed, Drain, Abort, Decode

-----------------------------------------------------------------------------
(* The theorems.                                                           *)

\* vdec_close, whatever the client does and however slow the decoder is: once the
\* m2m context is released neither a drain nor the completion of a job is under way
\* or to come, and no work is when the session is freed.
THEOREM SessionEndsClean == Spec => []NothingAfterRelease
<1>1. JobInv => NothingAfterRelease
  <2> SUFFICES ASSUME JobInv, client \in {"released", "closed"}
               PROVE  /\ ~ drainDue /\ \A t \in Task : drainAt[t] = "no"
                      /\ feedAt \notin {"complete", "drain"}
                      /\ client = "closed" => feedAt = "rest" /\ ~ feedDue
    BY DEF NothingAfterRelease
  <2>1. /\ ~ trans /\ ~ drainDue /\ drainAt["drain"] = "no"
        /\ client = "closed" => feedAt = "rest" /\ ~ feedDue
    BY DEF JobInv, Closing
  <2>2. job = "idle" /\ feedAt \notin {"complete", "drain"}
    BY <2>1 DEF JobInv, JobIsHeld
  <2>3. drainAt["feed"] = "no" /\ drainAt["client"] = "no"
    BY <2>1, <2>2 DEF JobInv, JobIsHeld, Blocked
  <2> QED
    BY <2>1, <2>2, <2>3 DEF Task
<1> HIDE DEF JobInv, NothingAfterRelease, Init, Next, vars
<1> QED
  BY <1>1, JobInitially, JobStep, PTL DEF Spec

\* amvdec_dst_buf_done_empty_last, from the last picture's interrupt, from the drain and
\* from the next CAPTURE buffer: together they give no more than one LAST to a STOP, of
\* a client that does not restart the stream while its drain is under way, where the
\* decoder decodes what it has within the drain's wait.
THEOREM LastIsGivenOnce ==
  ASSUME Prompt, ~ Hasty
  PROVE  Spec => []OneLastPerStop
<1>1. DrainInv => OneLastPerStop
  BY DEF DrainInv, DrainParts, Lasts, OneLastPerStop
<1>2. Init => DrainInv
  BY DrainInitially
<1>3. DrainInv /\ [Next]_vars => DrainInv'
  BY DrainInvStep
<1> HIDE DEF DrainInv, OneLastPerStop, Init, Next, vars
<1> QED
  BY <1>1, <1>2, <1>3, PTL DEF Spec

\* vdec_m2m_finish_drain and dst_buf_done: of such a client and decoder, once the LAST is
\* with the client or on its way to it, no picture of the stream is left to be parsed or
\* decoded.
THEOREM LastIsGivenLast ==
  ASSUME Prompt, ~ Hasty
  PROVE  Spec => []LastComesLast
<1>1. DrainInv => LastComesLast
  <2> SUFFICES ASSUME DrainInv, client \in {"stopped", "ended"}, has_stopped,
                      client = "ended" \/ \E i \in DOMAIN done : done[i] = "last"
               PROVE  Pictures(src) + Pictures(fifo) = 0
    BY DEF LastComesLast
  <2>1. src \in Seq(Input) /\ fifo \in Seq(Input)
    BY DEF DrainInv, JobInv, TypeOK
  <2>2. should_stop
    BY DEF DrainInv, DrainParts, Stale
  <2>3. src = <<>>
    BY <2>2 DEF DrainInv, DrainParts, Stopping
  <2>4. NoPicture(fifo) /\ NoPicture(src)
    BY <2>3 DEF DrainInv, DrainParts, Over, Stuck, NoPicture
  <2>5. Pictures(src) = 0 /\ Pictures(fifo) = 0
    BY <2>1, <2>4, PicturesAreSome
  <2> QED
    BY <2>5
<1>2. Init => DrainInv
  BY DrainInitially
<1>3. DrainInv /\ [Next]_vars => DrainInv'
  BY DrainInvStep
<1> HIDE DEF DrainInv, LastComesLast, Init, Next, vars
<1> QED
  BY <1>1, <1>2, <1>3, PTL DEF Spec
=============================================================================
