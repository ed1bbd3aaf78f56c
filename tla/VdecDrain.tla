----------------------------- MODULE VdecDrain ------------------------------
(***************************************************************************)
(* A decoding session of the Amlogic decoder's legacy codecs (MPEG-4,      *)
(* MJPEG, VC-1: async_drain, an end sequence, amvdec_drain_empty_last) from *)
(* its first picture to its close: a client that queues input and takes    *)
(* pictures, the work that feeds the parser, the decoder and its interrupt, *)
(* and the worker that drains the stream when the client says STOP and     *)
(* ends it with an empty buffer flagged LAST.                              *)
(*                                                                         *)
(* Line numbers of vdec.c, esparser.c and vdec_helpers.c are those of      *)
(* patches/linux-meson/0002-media-meson-vdec-*.patch, changed since by     *)
(* patches/meson-codecs/0008 and 0015.                                     *)
(***************************************************************************)
EXTENDS Naturals, Sequences, FiniteSets

CONSTANTS
  Buffers,   \* how many CAPTURE buffers there are
  Room,      \* how many pictures the VIFIFO takes
  Inputs,    \* bound: OUTPUT buffers queued
  Stops,     \* bound: STOP commands
  Seeks,     \* bound: seeks
  Prompt,    \* a client that may returns CAPTURE buffers within 50 ms, and
             \* what is in the VIFIFO decodes within VDEC_INACTIVE_TIMEOUT_MS
  Hasty,     \* a client may restart the stream while its drain is under way
  Restarts   \* a client that seeks says START, as FFmpeg's flush does

ASSUME BoundsAreNumbers ==
  /\ {Buffers, Room} \subseteq Nat \ {0}
  /\ {Inputs, Stops, Seeks} \subseteq Nat
ASSUME ChoicesAreBoolean == {Prompt, Hasty, Restarts} \subseteq BOOLEAN

\* An OUTPUT buffer carries a picture, or none: a stream's header, a skipped
\* frame.
Input == {"picture", "none"}

\* Who may find itself draining: the work that feeds the parser, the drain
\* worker, and a client whose STREAMOFF cuts a job short.
Task == {"feed", "drain", "client"}

VARIABLES
  client,        \* "playing"; "stopped" after STOP, "ended" once LAST is taken;
                 \* "seeking", "closing", "released", "closed"
  src,           \* the OUTPUT buffers queued
  fifo,          \* the VIFIFO: what was parsed and not decoded
  eos,           \* the end sequence is in it
  queued,        \* the CAPTURE buffers queued; the decoder may use them
  done,          \* the CAPTURE buffers to be dequeued
  job,           \* m2m_job_running
  trans,         \* the m2m core holds a job of this session
  feedDue,       \* esparser_queue_work is queued
  feedAt,        \* where it is
  drainDue,      \* drain_work is queued
  drainAt,       \* where vdec_m2m_finish_drain is, per task
  draining,
  should_stop,
  last_pending,
  has_stopped,
  esparser_queued_bufs,
  fed, stops, seeks, \* how much of the bounds is used
  lasts          \* auxiliary: the LAST buffers completed

input == <<src, fifo, eos>>
capture == <<queued, done>>
m2m == <<job, trans>>
feeding == <<feedDue, feedAt>>
drain == <<drainDue, drainAt>>
flags == <<draining, should_stop, last_pending, has_stopped>>
bounds == <<fed, stops, seeks>>
tally == <<esparser_queued_bufs, bounds, lasts>>
vars == <<client, input, capture, m2m, feeding, drain, flags, tally>>

\* Streaming on both queues, every CAPTURE buffer queued.
Init ==
  /\ client = "playing"
  /\ src = <<>> /\ fifo = <<>> /\ eos = FALSE
  /\ queued = Buffers /\ done = <<>>
  /\ job = "idle" /\ trans = FALSE
  /\ feedDue = FALSE /\ feedAt = "rest"
  /\ drainDue = FALSE /\ drainAt = [t \in Task |-> "no"]
  /\ draining = FALSE /\ should_stop = FALSE
  /\ last_pending = FALSE /\ has_stopped = FALSE
  /\ esparser_queued_bufs = 0
  /\ fed = 0 /\ stops = 0 /\ seeks = 0 /\ lasts = 0

-----------------------------------------------------------------------------
(* What the parts have in common.                                          *)

\* The m2m core starts a job unless it holds one already (held), the stream has
\* stopped or is being stopped, or there is nothing to do (vdec_m2m_job_ready):
\* vdec_m2m_device_run.
TrySchedule(held, waiting, stopped) ==
  IF ~ held /\ waiting # <<>> /\ ~ stopped /\ client \in {"playing", "stopped", "ended"}
  THEN trans' = TRUE /\ job' = "running" /\ feedDue' = TRUE
  ELSE trans' = held /\ UNCHANGED <<job, feedDue>>

\* Mutant: the LAST is given up when no CAPTURE buffer is queued.
GiveLastNow(free) ==
  IF free = 0
  THEN /\ queued' = free
       /\ UNCHANGED <<last_pending, has_stopped, lasts>>
  ELSE /\ queued' = free - 1
       /\ last_pending' = FALSE /\ has_stopped' = TRUE
       /\ lasts' = lasts + 1

\* amvdec_dst_buf_done_empty_last, with so many CAPTURE buffers queued: the LAST
\* goes out in one of them, or waits for the next.
GiveLast(free) ==
  IF free = 0
  THEN /\ queued' = free
       /\ last_pending' = TRUE
       /\ UNCHANGED <<has_stopped, lasts>>
  ELSE /\ queued' = free - 1
       /\ last_pending' = FALSE /\ has_stopped' = TRUE
       /\ lasts' = lasts + 1

\* What is then to be dequeued, after these.
WithLast(free, some) == IF free = 0 THEN some ELSE Append(some, "last")

\* The CAPTURE buffers the client holds.
Held == Buffers - queued - Len(done)

\* The microcode decodes what something follows: the last picture waits for more
\* input or the end sequence.
Decodable == fifo # <<>> /\ (Len(fifo) > 1 \/ eos)

\* The client waits in an ioctl.
Blocked == drainAt["client"] # "no"

-----------------------------------------------------------------------------
(* esparser_queue_work.                                                    *)

FeedBegin ==
  /\ feedDue /\ feedAt = "rest"
  /\ feedDue' = FALSE
  /\ feedAt' = IF job = "running" THEN "lock" ELSE "rest"
  /\ UNCHANGED <<client, input, capture, m2m, drain, flags, tally>>

\* How many pictures some inputs carry.
Pictures(some) == Cardinality({i \in DOMAIN some : some[i] = "picture"})

\* Under the session's lock: one OUTPUT buffer goes to the VIFIFO and back to the
\* client; a full VIFIFO leaves the job running, to be tried again.
FeedOne ==
  /\ feedAt = "lock"
  /\ LET full == src # <<>> /\ ~ should_stop /\ Pictures(fifo) >= Room
         takes == src # <<>> /\ ~ should_stop /\ ~ full
     IN  IF job # "running"
         THEN feedAt' = "rest" /\ UNCHANGED <<src, fifo, esparser_queued_bufs>>
         ELSE /\ feedAt' = IF full THEN "rest" ELSE "finish"
              /\ IF takes
                 THEN /\ src' = Tail(src)
                      /\ fifo' = Append(fifo, Head(src))
                      /\ esparser_queued_bufs' = esparser_queued_bufs + 1
                 ELSE UNCHANGED <<src, fifo, esparser_queued_bufs>>
  /\ UNCHANGED <<client, eos, capture, m2m, feedDue, drain, flags, bounds, lasts>>

\* amvdec_m2m_begin_yield: of the work and a client that aborts the job, one
\* completes it.
FeedYield ==
  /\ feedAt = "finish"
  /\ IF job = "running"
     THEN job' = "completing" /\ feedAt' = "complete"
     ELSE UNCHANGED job /\ feedAt' = "rest"
  /\ UNCHANGED <<client, input, capture, trans, feedDue, drain, flags, tally>>

\* vdec_m2m_complete_started_job, up to its look for a drain.
FeedComplete ==
  /\ feedAt = "complete"
  /\ job' = "idle"
  /\ feedAt' = "drain"
  /\ drainAt' = [drainAt EXCEPT !["feed"] = "check"]
  /\ UNCHANGED <<client, input, capture, trans, feedDue, drainDue, flags, tally>>

-----------------------------------------------------------------------------
(* vdec_m2m_finish_drain, in any of the tasks.                             *)

Moves(t, from, to) == drainAt[t] = from /\ drainAt' = [drainAt EXCEPT ![t] = to]

DrainBegin ==
  /\ drainDue
  /\ drainDue' = FALSE
  /\ Moves("drain", "no", "check")
  /\ UNCHANGED <<client, input, capture, m2m, feeding, flags, tally>>

\* Every OUTPUT buffer has been parsed.
MayDrain == draining /\ job = "idle" /\ src = <<>>

\* Of several tasks one takes the drain on (cmpxchg); the others go on.
DrainCheck(t) ==
  /\ IF MayDrain
     THEN /\ Moves(t, "check", "eos")
          /\ draining' = FALSE
          /\ should_stop' = TRUE
     ELSE /\ Moves(t, "check", "refused")
          /\ UNCHANGED <<draining, should_stop>>
  /\ UNCHANGED <<client, input, capture, m2m, feeding, drainDue, last_pending,
                 has_stopped, tally>>

DrainEos(t) ==
  /\ Moves(t, "eos", "idle")
  /\ eos' = TRUE
  /\ UNCHANGED <<client, src, fifo, capture, m2m, feeding, drainDue, flags, tally>>

\* vdec_wait_inactive: no interrupt for 50 ms, as when all is decoded, or when the
\* decoder waits for a CAPTURE buffer that does not come; or the deadline.
DrainInactive(t) ==
  /\ Moves(t, "idle", "last")
  /\ Decodable => ~ Prompt \/ (queued = 0 /\ Blocked)
  /\ UNCHANGED <<client, input, capture, m2m, feeding, drainDue, flags, tally>>

\* Mutant: a LAST, whether or not one went out.
DrainLastAgain(t) ==
  /\ Moves(t, "last", "mark")
  /\ GiveLast(queued) /\ done' = WithLast(queued, done)
  /\ UNCHANGED <<client, input, m2m, feeding, drainDue, draining, should_stop,
                 esparser_queued_bufs, bounds>>

\* amvdec_drain_empty_last: unless the last picture's interrupt gave it.
DrainLast(t) ==
  /\ Moves(t, "last", "mark")
  /\ IF has_stopped
     THEN UNCHANGED <<capture, last_pending, has_stopped, lasts>>
     ELSE GiveLast(queued) /\ done' = WithLast(queued, done)
  /\ UNCHANGED <<client, input, m2m, feeding, drainDue, draining, should_stop,
                 esparser_queued_bufs, bounds>>

DrainMark(t) ==
  /\ Moves(t, "mark", "drained")
  /\ has_stopped' = TRUE
  /\ UNCHANGED <<client, input, capture, m2m, feeding, drainDue, draining,
                 should_stop, last_pending, tally>>

\* Mutant: the m2m core is told of the job's end only when it was not the last.
JobFinishUnlessDrained ==
  /\ drainAt["feed"] \in {"drained", "refused"}
  /\ drainAt' = [drainAt EXCEPT !["feed"] = "no"]
  /\ feedAt' = "rest"
  /\ trans' = FALSE
  /\ UNCHANGED <<client, input, capture, job, feedDue, drainDue, flags, tally>>

\* v4l2_m2m_job_finish, which schedules the next.
JobFinish ==
  /\ drainAt["feed"] \in {"drained", "refused"}
  /\ drainAt' = [drainAt EXCEPT !["feed"] = "no"]
  /\ feedAt' = "rest"
  /\ TrySchedule(FALSE, src, has_stopped)
  /\ UNCHANGED <<client, input, capture, drainDue, flags, tally>>

\* vdec_m2m_drain_work returns.
DrainEnd ==
  /\ drainAt["drain"] \in {"drained", "refused"}
  /\ drainAt' = [drainAt EXCEPT !["drain"] = "no"]
  /\ IF drainAt["drain"] = "refused"
     THEN TrySchedule(trans, src, has_stopped)
     ELSE UNCHANGED <<m2m, feedDue>>
  /\ UNCHANGED <<client, input, capture, feedAt, drainDue, flags, tally>>

\* vdec_m2m_job_abort returns: the m2m core lets go of the job.
AbortEnd ==
  /\ drainAt["client"] \in {"drained", "refused"}
  /\ drainAt' = [drainAt EXCEPT !["client"] = "no"]
  /\ trans' = FALSE
  /\ UNCHANGED <<client, input, capture, job, feeding, drainDue, flags, tally>>

-----------------------------------------------------------------------------
(* The decoder.                                                            *)

Skip ==
  /\ Decodable /\ Head(fifo) = "none"
  /\ fifo' = Tail(fifo)
  /\ UNCHANGED <<client, src, eos, capture, m2m, feeding, drain, flags, tally>>

\* dst_buf_done: the last picture of a stream that stops brings the LAST.
PictureDone ==
  /\ Decodable /\ Head(fifo) = "picture" /\ queued > 0
  /\ fifo' = Tail(fifo)
  /\ IF should_stop /\ esparser_queued_bufs <= 1
     THEN /\ GiveLast(queued - 1)
          /\ done' = WithLast(queued - 1, Append(done, "picture"))
     ELSE /\ queued' = queued - 1
          /\ done' = Append(done, "picture")
          /\ UNCHANGED <<last_pending, has_stopped, lasts>>
  /\ esparser_queued_bufs' = esparser_queued_bufs - 1
  /\ feedDue' = (feedDue \/ job = "running")
  /\ UNCHANGED <<client, src, eos, m2m, feedAt, drain, draining, should_stop, bounds>>

-----------------------------------------------------------------------------
(* The client, one ioctl at a time.                                        *)

\* QBUF of an OUTPUT buffer: vdec_vb2_buf_queue, and the m2m core's look.
QueueInput(i) ==
  /\ client = "playing" /\ fed < Inputs
  /\ fed' = fed + 1
  /\ src' = Append(src, i)
  /\ IF job = "running"
     THEN feedDue' = TRUE /\ UNCHANGED m2m
     ELSE TrySchedule(trans, src', has_stopped)
  /\ UNCHANGED <<client, fifo, eos, capture, feedAt, drain, flags,
                 esparser_queued_bufs, stops, seeks, lasts>>

\* DQBUF of a CAPTURE buffer. One flagged LAST ends the stream that was stopped.
Take ==
  /\ client \in {"playing", "stopped"} /\ ~ Blocked
  /\ done # <<>>
  /\ done' = Tail(done)
  /\ client' = IF Head(done) = "last" /\ client = "stopped" THEN "ended" ELSE client
  /\ UNCHANGED <<input, queued, m2m, feeding, drain, flags, tally>>

\* QBUF of a CAPTURE buffer: it carries the LAST that waits for one.
Return ==
  /\ client \in {"playing", "stopped"} /\ ~ Blocked /\ Held > 0
  /\ IF last_pending
     THEN /\ GiveLast(queued + 1) /\ done' = WithLast(queued + 1, done)
          /\ UNCHANGED feedDue
     ELSE /\ queued' = queued + 1
          /\ feedDue' = (feedDue \/ job = "running")
          /\ UNCHANGED <<done, last_pending, has_stopped, lasts>>
  /\ UNCHANGED <<client, input, m2m, feedAt, drain, draining, should_stop,
                 esparser_queued_bufs, bounds>>

\* Mutant: the drain runs inside the ioctl.
StopAndDrain ==
  /\ client = "playing" /\ stops < Stops /\ ~ Blocked
  /\ stops' = stops + 1
  /\ client' = "stopped"
  /\ draining' = TRUE
  /\ drainAt' = [drainAt EXCEPT !["client"] = "check"]
  /\ UNCHANGED <<input, capture, m2m, feeding, drainDue, should_stop, last_pending,
                 has_stopped, esparser_queued_bufs, fed, seeks, lasts>>

\* STOP: with input under way the drain is left to the worker. Without any, the
\* stream is marked stopped, and amvdec_drain_empty_last gives no LAST.
Stop ==
  /\ client = "playing" /\ stops < Stops
  /\ stops' = stops + 1
  /\ client' = "stopped"
  /\ IF src # <<>> \/ esparser_queued_bufs > 0 \/ job # "idle"
     THEN /\ draining' = TRUE /\ drainDue' = TRUE
          /\ UNCHANGED <<should_stop, has_stopped, eos>>
     ELSE /\ should_stop' = TRUE /\ has_stopped' = TRUE /\ eos' = TRUE
          /\ UNCHANGED <<draining, drainDue>>
  /\ UNCHANGED <<src, fifo, capture, m2m, feeding, drainAt, last_pending,
                 esparser_queued_bufs, fed, seeks, lasts>>

\* No task is left over from the drain of the stream so far.
Settled == ~ draining /\ ~ drainDue /\ \A t \in Task : drainAt[t] = "no"

\* START, once the LAST is taken.
Start ==
  /\ client = "ended"
  /\ Hasty \/ Settled
  /\ client' = "playing"
  /\ eos' = FALSE
  /\ draining' = FALSE /\ should_stop' = FALSE
  /\ last_pending' = FALSE /\ has_stopped' = FALSE
  /\ UNCHANGED <<src, fifo, capture, m2m, feeding, drain, tally>>

\* v4l2_m2m_cancel_job: a job under way is aborted (vdec_m2m_job_abort), unless
\* its work is completing it.
Cancel ==
  IF trans /\ job = "running"
  THEN /\ feedDue' = FALSE
       /\ job' = "idle"
       /\ drainAt' = [drainAt EXCEPT !["client"] = "check"]
  ELSE UNCHANGED <<feedDue, job, drainAt>>

SeekOff ==
  /\ client \in {"playing", "stopped", "ended"} /\ seeks < Seeks
  /\ Hasty \/ Settled
  /\ seeks' = seeks + 1
  /\ client' = "seeking"
  /\ Cancel
  /\ UNCHANGED <<input, capture, trans, feedAt, drainDue, flags, esparser_queued_bufs,
                 fed, stops, lasts>>

\* STREAMOFF has waited for the job; both queues are emptied, the decoder is
\* powered off and, as both stream again with every CAPTURE buffer queued, on.
\* The stream's end is left to the client's START.
SeekOn ==
  /\ client = "seeking" /\ ~ Blocked /\ ~ trans
  /\ client' = "playing"
  /\ src' = <<>> /\ fifo' = <<>> /\ eos' = FALSE
  /\ queued' = Buffers /\ done' = <<>>
  /\ should_stop' = FALSE /\ last_pending' = FALSE
  /\ IF Restarts
     THEN draining' = FALSE /\ has_stopped' = FALSE
     ELSE UNCHANGED <<draining, has_stopped>>
  /\ esparser_queued_bufs' = 0
  /\ UNCHANGED <<m2m, feeding, drain, bounds, lasts>>

\* Mutant: the drain is not cancelled before the queues are released.
CloseAtOnce ==
  /\ client \in {"playing", "stopped", "ended"} /\ ~ Blocked
  /\ client' = "closing"
  /\ Cancel
  /\ UNCHANGED <<input, capture, trans, feedAt, drainDue, flags, tally>>

\* vdec_close: cancel_work_sync of the drain, which may take as long as a drain
\* does; then the m2m context is released as a STREAMOFF of both queues.
Close ==
  /\ client \in {"playing", "stopped", "ended"}
  /\ drainAt["drain"] = "no"
  /\ drainDue' = FALSE
  /\ client' = "closing"
  /\ Cancel
  /\ UNCHANGED <<input, capture, trans, feedAt, flags, tally>>

Release ==
  /\ client = "closing" /\ ~ Blocked /\ ~ trans
  /\ client' = "released"
  /\ src' = <<>> /\ fifo' = <<>>
  /\ queued' = 0 /\ done' = <<>>
  /\ UNCHANGED <<eos, m2m, feeding, drain, flags, tally>>

\* cancel_work_sync of the feeding work; the session is freed.
Free ==
  /\ client = "released" /\ feedAt = "rest"
  /\ feedDue' = FALSE
  /\ client' = "closed"
  /\ UNCHANGED <<input, capture, m2m, feedAt, drain, flags, tally>>

-----------------------------------------------------------------------------
DrainStep(t) ==
  \/ DrainCheck(t) \/ DrainEos(t) \/ DrainInactive(t) \/ DrainLast(t) \/ DrainMark(t)

Feed == FeedBegin \/ FeedOne \/ FeedYield \/ FeedComplete \/ DrainStep("feed") \/ JobFinish
Drain == DrainBegin \/ DrainStep("drain") \/ DrainEnd
Abort == DrainStep("client") \/ AbortEnd
Decode == Skip \/ PictureDone

Next ==
  \/ Feed \/ Drain \/ Abort \/ Decode
  \/ \E i \in Input : QueueInput(i)
  \/ Take \/ Return \/ Stop \/ Start
  \/ SeekOff \/ SeekOn \/ Close \/ Release \/ Free

Spec == Init /\ [][Next]_vars

\* Work that is queued runs, the decoder decodes, the client takes what is done
\* and returns it, and a call it makes goes on. Nothing makes it queue input,
\* stop, seek, or close.
FairSpec ==
  /\ Spec
  /\ WF_vars(Feed) /\ WF_vars(Drain) /\ WF_vars(Abort) /\ WF_vars(Decode)
  /\ WF_vars(Take) /\ WF_vars(Return)
  /\ WF_vars(SeekOn) /\ WF_vars(Release) /\ WF_vars(Free)

-----------------------------------------------------------------------------
\* The LAST comes last: once it is out, no picture of the stream waits to be
\* parsed or decoded (vdec.h's "finish queued input before completing a decoder
\* stop command").
LastComesLast ==
  client \in {"stopped", "ended"} /\ (has_stopped /\ lasts > 0) /\
     (client = "ended" \/ \E i \in DOMAIN done : done[i] = "last")
  => Pictures(src) + Pictures(fifo) = 0

\* A STOP brings one LAST at most, and nothing else does, whichever of the last
\* picture's interrupt, the drain and the next CAPTURE buffer gives it.
OneLastPerStop == lasts <= stops

\* Once the queues are released, neither the drain nor the completion of a job
\* is under way or to come: they would use the freed context.
NothingAfterRelease ==
  client \in {"released", "closed"} =>
    /\ ~ drainDue /\ \A t \in Task : drainAt[t] = "no"
    /\ feedAt \notin {"complete", "drain"}
    /\ client = "closed" => feedAt = "rest" /\ ~ feedDue

\* A STOP with input under way is answered: the client gets its LAST.
StopIsAnswered == client = "stopped" /\ draining ~> client # "stopped"

\* Input does not stay queued: the job is scheduled again, and a full VIFIFO
\* is tried again.
InputIsParsed == src # <<>> ~> src = <<>>
=============================================================================
