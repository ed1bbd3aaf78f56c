---------------------------- MODULE SkwTxBaProofs ----------------------------
(***************************************************************************)
(* Of SkwTxBa, for any traffic classes and queues of any length: what the   *)
(* driver claims of a class stands, is being set up or is about to be told  *)
(* away, but for a session dropped in silence.                              *)
(***************************************************************************)
EXTENDS SkwTxBa, SequenceTheorems, TLAPS

Work == [id : {"SKW_WORK_SETUP_TXBA", "SKW_WORK_TXBA_PROBE"}, tid : Tid]
FirmwareEvent == [id : {"refused", "ended"}, tid : Tid]

TypeOK ==
  /\ joined \in BOOLEAN
  /\ claim \in [Tid -> {"none", "fresh", "stale"}]
  /\ barred \in [Tid -> {"no", "held", "over"}]
  /\ apart \in BOOLEAN
  /\ work \in Seq(Work)
  /\ probing \in Tid \cup {None}
  /\ session \in [Tid -> {"none", "asked", "up"}]
  /\ events \in Seq(FirmwareEvent)
  /\ silent \subseteq Tid

\* A class's claim has something to end it, or nothing to end: ClaimIsBacked, of
\* one class.
Backed(t) ==
  claim[t] # "none" => session[t] # "none" \/ Queued(t) \/ Coming(t) \/ t \in silent

IInv == TypeOK /\ (joined => \A t \in Tid : Backed(t))

-----------------------------------------------------------------------------
(* Queues: what is appended comes after what is there, which stays until it *)
(* is the first and is taken.                                               *)

LEMMA Appended ==
  ASSUME NEW S, NEW s \in Seq(S), NEW e \in S
  PROVE  /\ Append(s, e) \in Seq(S)
         /\ \A i \in DOMAIN s : i \in DOMAIN Append(s, e) /\ Append(s, e)[i] = s[i]
         /\ \E i \in DOMAIN Append(s, e) : Append(s, e)[i] = e
<1>1. /\ Append(s, e) \in Seq(S) /\ Len(Append(s, e)) = Len(s) + 1
      /\ \A i \in 1..Len(s) : Append(s, e)[i] = s[i]
      /\ Append(s, e)[Len(s) + 1] = e
  BY AppendProperties
<1>2. DOMAIN s = 1..Len(s) /\ DOMAIN Append(s, e) = 1..(Len(s) + 1) /\ Len(s) \in Nat
  BY <1>1, LenProperties
<1> QED
  BY <1>1, <1>2

LEMMA Taken ==
  ASSUME NEW S, NEW s \in Seq(S), s # <<>>
  PROVE  /\ Tail(s) \in Seq(S) /\ Head(s) \in S
         /\ \A i \in DOMAIN s : s[i] # Head(s) =>
              \E j \in DOMAIN Tail(s) : Tail(s)[j] = s[i]
<1>1. /\ Tail(s) \in Seq(S) /\ Head(s) \in S /\ Len(Tail(s)) = Len(s) - 1
      /\ \A i \in 1..Len(Tail(s)) : Tail(s)[i] = s[i + 1]
  BY HeadTailProperties
<1>2. DOMAIN s = 1..Len(s) /\ DOMAIN Tail(s) = 1..(Len(s) - 1) /\ Len(s) \in Nat
  BY <1>1, LenProperties
<1>3. Head(s) = s[1]
  OBVIOUS
<1>4. ASSUME NEW i \in DOMAIN s, s[i] # Head(s)
      PROVE  i - 1 \in DOMAIN Tail(s) /\ Tail(s)[i - 1] = s[i]
  BY <1>1, <1>2, <1>3, <1>4
<1> QED
  BY <1>1, <1>4

\* A set-up that is queued stays so while works are queued behind it.
LEMMA WorkQueued ==
  ASSUME TypeOK, NEW w \in Work, work' = Append(work, w)
  PROVE  /\ work' \in Seq(Work)
         /\ \A t \in Tid : Queued(t) => Queued(t)'
         /\ \A t \in Tid : w = Setup(t) => Queued(t)'
BY Appended DEF TypeOK, Queued, Setup

\* Taking a work leaves every other set-up queued.
LEMMA WorkTaken ==
  ASSUME TypeOK, work # <<>>, work' = Tail(work)
  PROVE  /\ work' \in Seq(Work) /\ Head(work) \in Work
         /\ \A t \in Tid : Queued(t) /\ Head(work) # Setup(t) => Queued(t)'
<1>1. work \in Seq(Work)
  BY DEF TypeOK
<1>2. /\ Tail(work) \in Seq(Work) /\ Head(work) \in Work
      /\ \A i \in DOMAIN work : work[i] # Head(work) =>
           \E j \in DOMAIN Tail(work) : Tail(work)[j] = work[i]
  BY <1>1, Taken
<1>3. ASSUME NEW t \in Tid, Queued(t), Head(work) # Setup(t)
      PROVE  Queued(t)'
  <2>1. PICK i \in DOMAIN work : work[i] = Setup(t)
    BY <1>3 DEF Queued
  <2>2. PICK j \in DOMAIN Tail(work) : Tail(work)[j] = Setup(t)
    BY <1>2, <1>3, <2>1
  <2> QED
    BY <2>2 DEF Queued, Setup
<1> QED
  BY <1>2, <1>3

LEMMA EventSent ==
  ASSUME TypeOK, NEW t \in Tid, NEW kind \in {"refused", "ended"}, Tell(kind, t)
  PROVE  /\ events' \in Seq(FirmwareEvent)
         /\ Coming(t)' /\ \A u \in Tid : Coming(u) => Coming(u)'
<1> DEFINE e == Event(kind, t)
<1>1. e \in FirmwareEvent /\ e.tid = t
  BY DEF Event, FirmwareEvent
<1>2. events \in Seq(FirmwareEvent) /\ events' = Append(events, e)
  BY DEF TypeOK, Tell
<1> HIDE DEF e
<1>3. /\ Append(events, e) \in Seq(FirmwareEvent)
      /\ \A i \in DOMAIN events :
           i \in DOMAIN Append(events, e) /\ Append(events, e)[i] = events[i]
      /\ \E i \in DOMAIN Append(events, e) : Append(events, e)[i] = e
  BY <1>1, <1>2, Appended
<1>4. Coming(t)'
  BY <1>1, <1>2, <1>3 DEF Coming
<1>5. ASSUME NEW u \in Tid, Coming(u) PROVE Coming(u)'
  <2>1. PICK i \in DOMAIN events : events[i].tid = u
    BY <1>5 DEF Coming
  <2> QED
    BY <1>2, <1>3, <2>1 DEF Coming
<1> QED
  BY <1>2, <1>3, <1>4, <1>5

LEMMA EventTaken ==
  ASSUME TypeOK, events # <<>>, events' = Tail(events)
  PROVE  /\ events' \in Seq(FirmwareEvent) /\ Head(events) \in FirmwareEvent
         /\ \A t \in Tid : Coming(t) /\ Head(events).tid # t => Coming(t)'
BY Taken DEF TypeOK, Coming

\* What stays as it is, for one class.
LEMMA StillBacked ==
  ASSUME NEW t \in Tid, Backed(t),
         claim'[t] = claim[t] \/ claim'[t] = "none" \/ claim[t] # "none",
         session[t] # "none" => session'[t] # "none" \/ Coming(t)' \/ t \in silent',
         Queued(t) => Queued(t)' \/ session'[t] # "none",
         Coming(t) => Coming(t)',
         t \in silent => t \in silent' \/ session'[t] # "none"
  PROVE  Backed(t)'
BY DEF Backed

-----------------------------------------------------------------------------
(* One lemma for each group of actions.                                    *)

LEMMA FrameKeeps ==
  ASSUME IInv, NEW u \in Tid, Frame(u)
  PROVE  IInv'
<1> USE DEF IInv
<1>1. UNCHANGED <<joined, apart, probing, session, events, silent>> /\ joined
  BY DEF Frame
<1>2. Setup(u) \in Work /\ Probe(u) \in Work
  BY DEF Setup, Probe, Work
<1>3. \A t \in Tid : Coming(t) => Coming(t)'
  BY <1>1 DEF Coming
<1>4. /\ work' \in Seq(Work)
      /\ \A t \in Tid : Queued(t) => Queued(t)'
  <2>1. CASE work' = work
    BY <2>1 DEF TypeOK, Queued
  <2>2. CASE work' = Append(work, Setup(u)) \/ work' = Append(work, Probe(u))
    BY <2>2, <1>2, WorkQueued
  <2> QED
    BY <2>1, <2>2 DEF Frame, Claimed, Unclaimed
<1>5. /\ claim' \in [Tid -> {"none", "fresh", "stale"}]
      /\ \A t \in Tid : t # u => claim'[t] = claim[t]
      /\ claim'[u] # claim[u] => claim[u] # "none" \/ work' = Append(work, Setup(u))
  BY DEF Frame, Claimed, Unclaimed, TypeOK
<1>6. barred' \in [Tid -> {"no", "held", "over"}]
  BY DEF Frame, Claimed, Unclaimed, TypeOK
<1>7. TypeOK'
  BY <1>1, <1>4, <1>5, <1>6 DEF TypeOK
<1>8. ASSUME NEW t \in Tid PROVE Backed(t)'
  <2>1. CASE work' = Append(work, Setup(u)) /\ t = u
    BY <2>1, <1>2, WorkQueued DEF Backed
  <2>2. CASE claim'[t] = claim[t] \/ claim[t] # "none"
    BY <2>2, <1>1, <1>3, <1>4, StillBacked
  <2> QED
    BY <2>1, <2>2, <1>5
<1> QED
  BY <1>7, <1>8

LEMMA PassesKeeps ==
  ASSUME IInv, NEW u \in Tid, Passes(u)
  PROVE  IInv'
<1> USE DEF IInv
<1>1. UNCHANGED <<joined, apart, work, probing, firmware>>
  BY DEF Passes
<1>2. TypeOK'
  BY DEF TypeOK, Passes, firmware
<1>3. ASSUME joined, NEW t \in Tid PROVE Backed(t)'
  <2>1. claim'[t] = claim[t] \/ claim[t] # "none"
    BY DEF Passes, TypeOK
  <2> QED
    BY <1>1, <1>3, <2>1, StillBacked DEF Queued, Coming, firmware
<1> QED
  BY <1>1, <1>2, <1>3

\* The probe only takes claims back; a set-up that is sent is asked, one that fails
\* is not claimed.
LEMMA WorkKeeps ==
  ASSUME IInv, Driver
  PROVE  IInv'
<1> USE DEF IInv
<1>1. CASE ProbeJudges
  <2>1. TypeOK'
    BY <1>1 DEF TypeOK, ProbeJudges, firmware
  <2>2. ASSUME joined, NEW t \in Tid PROVE Backed(t)'
    <3>1. claim'[t] = claim[t] \/ claim'[t] = "none"
      BY <1>1 DEF ProbeJudges, TypeOK
    <3> QED
      BY <1>1, <2>2, <3>1, StillBacked DEF ProbeJudges, Queued, Coming, firmware
  <2> QED
    BY <1>1, <2>1, <2>2 DEF ProbeJudges
<1>2. CASE ProbeAsks \/ ProbeGivesUp
  <2>1. /\ work # <<>> /\ work' = Tail(work) /\ Head(work).id = "SKW_WORK_TXBA_PROBE"
        /\ UNCHANGED <<joined, claim, barred, session, events, silent>>
    BY <1>2 DEF ProbeAsks, ProbeGivesUp, firmware
  <2>2. work' \in Seq(Work) /\ Head(work) \in Work
    BY <2>1, WorkTaken
  <2>3. apart' \in BOOLEAN
    BY <1>2 DEF ProbeAsks, ProbeGivesUp, Rates, TypeOK
  <2>4. probing' \in Tid \cup {None}
    BY <1>2, <2>2 DEF ProbeAsks, ProbeGivesUp, TypeOK, Work
  <2>5. TypeOK'
    BY <2>1, <2>2, <2>3, <2>4 DEF TypeOK
  <2>6. ASSUME joined, NEW t \in Tid PROVE Backed(t)'
    <3>1. Head(work) # Setup(t)
      BY <2>1 DEF Setup
    <3>2. Queued(t) => Queued(t)'
      BY <2>1, <3>1, WorkTaken
    <3> QED
      BY <2>1, <2>6, <3>2, StillBacked DEF Coming
  <2> QED
    BY <2>1, <2>5, <2>6
<1>3. CASE SetupSent \/ SetupFails
  <2> DEFINE u == Head(work).tid
  <2>1. /\ work # <<>> /\ work' = Tail(work)
        /\ UNCHANGED <<joined, barred, apart, probing, events>>
    BY <1>3 DEF SetupSent, SetupFails, firmware
  <2>2. work' \in Seq(Work) /\ Head(work) \in Work /\ u \in Tid
    BY <2>1, WorkTaken DEF Work
  <2>3. \A t \in Tid : Head(work) = Setup(t) => t = u
    BY DEF Setup
  <2>4. \/ /\ claim' = claim
           /\ IF joined THEN /\ session' = [session EXCEPT ![u] = "asked"]
                             /\ silent' = silent \ {u}
              ELSE UNCHANGED <<session, silent>>
        \/ /\ claim' = [claim EXCEPT ![u] = "none"]
           /\ UNCHANGED <<session, silent>>
    BY <1>3 DEF SetupSent, SetupFails, firmware
  <2>5. TypeOK'
    BY <2>1, <2>2, <2>4 DEF TypeOK
  <2>6. ASSUME joined, NEW t \in Tid PROVE Backed(t)'
    <3>1. t # u /\ Queued(t) => Queued(t)'
      BY <2>1, <2>3, WorkTaken
    <3>2. CASE t = u
      BY <2>2, <2>4, <2>6, <3>2 DEF Backed, TypeOK
    <3>3. CASE t # u
      BY <2>1, <2>2, <2>4, <2>6, <3>1, <3>3, StillBacked DEF TypeOK, Coming
    <3> QED
      BY <3>2, <3>3
  <2> QED
    BY <2>1, <2>5, <2>6
<1> QED
  BY <1>1, <1>2, <1>3 DEF Driver

LEMMA HandledKeeps ==
  ASSUME IInv, Handled
  PROVE  IInv'
<1> USE DEF IInv
<1> DEFINE u == Head(events).tid
<1>1. /\ events # <<>> /\ events' = Tail(events)
      /\ UNCHANGED <<joined, apart, work, probing, session, silent>>
      /\ claim' = IF joined THEN [claim EXCEPT ![u] = "none"] ELSE claim
  BY DEF Handled
<1>2. events' \in Seq(FirmwareEvent) /\ u \in Tid
  BY <1>1, EventTaken DEF FirmwareEvent
<1>3. barred' \in [Tid -> {"no", "held", "over"}]
  BY <1>2 DEF Handled, TypeOK
<1>4. TypeOK'
  BY <1>1, <1>2, <1>3 DEF TypeOK
<1>5. ASSUME joined, NEW t \in Tid PROVE Backed(t)'
  <2>1. CASE t = u
    BY <1>1, <1>2, <1>5, <2>1 DEF Backed, TypeOK
  <2>2. CASE t # u
    <3>1. Coming(t) => Coming(t)'
      BY <1>1, <2>2, EventTaken
    <3> QED
      BY <1>1, <1>2, <1>5, <2>2, <3>1, StillBacked DEF TypeOK, Queued
  <2> QED
    BY <2>1, <2>2
<1> QED
  BY <1>1, <1>4, <1>5

\* A session ends with an event under way, or in silence.
LEMMA FirmwareKeeps ==
  ASSUME IInv, NEW u \in Tid, Answers(u) \/ Ends(u) \/ DropsSilently(u)
  PROVE  IInv'
<1> USE DEF IInv
<1>1. UNCHANGED <<joined, claim, barred, apart, work, probing>>
  BY DEF Answers, Ends, DropsSilently, driver
<1>2. CASE UNCHANGED events
  <2>1. /\ session' \in [Tid -> {"none", "asked", "up"}] /\ silent' \subseteq Tid
        /\ silent \subseteq silent'
        /\ \A t \in Tid : session[t] # "none" => session'[t] # "none" \/ t \in silent'
    <3>1. CASE DropsSilently(u)
      BY <3>1 DEF DropsSilently, TypeOK
    <3>2. CASE session[u] = "asked" /\ session' = [session EXCEPT ![u] = "up"] /\ silent' = silent
      BY <3>2 DEF TypeOK
    <3>3. ASSUME NEW kind \in {"refused", "ended"}, Tell(kind, u) PROVE FALSE
      <4>1. Len(Append(events, Event(kind, u))) = Len(events) + 1
        BY AppendProperties, <3>3 DEF TypeOK, Event, FirmwareEvent
      <4>2. Len(events) \in Nat
        BY DEF TypeOK
      <4> QED
        BY <1>2, <3>3, <4>1, <4>2 DEF Tell
    <3> QED
      BY <3>1, <3>2, <3>3 DEF Answers, Ends
  <2>2. TypeOK'
    BY <1>1, <1>2, <2>1 DEF TypeOK
  <2>3. ASSUME joined, NEW t \in Tid PROVE Backed(t)'
    BY <1>1, <1>2, <2>1, <2>3, StillBacked DEF Queued, Coming
  <2> QED
    BY <1>1, <2>2, <2>3
<1>3. ASSUME NEW kind \in {"refused", "ended"}, Tell(kind, u),
             session' = [session EXCEPT ![u] = "none"], silent' = silent
      PROVE  IInv'
  <2>1. /\ events' \in Seq(FirmwareEvent)
        /\ Coming(u)' /\ \A t \in Tid : Coming(t) => Coming(t)'
    BY <1>3, EventSent
  <2>2. TypeOK'
    BY <1>1, <1>3, <2>1 DEF TypeOK
  <2>3. ASSUME joined, NEW t \in Tid PROVE Backed(t)'
    <3>1. session[t] # "none" => session'[t] # "none" \/ Coming(t)'
      BY <1>3, <2>1 DEF TypeOK
    <3> QED
      BY <1>1, <1>3, <2>1, <2>3, <3>1, StillBacked DEF Queued
  <2> QED
    BY <1>1, <2>2, <2>3
<1> QED
  BY <1>2, <1>3 DEF Answers, Ends, DropsSilently

LEMMA PeerKeeps ==
  ASSUME IInv, Leaves \/ Joins \/ OthersAsk \/ UNCHANGED vars
  PROVE  IInv'
<1> USE DEF IInv
<1>1. CASE Leaves
  BY <1>1 DEF Leaves, TypeOK, driver
<1>2. CASE Joins
  BY <1>2 DEF Joins, TypeOK, Backed, firmware
<1>3. CASE OthersAsk \/ UNCHANGED vars
  <2>1. TypeOK'
    BY <1>3 DEF OthersAsk, Rates, TypeOK, vars, driver, firmware
  <2>2. /\ UNCHANGED <<joined, claim, session, silent>>
        /\ \A t \in Tid : Queued(t)' = Queued(t) /\ Coming(t)' = Coming(t)
    BY <1>3 DEF OthersAsk, vars, driver, firmware, Queued, Coming
  <2> QED
    BY <2>1, <2>2 DEF Backed
<1> QED
  BY <1>1, <1>2, <1>3

LEMMA Initially == Init => IInv
<1> SUFFICES ASSUME Init PROVE IInv
  OBVIOUS
<1>1. <<>> \in Seq(Work) /\ <<>> \in Seq(FirmwareEvent)
  OBVIOUS
<1>2. TypeOK
  BY <1>1 DEF Init, TypeOK
<1>3. \A t \in Tid : Backed(t)
  BY DEF Init, Backed
<1> QED
  BY <1>2, <1>3 DEF IInv

LEMMA Step == IInv /\ [Next]_vars => IInv'
<1> SUFFICES ASSUME IInv, [Next]_vars PROVE IInv'
  OBVIOUS
<1>1. ASSUME NEW t \in Tid, Frame(t) \/ Passes(t) PROVE IInv'
  BY <1>1, FrameKeeps, PassesKeeps
<1>2. ASSUME NEW t \in Tid, Answers(t) \/ Ends(t) \/ DropsSilently(t) PROVE IInv'
  BY <1>2, FirmwareKeeps
<1>3. CASE Driver
  BY <1>3, WorkKeeps
<1>4. CASE Handled
  BY <1>4, HandledKeeps
<1>5. CASE Leaves \/ Joins \/ OthersAsk \/ UNCHANGED vars
  BY <1>5, PeerKeeps
<1> QED
  BY <1>1, <1>2, <1>3, <1>4, <1>5 DEF Next

LEMMA Invariance == Spec => []IInv
<1> QED
  BY Initially, Step, PTL DEF Spec

-----------------------------------------------------------------------------
\* Of a joined peer the driver claims no class but one whose session stands, whose
\* set-up is queued, of which an event is under way, or whose session was dropped
\* in silence: skw_setup_txba's bit never outlives all that could clear it, however
\* long the queues and whatever fails.
THEOREM ClaimsHaveAnEnd == Spec => []ClaimIsBacked
<1>1. IInv => ClaimIsBacked
  BY DEF IInv, Backed, ClaimIsBacked
<1> QED
  BY Invariance, <1>1, PTL
=============================================================================
