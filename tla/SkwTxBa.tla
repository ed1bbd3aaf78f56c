------------------------------- MODULE SkwTxBa -------------------------------
(***************************************************************************)
(* Transmit block-ack sessions of an SWT6621S: what the driver claims of    *)
(* each traffic class, the works it queues, the events the firmware sends,  *)
(* and the check that finds a session the firmware dropped without one.     *)
(*                                                                         *)
(* From patches/seekwave-swt6621s/0002; of the driver it patches, and of    *)
(* the firmware, what it and research/seekwave-tx-latch-bug say. Time is a  *)
(* deadline that may pass at any moment.                                    *)
(***************************************************************************)
EXTENDS Naturals, Sequences

CONSTANTS
  Tid,        \* the traffic classes
  None,       \* none of them
  He,         \* the peer's downlink runs HE
  WorkRoom,   \* bound: the works that can be queued
  EventRoom   \* bound: the events under way

ASSUME NoneIsNoClass == None \notin Tid

VARIABLES
  joined,    \* there is a peer
  claim,     \* txba.bitmap and txba.stale: no session, one, or one of long
  barred,    \* txba.blacklist and txba.tx_timeout
  apart,     \* the rates a probe will judge by: legacy up, not legacy down
  work,      \* the works queued, in order
  probing,   \* the class whose probe has its rates, if any
  session,   \* the firmware's sessions
  events,    \* its events, in order
  sent,      \* the class it sent its last frame of
  silent     \* the classes whose session it dropped with no event since

driver == <<claim, barred, apart, work, probing>>
firmware == <<session, events, sent, silent>>
vars == <<joined, driver, firmware>>

Setup(t) == [id |-> "SKW_WORK_SETUP_TXBA", tid |-> t]
Probe(t) == [id |-> "SKW_WORK_TXBA_PROBE", tid |-> t]
Event(kind, t) == [id |-> kind, tid |-> t]

Init ==
  /\ joined = TRUE
  /\ claim = [t \in Tid |-> "none"]
  /\ barred = [t \in Tid |-> "no"]
  /\ apart = FALSE
  /\ work = <<>> /\ probing = None
  /\ session = [t \in Tid |-> "none"]
  /\ events = <<>> /\ sent \in Tid /\ silent = {}

Room == Len(work) < WorkRoom

-----------------------------------------------------------------------------
(* skw_setup_txba, at every frame sent.                                    *)

\* Mutant: a claimed session is never looked at, as before the patch.
ClaimedForGood(t) ==
  /\ claim[t] # "none"
  /\ UNCHANGED <<claim, work, barred>>

\* A claimed session: of long, it is to be looked at, once an interval.
Claimed(t) ==
  /\ claim[t] # "none"
  /\ IF claim[t] = "stale"
     THEN /\ claim' = [claim EXCEPT ![t] = "fresh"]
          /\ work' = IF Room THEN Append(work, Probe(t)) ELSE work
     ELSE UNCHANGED <<claim, work>>
  /\ UNCHANGED barred

Unclaimed(t) ==
  /\ claim[t] = "none"
  /\ IF barred[t] = "held" THEN UNCHANGED <<claim, work, barred>>
     ELSE /\ barred' = [barred EXCEPT ![t] = "no"]
          /\ \/ /\ Room
                /\ work' = Append(work, Setup(t))
                /\ claim' = [claim EXCEPT ![t] = "fresh"]
             \/ UNCHANGED <<work, claim>>

Frame(t) ==
  /\ joined
  /\ Claimed(t) \/ Unclaimed(t)
  /\ sent' = t
  /\ UNCHANGED <<joined, apart, probing, session, events, silent>>

\* txba_stale_sec or the time of a refused class has passed.
Passes(t) ==
  /\ \/ claim[t] = "fresh" /\ claim' = [claim EXCEPT ![t] = "stale"] /\ UNCHANGED barred
     \/ barred[t] = "held" /\ barred' = [barred EXCEPT ![t] = "over"] /\ UNCHANGED claim
  /\ UNCHANGED <<joined, apart, work, probing, firmware>>

-----------------------------------------------------------------------------
(* skw_work_process: the works, one at a time.                             *)

\* skw_get_station: the rate of the last frame sent, whatever its class.
Rates == He /\ session[sent] # "up"

\* The peer's rates are asked for, and its lock not held.
ProbeAsks ==
  /\ probing = None /\ work # <<>> /\ Head(work).id = "SKW_WORK_TXBA_PROBE"
  /\ joined
  /\ work' = Tail(work)
  /\ probing' = Head(work).tid
  /\ apart' = Rates
  /\ UNCHANGED <<joined, claim, barred, firmware>>

\* No peer, or the command fails.
ProbeGivesUp ==
  /\ probing = None /\ work # <<>> /\ Head(work).id = "SKW_WORK_TXBA_PROBE"
  /\ work' = Tail(work)
  /\ UNCHANGED <<joined, claim, barred, apart, probing, firmware>>

\* The rates are judged, under the lock.
ProbeJudges ==
  /\ probing # None
  /\ claim' = IF joined /\ apart THEN [claim EXCEPT ![probing] = "none"] ELSE claim
  /\ probing' = None /\ apart' = FALSE
  /\ UNCHANGED <<joined, barred, work, firmware>>

\* ADD_TX_BA is sent; of a session that stands too.
SetupSent ==
  /\ probing = None /\ work # <<>> /\ Head(work).id = "SKW_WORK_SETUP_TXBA"
  /\ work' = Tail(work)
  /\ LET t == Head(work).tid
     IN  IF joined THEN /\ session' = [session EXCEPT ![t] = "asked"]
                        /\ silent' = silent \ {t}
         ELSE UNCHANGED <<session, silent>>
  /\ UNCHANGED <<joined, claim, barred, apart, probing, events, sent>>

\* Mutant: a set-up that was not sent stays claimed.
SetupLost ==
  /\ probing = None /\ work # <<>> /\ Head(work).id = "SKW_WORK_SETUP_TXBA"
  /\ work' = Tail(work)
  /\ UNCHANGED <<joined, claim, barred, apart, probing, firmware>>

\* skw_send_msg fails.
SetupFails ==
  /\ probing = None /\ work # <<>> /\ Head(work).id = "SKW_WORK_SETUP_TXBA"
  /\ work' = Tail(work)
  /\ claim' = [claim EXCEPT ![Head(work).tid] = "none"]
  /\ UNCHANGED <<joined, barred, apart, probing, firmware>>

\* Somebody else asks for the rates in between: iw, or a network manager.
OthersAsk ==
  /\ joined /\ probing # None
  /\ apart' = Rates
  /\ UNCHANGED <<joined, claim, barred, work, probing, firmware>>

\* SKW_EVENT_BA_ACTION: a refusal bars the class for a while. That of a success is
\* not looked at, and left out.
Handled ==
  /\ events # <<>>
  /\ events' = Tail(events)
  /\ LET e == Head(events)
     IN  /\ claim' = IF joined THEN [claim EXCEPT ![e.tid] = "none"] ELSE claim
         /\ barred' = IF joined /\ e.id = "refused" THEN [barred EXCEPT ![e.tid] = "held"]
                      ELSE barred
  /\ UNCHANGED <<joined, apart, work, probing, session, sent, silent>>

-----------------------------------------------------------------------------
(* The firmware.                                                           *)

Tell(kind, t) == Len(events) < EventRoom /\ events' = Append(events, Event(kind, t))

Answers(t) ==
  /\ session[t] = "asked"
  /\ \/ UNCHANGED events /\ session' = [session EXCEPT ![t] = "up"]
     \/ Tell("refused", t) /\ session' = [session EXCEPT ![t] = "none"]
  /\ UNCHANGED <<joined, driver, sent, silent>>

\* DEL_TX_BA, every few seconds.
Ends(t) ==
  /\ session[t] = "up"
  /\ Tell("ended", t)
  /\ session' = [session EXCEPT ![t] = "none"]
  /\ UNCHANGED <<joined, driver, sent, silent>>

DropsSilently(t) ==
  /\ session[t] = "up"
  /\ session' = [session EXCEPT ![t] = "none"]
  /\ silent' = silent \union {t}
  /\ UNCHANGED <<joined, driver, events, sent>>

Leaves ==
  /\ joined
  /\ joined' = FALSE
  /\ session' = [t \in Tid |-> "none"]
  /\ silent' = {}
  /\ UNCHANGED <<driver, events, sent>>

\* A new association's peer begins from zeros; works and events go by its index.
Joins ==
  /\ ~ joined
  /\ joined' = TRUE
  /\ claim' = [t \in Tid |-> "none"]
  /\ barred' = [t \in Tid |-> "no"]
  /\ apart' = FALSE
  /\ UNCHANGED <<work, probing, firmware>>

-----------------------------------------------------------------------------
Driver == ProbeAsks \/ ProbeGivesUp \/ ProbeJudges \/ SetupSent \/ SetupFails

Next ==
  \/ \E t \in Tid : Frame(t) \/ Passes(t) \/ Answers(t) \/ Ends(t) \/ DropsSilently(t)
  \/ Driver \/ OthersAsk \/ Handled \/ Leaves \/ Joins

Spec == Init /\ [][Next]_vars

\* The works run, and not all of a kind fail; events are handled; time passes; the
\* firmware answers.
FairSpec ==
  /\ Spec
  /\ WF_vars(Driver) /\ WF_vars(Handled)
  /\ SF_vars(ProbeAsks) /\ SF_vars(SetupSent)
  /\ \A t \in Tid : WF_vars(Passes(t)) /\ WF_vars(Answers(t))

-----------------------------------------------------------------------------
Queued(t) == \E i \in DOMAIN work : work[i] = Setup(t)

Coming(t) == \E i \in DOMAIN events : events[i].tid = t

\* What the driver claims of a class stands, is being set up, or is about to be
\* told away: only a session dropped in silence is claimed with nothing to end it,
\* whatever else fails or crosses.
ClaimIsBacked ==
  joined => \A t \in Tid :
    claim[t] # "none" => session[t] # "none" \/ Queued(t) \/ Coming(t) \/ t \in silent

\* A class that keeps sending asks again for a session dropped in silence, though
\* the driver believes in it ("the bit stands ... and that TID never renegotiates",
\* 0002:12), when its peer stays and nothing else is sent.
DroppedIsAskedAgain ==
  \A t \in Tid :
    WF_vars(Frame(t)) /\ <>[](joined /\ sent = t) => (t \in silent ~> t \notin silent)
=============================================================================
