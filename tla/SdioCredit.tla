----------------------------- MODULE SdioCredit -----------------------------
(***************************************************************************)
(* Transmit credit between mt76's SDIO worker and an MT7668S, which holds   *)
(* so many frames for each of two ports and returns one credit per frame:   *)
(* the rings the worker empties in a fixed order, the two pools it charges  *)
(* by the port bit of each frame, the status block it reads the credit from,*)
(* and its polling on a host without the card's interrupt line.             *)
(*                                                                         *)
(* From patches/mt76-mt7668/0001, 0003, 0008 and 0009; what they patch is    *)
(* modelled from how they use it. A reset, a suspend, a write that fails    *)
(* and a command that does, which fails the probe, are left out.            *)
(***************************************************************************)
EXTENDS Naturals, Sequences, FiniteSets

CONSTANTS
  Rings,      \* how many rings; the last is the commands' (MT_MCUQ_WM)
  McuTotal,   \* what the part holds for its mcu port (mcu_total),
  DataTotal,  \*   and for its lmac port (lmac_total)
  Seed,       \* the pool of commands as its registers give it
  Batch,      \* how many frames one write carries (xmit_buf_sz)
  Polls,      \* MT76S_TX_CREDIT_POLLS
  Frames,     \* bound: frames queued once the part is up
  SizesTold   \* the part's answer has an element with its totals, and whole

ASSUME SizesAreNumbers ==
  /\ {Rings, McuTotal, DataTotal, Seed, Batch} \subseteq Nat \ {0}
  /\ {Polls, Frames} \subseteq Nat
ASSUME SeedIsLarge == Seed >= McuTotal   \* 32 and 7

Port == {"mcu", "lmac"}
Ring == 1..Rings

VARIABLES
  ring,     \* the frames of each ring, by their port bit
  mcu,      \* sched.pse_mcu_quota
  data,     \* sched.pse_data_quota
  max,      \* pse_mcu_quota_max; 0 for none
  held,     \* how many frames of each port the part holds
  freed,    \* the credit it has returned, in its status block
  boot,     \* "capab" and "hwcap", the commands that size it; "up"
  due,      \* the worker is scheduled
  at,       \* where it is: 0 at rest, a ring, or the status block
  nframes,  \* its round has done something
  polls,
  intr,     \* the card's interrupt is enabled
  queued    \* how much of the bound is used

vars == <<ring, mcu, data, max, held, freed, boot, due, at, nframes, polls, intr, queued>>

Status == Rings + 1

\* The first of the two commands that size the part is queued.
Init ==
  /\ ring = [i \in Ring |-> IF i = Rings THEN <<"mcu">> ELSE <<>>]
  /\ mcu = Seed /\ data \in 0..DataTotal /\ max = 0
  /\ held = [p \in Port |-> 0] /\ freed = [p \in Port |-> 0]
  /\ boot = "capab"
  /\ due = TRUE /\ at = 0 /\ nframes = FALSE /\ polls = 0 /\ intr = TRUE
  /\ queued = 0

-----------------------------------------------------------------------------
(* The driver.                                                             *)

\* A command, a management frame or data is queued, and the worker kicked.
\* Management has the mcu port on a data ring too.
Queue(i, p) ==
  /\ boot = "up" /\ queued < Frames
  /\ i = Rings => p = "mcu"
  /\ ring' = [ring EXCEPT ![i] = Append(@, p)]
  /\ due' = TRUE
  /\ queued' = queued + 1
  /\ UNCHANGED <<mcu, data, max, held, freed, boot, at, nframes, polls, intr>>

\* The command out is answered; the part frees a command's buffer before.
Answered ==
  /\ ring[Rings] = <<>>
  /\ held["mcu"] = 0 /\ freed["mcu"] = 0

\* mt7668_mcu_tx_resource has its answer, and mt7668_mcu_hw_cap asks the next. An
\* answer without the totals is no error: the pools stay as the registers gave them.
Sized ==
  /\ boot = "capab" /\ Answered
  /\ boot' = "hwcap"
  /\ \E told \in {TRUE, SizesTold} :
       /\ max' = IF told THEN McuTotal ELSE max
       /\ data' = IF told THEN DataTotal ELSE data
  /\ ring' = [ring EXCEPT ![Rings] = <<"mcu">>]
  /\ due' = TRUE
  /\ UNCHANGED <<mcu, held, freed, at, nframes, polls, intr, queued>>

Up ==
  /\ boot = "hwcap" /\ Answered
  /\ boot' = "up"
  /\ UNCHANGED <<ring, mcu, data, max, held, freed, due, at, nframes, polls, intr, queued>>

-----------------------------------------------------------------------------
(* mt76s_txrx_worker.                                                      *)

Begin ==
  /\ due /\ at = 0
  /\ due' = FALSE
  /\ at' = 1 /\ nframes' = FALSE /\ polls' = 0
  /\ intr' = FALSE
  /\ UNCHANGED <<ring, mcu, data, max, held, freed, boot, queued>>

\* How many of the first n frames of a ring are for the mcu port
\* (mt76s_tx_to_mcu).
ToMcu(i, n) == Cardinality({k \in 1..n : ring[i][k] = "mcu"})

\* Mutant: only the command ring is charged to the pool of the mcu port.
ChargedByRing(i, n) == IF i = Rings THEN n ELSE 0

\* How many of them are charged to its pool.
ChargedToMcu(i, n) == ToMcu(i, n)

\* mt76s_tx_pick_quota lets the first n frames of a ring go.
Fits(i, n) == ChargedToMcu(i, n) <= mcu /\ n - ChargedToMcu(i, n) <= data

\* One write takes the frames that fit, up to the first that does not.
RunQueue ==
  /\ at \in Ring
  /\ \E n \in 0..Len(ring[at]) :
       /\ n <= Batch /\ Fits(at, n)
       /\ n < Len(ring[at]) /\ n < Batch => ~ Fits(at, n + 1)
       /\ ring' = [ring EXCEPT ![at] = SubSeq(@, n + 1, Len(@))]
       /\ held' = [held EXCEPT !["mcu"] = @ + ToMcu(at, n),
                               !["lmac"] = @ + (n - ToMcu(at, n))]
       /\ mcu' = mcu - ChargedToMcu(at, n)
       /\ data' = data - (n - ChargedToMcu(at, n))
       /\ nframes' = (nframes \/ n > 0)
  /\ at' = at + 1
  /\ UNCHANGED <<max, freed, boot, due, polls, intr, queued>>

\* Mutant: the pool is not held to the part's limit.
RefilledUncapped == mcu + freed["mcu"]

\* The pool of the mcu port, once the status block is read.
Refilled ==
  LET sum == mcu + freed["mcu"]
  IN  IF freed = [p \in Port |-> 0] \/ max = 0 \/ sum <= max THEN sum ELSE max

\* Frames wait in some ring (mt76s_txqs_empty).
Waiting == \E i \in Ring : ring[i] # <<>>

\* After a round that did something, another; while frames wait, a few more.
NextRound(busy) ==
  \/ busy /\ at' = 1 /\ polls' = 0
  \/ ~ busy /\ Waiting /\ polls < Polls /\ at' = 1 /\ polls' = polls + 1
  \/ ~ busy /\ ~ (Waiting /\ polls < Polls) /\ at' = Status + 1 /\ UNCHANGED polls

\* mt76s_rx_handler: received frames, if any, and mt76s_refill_sched_quota.
ReadStatus ==
  /\ at = Status
  /\ mcu' = Refilled
  /\ data' = data + freed["lmac"]
  /\ freed' = [p \in Port |-> 0]
  /\ \E received \in BOOLEAN :
       NextRound(nframes \/ received \/ freed # [p \in Port |-> 0])
  /\ nframes' = FALSE
  /\ UNCHANGED <<ring, max, held, boot, due, intr, queued>>

\* Mutant: the interrupt is left disabled while frames wait.
EndUnlessWaiting ==
  /\ at = Status + 1
  /\ at' = 0
  /\ intr' = ~ Waiting
  /\ UNCHANGED <<ring, mcu, data, max, held, freed, boot, due, nframes, polls, queued>>

End ==
  /\ at = Status + 1
  /\ at' = 0
  /\ intr' = TRUE
  /\ UNCHANGED <<ring, mcu, data, max, held, freed, boot, due, nframes, polls, queued>>

-----------------------------------------------------------------------------
(* The part, and the host that looks for its interrupt.                    *)

Free(p) ==
  /\ held[p] > 0
  /\ held' = [held EXCEPT ![p] = @ - 1]
  /\ freed' = [freed EXCEPT ![p] = @ + 1]
  /\ UNCHANGED <<ring, mcu, data, max, boot, due, at, nframes, polls, intr, queued>>

HostLooks ==
  /\ intr /\ freed # [p \in Port |-> 0]
  /\ due' = TRUE
  /\ UNCHANGED <<ring, mcu, data, max, held, freed, boot, at, nframes, polls, intr, queued>>

-----------------------------------------------------------------------------
Worker == Begin \/ RunQueue \/ ReadStatus \/ End

Next ==
  \/ \E i \in Ring, p \in Port : Queue(i, p)
  \/ Sized \/ Up
  \/ Worker
  \/ \E p \in Port : Free(p)
  \/ HostLooks

Spec == Init /\ [][Next]_vars

\* The kernel runs the worker, the host polls the card, the part sends what it
\* holds and answers its commands.
FairSpec ==
  /\ Spec
  /\ WF_vars(Worker) /\ WF_vars(HostLooks)
  /\ \A p \in Port : WF_vars(Free(p))
  /\ WF_vars(Sized) /\ WF_vars(Up)

-----------------------------------------------------------------------------
TypeOK ==
  /\ ring \in [Ring -> Seq(Port)]
  /\ mcu \in Nat /\ data \in Nat /\ max \in {0, McuTotal}
  /\ held \in [Port -> Nat] /\ freed \in [Port -> Nat]
  /\ boot \in {"capab", "hwcap", "up"}
  /\ due \in BOOLEAN /\ at \in 0..(Status + 1) /\ nframes \in BOOLEAN
  /\ polls \in 0..Polls /\ intr \in BOOLEAN /\ queued \in 0..Frames

\* Once the part is up, what is charged is outstanding, in each pool: no credit is
\* lost, none is made up, and none goes to the other pool.
ChargedIsOutstanding ==
  boot = "up" =>
    /\ mcu + held["mcu"] + freed["mcu"] = McuTotal
    /\ data + held["lmac"] + freed["lmac"] = DataTotal

\* The part is never sent more than it holds: the seven-deep command queue is not
\* overrun by commands and management frames together, and the lmac port does not
\* stall the write ("one frame more than the lmac port holds stalls the sdio
\* write behind it", 0008:606).
NeverOverrun == held["mcu"] <= McuTotal /\ held["lmac"] <= DataTotal

\* What is queued is sent, a frame that waits for credit and those behind it too,
\* also when the polling gives up first.
QueuedIsSent == \A i \in Ring : ring[i] # <<>> ~> ring[i] = <<>>
=============================================================================
