-------------------------- MODULE SdioCreditProofs --------------------------
(***************************************************************************)
(* Of SdioCredit, for every number of rings, every size of the part and of  *)
(* a write, and a part that tells its sizes: what is charged is outstanding *)
(* in each pool, and the part is never sent more than it holds.             *)
(***************************************************************************)
EXTENDS SdioCredit, FiniteSetTheorems, SequenceTheorems, TLAPS

\* A command that sizes the part is one frame, and it is alone: queued, with the
\* part, on its way back, or accounted for; the pool is held to the part's limit
\* when the credit of the second is.
OneCommand ==
  \/ ring[Rings] = <<"mcu">> /\ held["mcu"] = 0 /\ freed["mcu"] = 0 /\ mcu = Seed
  \/ ring[Rings] = <<>> /\ held["mcu"] = 1 /\ freed["mcu"] = 0 /\ mcu + 1 = Seed
  \/ ring[Rings] = <<>> /\ held["mcu"] = 0 /\ freed["mcu"] = 1 /\ mcu + 1 = Seed
  \/ /\ ring[Rings] = <<>> /\ held["mcu"] = 0 /\ freed["mcu"] = 0
     /\ mcu = IF boot = "capab" THEN Seed ELSE McuTotal

Booting ==
  boot # "up" =>
    /\ \A i \in Ring : i # Rings => ring[i] = <<>>
    /\ held["lmac"] = 0 /\ freed["lmac"] = 0
    /\ OneCommand

\* The pools have the part's sizes from the first answer on.
Sizes ==
  /\ boot = "capab" => max = 0
  /\ boot # "capab" => max = McuTotal
  /\ boot = "hwcap" => data = DataTotal

IInv == TypeOK /\ Booting /\ Sizes /\ ChargedIsOutstanding

-----------------------------------------------------------------------------
LEMMA Constants ==
  /\ Rings \in Nat /\ Rings >= 1
  /\ McuTotal \in Nat /\ McuTotal >= 1
  /\ DataTotal \in Nat /\ DataTotal >= 1
  /\ Seed \in Nat /\ Seed >= McuTotal
  /\ Batch \in Nat /\ Polls \in Nat /\ Frames \in Nat
BY SizesAreNumbers, SeedIsLarge

\* Pools and counters are numbers.
LEMMA Numbers ==
  ASSUME TypeOK
  PROVE  /\ mcu \in Nat /\ data \in Nat
         /\ held["mcu"] \in Nat /\ held["lmac"] \in Nat
         /\ freed["mcu"] \in Nat /\ freed["lmac"] \in Nat
BY DEF TypeOK, Port

\* No more of the first n frames are for the mcu port than there are.
LEMMA ToMcuType ==
  ASSUME NEW i, NEW n \in Nat
  PROVE  ToMcu(i, n) \in Nat /\ ToMcu(i, n) <= n
<1> DEFINE T == {k \in 1..n : ring[i][k] = "mcu"}
<1>1. IsFiniteSet(1..n) /\ Cardinality(1..n) = n
  BY FS_Interval, SMT
<1>2. IsFiniteSet(T) /\ Cardinality(T) <= Cardinality(1..n)
  BY <1>1, FS_Subset
<1>3. Cardinality(T) \in Nat
  BY <1>2, FS_CardinalityType
<1> QED
  BY <1>1, <1>2, <1>3 DEF ToMcu

\* The first frame of a ring that holds one command is for the mcu port.
LEMMA ToMcuOfCommand ==
  ASSUME NEW i, ring[i] = <<"mcu">>
  PROVE  ToMcu(i, 0) = 0 /\ ToMcu(i, 1) = 1
<1>1. {k \in 1..0 : ring[i][k] = "mcu"} = {}
  OBVIOUS
<1>2. {k \in 1..1 : ring[i][k] = "mcu"} = {1}
  OBVIOUS
<1>3. Cardinality({}) = 0
  BY FS_EmptySet
<1>4. Cardinality({1}) = 1
  BY FS_Singleton
<1> QED
  BY <1>1, <1>2, <1>3, <1>4 DEF ToMcu

LEMMA Initially == Init => IInv
<1> SUFFICES ASSUME Init PROVE IInv
  OBVIOUS
<1> USE Constants DEF Init
<1>1. TypeOK
  <2>1. <<"mcu">> \in Seq(Port) /\ <<>> \in Seq(Port)
    BY DEF Port
  <2>2. ring \in [Ring -> Seq(Port)]
    BY <2>1
  <2>3. held \in [Port -> Nat] /\ freed \in [Port -> Nat]
    OBVIOUS
  <2>4. mcu \in Nat /\ data \in Nat /\ at \in 0..(Status + 1)
    BY DEF Status
  <2>5. polls \in 0..Polls /\ queued \in 0..Frames
    OBVIOUS
  <2> QED
    BY <2>2, <2>3, <2>4, <2>5 DEF TypeOK
<1>2. Booting
  BY DEF Booting, OneCommand, Ring, Port
<1>3. Sizes /\ ChargedIsOutstanding
  BY DEF Sizes, ChargedIsOutstanding
<1> QED
  BY <1>1, <1>2, <1>3 DEF IInv

-----------------------------------------------------------------------------
(* One lemma for each action that moves frames or credit.                  *)

LEMMA QueueKeeps ==
  ASSUME IInv, NEW i \in Ring, NEW p \in Port, Queue(i, p)
  PROVE  IInv'
<1> USE Constants DEF IInv, Queue
<1>1. TypeOK'
  <2>1. ring' \in [Ring -> Seq(Port)]
    BY DEF TypeOK
  <2>2. queued' \in 0..Frames
    BY DEF TypeOK
  <2> QED
    BY <2>1, <2>2 DEF TypeOK
<1>2. Booting' /\ Sizes' /\ ChargedIsOutstanding'
  BY DEF Booting, Sizes, ChargedIsOutstanding
<1> QED
  BY <1>1, <1>2

LEMMA SizedKeeps ==
  ASSUME SizesTold, IInv, Sized
  PROVE  IInv'
<1> USE Constants DEF IInv, Sized, Answered
<1>1. max' = McuTotal /\ data' = DataTotal
  OBVIOUS
<1>2. TypeOK'
  <2>1. ring' \in [Ring -> Seq(Port)]
    BY DEF TypeOK, Port, Ring
  <2> QED
    BY <1>1, <2>1 DEF TypeOK
<1>3. ring'[Rings] = <<"mcu">> /\ \A i \in Ring : i # Rings => ring'[i] = ring[i]
  BY DEF TypeOK, Ring
<1>4. Booting'
  BY <1>3 DEF Booting, OneCommand
<1>5. Sizes' /\ ChargedIsOutstanding'
  BY <1>1 DEF Sizes, ChargedIsOutstanding
<1> QED
  BY <1>2, <1>4, <1>5

LEMMA UpKeeps ==
  ASSUME IInv, Up
  PROVE  IInv'
<1> USE Constants DEF IInv, Up, Answered
<1>1. TypeOK'
  BY DEF TypeOK
<1>2. mcu = McuTotal
  BY DEF Booting, OneCommand, TypeOK, Port
<1>3. Booting' /\ Sizes' /\ ChargedIsOutstanding'
  BY <1>2 DEF Booting, Sizes, ChargedIsOutstanding, TypeOK, Port
<1> QED
  BY <1>1, <1>3

\* A write charges to each pool what it sends to that port.
LEMMA RunQueueKeeps ==
  ASSUME IInv, RunQueue
  PROVE  IInv'
<1> USE Constants DEF IInv
<1>1. at \in Ring /\ at' = at + 1
  BY DEF RunQueue
<1>2. PICK n \in 0..Len(ring[at]) :
        /\ n <= Batch /\ Fits(at, n)
        /\ n < Len(ring[at]) /\ n < Batch => ~ Fits(at, n + 1)
        /\ ring' = [ring EXCEPT ![at] = SubSeq(@, n + 1, Len(@))]
        /\ held' = [held EXCEPT !["mcu"] = @ + ToMcu(at, n),
                                !["lmac"] = @ + (n - ToMcu(at, n))]
        /\ mcu' = mcu - ChargedToMcu(at, n)
        /\ data' = data - (n - ChargedToMcu(at, n))
        /\ nframes' = (nframes \/ n > 0)
  BY DEF RunQueue
<1>3. UNCHANGED <<max, freed, boot, due, polls, intr, queued>>
  BY DEF RunQueue
<1>4. ring[at] \in Seq(Port) /\ Len(ring[at]) \in Nat /\ n \in Nat
  BY <1>1, <1>2 DEF TypeOK
<1> DEFINE m == ToMcu(at, n)
<1>5. m \in Nat /\ m <= n /\ m = ChargedToMcu(at, n)
  BY <1>4, ToMcuType DEF ChargedToMcu
<1> HIDE DEF m
<1>6. m <= mcu /\ n - m <= data
  BY <1>2, <1>5 DEF Fits
<1>7. mcu' = mcu - m /\ data' = data - (n - m) /\ mcu' \in Nat /\ data' \in Nat
  <2>1. mcu' = mcu - m /\ data' = data - (n - m)
    BY <1>2, <1>5
  <2>2. mcu \in Nat /\ data \in Nat
    BY Numbers
  <2> QED
    BY <2>1, <2>2, <1>4, <1>5, <1>6
<1>8. /\ held' \in [Port -> Nat]
      /\ held'["mcu"] = held["mcu"] + m
      /\ held'["lmac"] = held["lmac"] + (n - m)
  BY <1>2, <1>4, <1>5 DEF TypeOK, Port, m
<1>9. SubSeq(ring[at], n + 1, Len(ring[at])) \in Seq(Port)
  BY <1>2, <1>4, SubSeqProperties
<1>10. TypeOK'
  <2>1. ring' \in [Ring -> Seq(Port)]
    BY <1>1, <1>2, <1>9 DEF TypeOK
  <2>2. at' \in 0..(Status + 1) /\ nframes' \in BOOLEAN
    BY <1>1, <1>2 DEF TypeOK, Ring, Status
  <2> QED
    BY <1>3, <1>7, <1>8, <2>1, <2>2 DEF TypeOK
<1>11. ChargedIsOutstanding'
  <2>1. /\ mcu' + held'["mcu"] = mcu + held["mcu"]
        /\ data' + held'["lmac"] = data + held["lmac"]
    <3>1. /\ mcu \in Nat /\ data \in Nat
          /\ held["mcu"] \in Nat /\ held["lmac"] \in Nat
      BY Numbers
    <3>2. (mcu - m) + (held["mcu"] + m) = mcu + held["mcu"]
      BY <3>1, <1>5
    <3>3. (data - (n - m)) + (held["lmac"] + (n - m)) = data + held["lmac"]
      BY <3>1, <1>4, <1>5
    <3> QED
      BY <3>2, <3>3, <1>7, <1>8
  <2>2. /\ mcu' + held'["mcu"] + freed'["mcu"] = mcu + held["mcu"] + freed["mcu"]
        /\ data' + held'["lmac"] + freed'["lmac"] = data + held["lmac"] + freed["lmac"]
    BY <2>1, <1>3
  <2> QED
    BY <2>2, <1>3 DEF ChargedIsOutstanding
<1>12. Sizes'
  <2>1. CASE boot = "hwcap" /\ ring[at] = <<"mcu">>
    BY <2>1, <1>2, <1>3, <1>4, <1>5, <1>7, ToMcuOfCommand DEF Sizes, TypeOK, m
  <2>2. CASE boot = "hwcap" /\ ring[at] = <<>>
    BY <2>2, <1>2, <1>3, <1>4, <1>5, <1>7 DEF Sizes, TypeOK
  <2>3. CASE boot # "hwcap"
    BY <2>3, <1>3 DEF Sizes
  <2> QED
    BY <2>1, <2>2, <2>3, <1>1 DEF Booting, OneCommand, Ring
<1>13. Booting'
  <2> SUFFICES ASSUME boot # "up" PROVE Booting'
    BY <1>3 DEF Booting
  <2>1. CASE n = 0
    <3>1. m = 0
      BY <2>1, <1>5, <1>4
    <3>2. ring[at] = <<>> \/ ring[at] = <<"mcu">>
      BY <1>1 DEF Booting, OneCommand, Ring
    <3>3. SubSeq(ring[at], 1, Len(ring[at])) = ring[at]
      <4> QED
        BY <1>4, SubSeqFull
    <3>4. ring' = ring
      BY <2>1, <3>3, <1>1, <1>2 DEF TypeOK
    <3>5. mcu' = mcu /\ held'["mcu"] = held["mcu"] /\ held'["lmac"] = held["lmac"]
      BY <2>1, <3>1, <1>7, <1>8, Numbers
    <3> QED
      BY <3>4, <3>5, <1>3 DEF Booting, OneCommand
  <2>2. CASE n # 0
    <3>1. at = Rings /\ ring[at] = <<"mcu">> /\ n = 1
      <4>1. Len(<<>>) = 0 /\ Len(<<"mcu">>) = 1
        OBVIOUS
      <4>2. ring[at] # <<>>
        BY <4>1, <2>2, <1>4
      <4>3. at = Rings
        BY <4>2, <1>1 DEF Booting
      <4>4. ring[at] = <<"mcu">>
        BY <4>2, <4>3 DEF Booting, OneCommand
      <4>5. n = 1
        BY <4>1, <4>4, <2>2, <1>4
      <4> QED
        BY <4>3, <4>4, <4>5
    <3>2. m = 1
      BY <3>1, ToMcuOfCommand DEF m
    <3>3. ring'[Rings] = <<>>
      <4>1. SubSeq(<<"mcu">>, 2, 1) = <<>>
        OBVIOUS
      <4>2. ring'[Rings] = SubSeq(ring[at], n + 1, Len(ring[at]))
        BY <3>1, <1>1, <1>2 DEF TypeOK
      <4> QED
        BY <3>1, <4>1, <4>2
    <3>4. \A i \in Ring : i # Rings => ring'[i] = ring[i]
      BY <3>1, <1>2 DEF TypeOK
    <3>5. held["mcu"] = 0 /\ freed["mcu"] = 0 /\ mcu = Seed
      <4>1. <<"mcu">> # <<>>
        OBVIOUS
      <4> QED
        BY <3>1, <4>1 DEF Booting, OneCommand
    <3>6. held'["mcu"] = 1 /\ held'["lmac"] = held["lmac"] /\ mcu' + 1 = Seed
      BY <3>1, <3>2, <3>5, <1>7, <1>8, Numbers
    <3> QED
      BY <3>3, <3>4, <3>5, <3>6, <1>3 DEF Booting, OneCommand
  <2> QED
    BY <2>1, <2>2
<1> QED
  BY <1>10, <1>11, <1>12, <1>13

\* What the status block returns goes back to the pool it came from; the limit
\* only ever cuts the pool the registers gave.
LEMMA ReadStatusKeeps ==
  ASSUME IInv, ReadStatus
  PROVE  IInv'
<1> USE Constants DEF IInv
<1>1. /\ mcu' = Refilled /\ data' = data + freed["lmac"]
      /\ freed' = [p \in Port |-> 0] /\ nframes' = FALSE
      /\ UNCHANGED <<ring, max, held, boot, due, intr, queued>>
  BY DEF ReadStatus
<1>2. at' \in {1, Status + 1} /\ polls' \in 0..Polls
  BY DEF ReadStatus, NextRound, TypeOK
<1>3. freed'["mcu"] = 0 /\ freed'["lmac"] = 0
  BY <1>1 DEF Port
<1>4. TypeOK'
  <2>1. mcu' \in Nat
    BY <1>1 DEF Refilled, TypeOK, Port
  <2>2. data' \in Nat
    BY <1>1 DEF TypeOK, Port
  <2>3. at' \in 0..(Status + 1)
    BY <1>2 DEF Status
  <2>4. freed' \in [Port -> Nat]
    BY <1>1
  <2> QED
    BY <1>1, <1>2, <2>1, <2>2, <2>3, <2>4 DEF TypeOK
<1>5. ChargedIsOutstanding'
  <2> SUFFICES ASSUME boot = "up" PROVE ChargedIsOutstanding'
    BY <1>1 DEF ChargedIsOutstanding
  <2>1. max = McuTotal /\ mcu + freed["mcu"] <= max
    BY DEF Sizes, ChargedIsOutstanding, TypeOK, Port
  <2>2. mcu' = mcu + freed["mcu"]
    BY <2>1, <1>1 DEF Refilled
  <2> QED
    BY <2>2, <1>1, <1>3 DEF ChargedIsOutstanding, TypeOK, Port
<1>6. Sizes'
  BY <1>1 DEF Sizes, Booting, TypeOK, Port
<1>7. Booting'
  <2> SUFFICES ASSUME boot # "up" PROVE Booting'
    BY <1>1 DEF Booting
  <2>1. CASE freed["mcu"] = 0
    <3>1. freed = [p \in Port |-> 0]
      BY <2>1 DEF Booting, TypeOK, Port
    <3>2. mcu' = mcu
      BY <2>1, <3>1, <1>1 DEF Refilled, TypeOK
    <3> QED
      BY <2>1, <3>2, <1>1, <1>3 DEF Booting, OneCommand
  <2>2. CASE freed["mcu"] # 0
    <3>1. /\ ring[Rings] = <<>> /\ held["mcu"] = 0 /\ mcu + freed["mcu"] = Seed
      BY <2>2 DEF Booting, OneCommand
    <3>2. freed # [p \in Port |-> 0]
      BY <2>2 DEF Port
    <3>3. mcu' = IF boot = "capab" THEN Seed ELSE McuTotal
      BY <3>1, <3>2, <1>1 DEF Refilled, Sizes, TypeOK
    <3> QED
      BY <3>1, <3>3, <1>1, <1>3 DEF Booting, OneCommand
  <2> QED
    BY <2>1, <2>2
<1> QED
  BY <1>4, <1>5, <1>6, <1>7

LEMMA FreeKeeps ==
  ASSUME IInv, NEW p \in Port, Free(p)
  PROVE  IInv'
<1> USE Constants DEF IInv, Free
<1>1. /\ held' \in [Port -> Nat] /\ freed' \in [Port -> Nat]
      /\ \A q \in Port : held'[q] + freed'[q] = held[q] + freed[q]
  BY DEF TypeOK
<1>2. TypeOK'
  BY <1>1 DEF TypeOK
<1>3. ChargedIsOutstanding'
  <2>1. /\ held'["mcu"] + freed'["mcu"] = held["mcu"] + freed["mcu"]
        /\ held'["lmac"] + freed'["lmac"] = held["lmac"] + freed["lmac"]
    BY <1>1 DEF Port
  <2>2. /\ held'["mcu"] \in Nat /\ held'["lmac"] \in Nat
        /\ freed'["mcu"] \in Nat /\ freed'["lmac"] \in Nat
    BY <1>1 DEF Port
  <2> QED
    BY <2>1, <2>2, Numbers DEF ChargedIsOutstanding
<1>4. Sizes'
  BY DEF Sizes
<1>5. Booting'
  BY DEF Booting, OneCommand, TypeOK, Port
<1> QED
  BY <1>2, <1>3, <1>4, <1>5

\* The worker's and the host's steps that move no frame and no credit.
LEMMA OthersKeep ==
  ASSUME IInv, Begin \/ End \/ HostLooks \/ UNCHANGED vars
  PROVE  IInv'
<1> USE Constants DEF IInv
<1>1. /\ UNCHANGED <<ring, mcu, data, max, held, freed, boot, queued>>
      /\ at' \in 0..(Status + 1) /\ polls' \in 0..Polls
      /\ due' \in BOOLEAN /\ nframes' \in BOOLEAN /\ intr' \in BOOLEAN
  <2>1. CASE Begin
    <3>1. 1 \in 0..(Status + 1) /\ 0 \in 0..Polls
      BY DEF Status
    <3> QED
      BY <2>1, <3>1 DEF Begin
  <2>2. CASE End
    BY <2>2 DEF End, TypeOK, Status
  <2>3. CASE HostLooks
    BY <2>3 DEF HostLooks, TypeOK
  <2>4. CASE UNCHANGED vars
    BY <2>4 DEF vars, TypeOK
  <2> QED
    BY <2>1, <2>2, <2>3, <2>4
<1>2. TypeOK'
  BY <1>1 DEF TypeOK
<1>3. Booting' /\ Sizes' /\ ChargedIsOutstanding'
  BY <1>1 DEF Booting, OneCommand, Sizes, ChargedIsOutstanding
<1> QED
  BY <1>2, <1>3

LEMMA Step ==
  ASSUME SizesTold
  PROVE  IInv /\ [Next]_vars => IInv'
<1> SUFFICES ASSUME IInv, [Next]_vars PROVE IInv'
  OBVIOUS
<1>1. ASSUME NEW i \in Ring, NEW p \in Port, Queue(i, p) PROVE IInv'
  BY <1>1, QueueKeeps
<1>2. CASE Sized \/ Up
  BY <1>2, SizedKeeps, UpKeeps
<1>3. CASE RunQueue
  BY <1>3, RunQueueKeeps
<1>4. CASE ReadStatus
  BY <1>4, ReadStatusKeeps
<1>5. ASSUME NEW p \in Port, Free(p) PROVE IInv'
  BY <1>5, FreeKeeps
<1>6. CASE Begin \/ End \/ HostLooks \/ UNCHANGED vars
  BY <1>6, OthersKeep
<1> QED
  BY <1>1, <1>2, <1>3, <1>4, <1>5, <1>6 DEF Next, Worker

LEMMA Invariance ==
  ASSUME SizesTold
  PROVE  Spec => []IInv
<1>1. IInv /\ [Next]_vars => IInv'
  BY Step
<1> QED
  BY Initially, <1>1, PTL DEF Spec

-----------------------------------------------------------------------------
\* The worker and a part that tells its sizes keep to their types: no pool is ever
\* charged below zero.
THEOREM CreditTypes ==
  ASSUME SizesTold
  PROVE  Spec => []TypeOK
<1>1. IInv => TypeOK
  BY DEF IInv
<1> QED
  BY Invariance, <1>1, PTL

\* If the part tells its sizes, what each pool is charged is outstanding once it is
\* up, whatever the rings hold: by mt76s_tx_run_queue's two sums and
\* mt76s_refill_sched_quota's two counters.
THEOREM CreditIsKept ==
  ASSUME SizesTold
  PROVE  Spec => []ChargedIsOutstanding
<1>1. IInv => ChargedIsOutstanding
  BY DEF IInv
<1> QED
  BY Invariance, <1>1, PTL

\* Neither port of a part that tells its sizes is ever sent more frames than it
\* holds.
THEOREM PartIsNotOverrun ==
  ASSUME SizesTold
  PROVE  Spec => []NeverOverrun
<1>1. IInv => NeverOverrun
  <2> SUFFICES ASSUME IInv PROVE NeverOverrun
    OBVIOUS
  <2> USE Constants DEF IInv, NeverOverrun
  <2>1. CASE boot = "up"
    BY <2>1 DEF ChargedIsOutstanding, TypeOK, Port
  <2>2. CASE boot # "up"
    BY <2>2 DEF Booting, OneCommand
  <2> QED
    BY <2>1, <2>2
<1> QED
  BY Invariance, <1>1, PTL
=============================================================================
