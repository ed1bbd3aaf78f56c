---------------------------- MODULE ExpireProofs ----------------------------
(***************************************************************************)
(* For any indexes, whatever was built and whatever the cutoff: the loop   *)
(* of expire() stops at the least set that keeps what it wants, and a      *)
(* Depends finds in it what it found before.                               *)
(***************************************************************************)
EXTENDS Expire, FiniteSetTheorems, WellFoundedInduction, TLAPS

-----------------------------------------------------------------------------
(* The loop.                                                               *)

\* More kept is more wanted.
LEMMA WantedGrows ==
  ASSUME NEW all, NEW few, NEW many, few \subseteq many
  PROVE  Wanted(all, few) \subseteq Wanted(all, many)
BY DEF Wanted

\* Nothing that can go together has been kept.
NoneTooMany ==
  \A gone \in SUBSET (index \ Roots(index, Cutoff, shipped)) :
    Droppable(index, Roots(index, Cutoff, shipped), gone) => gone \cap kept = {}

ExpireInv ==
  /\ index \in Indexes
  /\ pc # "roots" =>
       /\ Roots(index, Cutoff, shipped) \subseteq kept
       /\ kept \subseteq index
       /\ NoneTooMany
  /\ pc = "done" => Wanted(index, kept) \subseteq kept

LEMMA ExpireInit == Init => ExpireInv
BY DEF Init, ExpireInv

\* What is wanted of what has been kept is wanted of all that is left when any
\* droppable ones go.
LEMMA GrowKeepsLeast ==
  ASSUME ExpireInv, pc # "roots"
  PROVE  \A gone \in SUBSET (index \ Roots(index, Cutoff, shipped)) :
           Droppable(index, Roots(index, Cutoff, shipped), gone) =>
             gone \cap Wanted(index, kept) = {}
<1> SUFFICES ASSUME NEW gone \in SUBSET (index \ Roots(index, Cutoff, shipped)),
                    Droppable(index, Roots(index, Cutoff, shipped), gone)
             PROVE  gone \cap Wanted(index, kept) = {}
  OBVIOUS
<1>1. kept \subseteq index \ gone
  BY DEF ExpireInv, NoneTooMany
<1>2. Wanted(index, kept) \subseteq Wanted(index, index \ gone)
  BY <1>1, WantedGrows
<1> QED BY <1>2 DEF Droppable

LEMMA ExpireStep == ExpireInv /\ [Next]_vars => ExpireInv'
<1> SUFFICES ASSUME ExpireInv, [Next]_vars PROVE ExpireInv'
  OBVIOUS
<1> DEFINE roots == Roots(index, Cutoff, shipped)
<1>1. CASE KeepRoots
  <2>1. /\ index' = index /\ shipped' = shipped /\ kept' = roots /\ pc' = "grow"
    BY <1>1 DEF KeepRoots
  <2>2. roots' = roots
    BY <2>1
  <2>3. roots \subseteq index
    BY DEF Roots
  <2>4. NoneTooMany'
    BY <2>1, <2>2 DEF NoneTooMany
  <2> QED BY <2>1, <2>2, <2>3, <2>4 DEF ExpireInv
<1>2. CASE Grow
  <2>1. /\ index' = index /\ shipped' = shipped /\ pc' = pc /\ pc = "grow"
        /\ kept' = kept \cup Wanted(index, kept)
    BY <1>2 DEF Grow
  <2>2. roots' = roots
    BY <2>1
  <2>3. roots \subseteq kept' /\ kept' \subseteq index
    BY <2>1 DEF ExpireInv, Wanted, Satisfying
  <2>4. NoneTooMany'
    <3>1. \A gone \in SUBSET (index \ roots) :
            Droppable(index, roots, gone) => gone \cap kept' = {}
      BY <2>1, GrowKeepsLeast DEF ExpireInv, NoneTooMany
    <3>2. \A gone : Droppable(index, roots, gone)' <=> Droppable(index, roots, gone)
      BY <2>1, <2>2 DEF Droppable
    <3> HIDE DEF roots
    <3> QED BY <2>1, <2>2, <3>1, <3>2 DEF NoneTooMany, roots, Droppable
  <2> QED BY <2>1, <2>2, <2>3, <2>4 DEF ExpireInv
<1>3. CASE Stop
  <2>1. /\ UNCHANGED <<index, shipped, kept>> /\ pc = "grow" /\ pc' = "done"
        /\ Wanted(index, kept) \subseteq kept
    BY <1>3 DEF Stop
  <2> QED BY <2>1 DEF ExpireInv, NoneTooMany
<1>4. CASE UNCHANGED vars
  BY <1>4 DEF vars, ExpireInv, NoneTooMany
<1> QED BY <1>1, <1>2, <1>3, <1>4 DEF Next

LEMMA AlwaysExpire == Spec => []ExpireInv
BY ExpireInit, ExpireStep, PTL DEF Spec

\* What the loop stops at is the least set with the roots that keeps all it
\* wants, in whatever order the stanzas come (release/expire.py, the loop of
\* expire).
THEOREM LeastIsKept == Spec => []LoopKeepsLeast
<1>1. ExpireInv => LoopKeepsLeast
  <2> SUFFICES ASSUME ExpireInv, pc = "done"
               PROVE  kept = Kept(index, Roots(index, Cutoff, shipped))
    BY DEF LoopKeepsLeast
  <2> DEFINE roots == Roots(index, Cutoff, shipped)
  <2> DEFINE all == UNION {gone \in SUBSET (index \ roots) : Droppable(index, roots, gone)}
  <2>1. /\ roots \subseteq kept /\ kept \subseteq index /\ Wanted(index, kept) \subseteq kept
        /\ \A gone \in SUBSET (index \ roots) :
             Droppable(index, roots, gone) => gone \cap kept = {}
    BY DEF ExpireInv, NoneTooMany
  <2> HIDE DEF roots
  <2>2. index \ (index \ kept) = kept
    BY <2>1
  <2>3. Droppable(index, roots, index \ kept)
    BY <2>1, <2>2 DEF Droppable
  <2>4. index \ kept \in SUBSET (index \ roots)
    BY <2>1
  <2>5. all = index \ kept
    BY <2>1, <2>3, <2>4
  <2>6. Kept(index, roots) = index \ all
    BY DEF Kept
  <2> QED BY <2>2, <2>5, <2>6 DEF roots
<1> QED BY <1>1, AlwaysExpire, PTL

-----------------------------------------------------------------------------
(* A finite list has a last of any of its stanzas.                         *)

Below == {ss \in Nat \X Nat : ss[1] < ss[2]}

LEMMA Least ==
  ASSUME NEW T, T \subseteq Nat, T # {}
  PROVE  \E x \in T : \A y \in T : x <= y
<1>1. IsWellFoundedOn(Below, Nat)
  BY NatLessThanWellFounded DEF OpToRel, Below
<1>2. PICK x \in T : \A y \in T : <<y, x>> \notin Below
  BY <1>1, WFMin
<1>3. ASSUME NEW y \in T PROVE x <= y
  <2>1. x \in Nat /\ y \in Nat
    OBVIOUS
  <2>2. ~ (y < x)
    BY <1>2, <2>1 DEF Below
  <2> QED BY <2>1, <2>2
<1> QED BY <1>3

\* That with the fewest newer ones.
LEMMA LastOfList ==
  ASSUME NEW T, IsFiniteSet(T), T # {}, \A t \in T : t.ver.up \in Nat /\ t.ver.rev \in Nat
  PROVE  \E w \in T : \A x \in T : ~ Older(w.ver, x.ver)
<1> DEFINE After(t) == {x \in T : Older(t.ver, x.ver)}
<1> DEFINE Counts == {Cardinality(After(t)) : t \in T}
<1>1. \A t \in T : IsFiniteSet(After(t)) /\ Cardinality(After(t)) \in Nat
  BY FS_Subset, FS_CardinalityType
<1>2. PICK c \in Counts : \A d \in Counts : c <= d
  <2>1. Counts \subseteq Nat /\ Counts # {}
    BY <1>1
  <2> HIDE DEF Counts
  <2> QED BY <2>1, Least
<1>3. PICK w \in T : c = Cardinality(After(w))
  BY <1>2
<1>4. ASSUME NEW x \in T, Older(w.ver, x.ver) PROVE FALSE
  <2>1. After(x) \subseteq After(w) /\ x \in After(w) /\ x \notin After(x)
    <3>1. ~ Older(x.ver, x.ver)
      BY DEF Older
    <3>2. ASSUME NEW y \in T, Older(x.ver, y.ver) PROVE Older(w.ver, y.ver)
      BY <1>4, <3>2 DEF Older
    <3> QED BY <1>4, <3>1, <3>2
  <2>2. c <= Cardinality(After(x))
    BY <1>2
  <2> HIDE DEF After
  <2>3. /\ Cardinality(After(x)) <= Cardinality(After(w))
        /\ Cardinality(After(w)) = Cardinality(After(x)) <=> After(w) = After(x)
    BY <1>1, <2>1, FS_Subset
  <2>4. Cardinality(After(x)) # Cardinality(After(w))
    BY <2>1, <2>3
  <2> QED BY <1>1, <1>3, <2>2, <2>3, <2>4
<1> QED BY <1>3, <1>4

\* Each Depends of a kept deb finds the very deb it found in the whole index
\* (release/expire.py, satisfying and the loop of expire).
THEOREM AnswersStay == Spec => []SameAnswers
<1>1. ExpireInv => SameAnswers
  <2> SUFFICES ASSUME ExpireInv, pc = "done", NEW s \in kept, NEW dep \in s.deps
               PROVE  Satisfying(kept, dep) = Satisfying(index, dep)
    BY DEF SameAnswers
  <2>1. /\ kept \subseteq index /\ Wanted(index, kept) \subseteq kept /\ IsFiniteSet(index)
        /\ \A x \in index : x.ver.up \in Nat /\ x.ver.rev \in Nat
    BY IndexesAreLists DEF ExpireInv
  <2>2. Satisfying(index, dep) \subseteq kept
    BY <2>1 DEF Wanted
  <2>3. ASSUME NEW x \in Satisfying(index, dep) PROVE x \in Satisfying(kept, dep)
    BY <2>1, <2>2 DEF Satisfying, Newer
  <2>4. ASSUME NEW x \in Satisfying(kept, dep) PROVE x \in Satisfying(index, dep)
    <3>1. x \in kept /\ Allows(dep, x) /\ \A t \in Newer(kept, x) : ~ Allows(dep, t)
      BY DEF Satisfying
    <3>2. ASSUME NEW u \in Newer(index, x), Allows(dep, u) PROVE FALSE
      <4> DEFINE T == {t \in index : Allows(dep, t)}
      <4>1. u \in T /\ Older(x.ver, u.ver)
        BY <3>2 DEF Newer
      <4>2. PICK w \in T : \A t \in T : ~ Older(w.ver, t.ver)
        <5>1. IsFiniteSet(T) /\ T # {} /\ \A t \in T : t.ver.up \in Nat /\ t.ver.rev \in Nat
          BY <2>1, <4>1, FS_Subset
        <5> HIDE DEF T
        <5> QED BY <5>1, LastOfList
      <4>3. w \in Satisfying(index, dep)
        BY <4>2 DEF Satisfying, Newer
      <4>4. w \in kept /\ w.pkg = x.pkg
        BY <2>2, <3>1, <4>2, <4>3 DEF Allows
      <4>5. Older(x.ver, w.ver)
        <5>1. ~ Older(w.ver, u.ver)
          BY <4>1, <4>2
        <5>2. /\ w.ver.up \in Nat /\ w.ver.rev \in Nat /\ u.ver.up \in Nat
              /\ u.ver.rev \in Nat /\ x.ver.up \in Nat /\ x.ver.rev \in Nat
          BY <2>1, <3>1, <4>1, <4>4
        <5> QED BY <4>1, <5>1, <5>2 DEF Older
      <4> QED BY <3>1, <4>2, <4>4, <4>5 DEF Newer
    <3> QED BY <2>1, <3>1, <3>2 DEF Satisfying
  <2> QED BY <2>3, <2>4
<1> QED BY <1>1, AlwaysExpire, PTL
=============================================================================
