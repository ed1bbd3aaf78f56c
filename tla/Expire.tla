------------------------------- MODULE Expire -------------------------------
(***************************************************************************)
(* One call of expire() in release/expire.py, its loop step by step, over  *)
(* every index of a small set: what the loop stops at is what Stanzas says *)
(* is kept, so other modules use that.                                     *)
(***************************************************************************)
EXTENDS Stanzas, FiniteSets

CONSTANTS
  Indexes,    \* the stamped indexes it is called with
  Shipped,    \* the sets of debs a run may have built or reused
  Cutoff      \* the day a replaced version's replacement must not be older than

\* A Packages file is a finite list, and dpkg compares any two of its versions.
ASSUME IndexesAreLists ==
  \A list \in Indexes :
    IsFiniteSet(list) /\ \A s \in list : s.ver.up \in Nat /\ s.ver.rev \in Nat

VARIABLES
  index,     \* sorted, unique and stamped
  shipped,
  kept,      \* the stanzas kept so far
  pc         \* "roots", then "grow" until nothing is added, then "done"

vars == <<index, shipped, kept, pc>>

Init ==
  /\ index \in Indexes
  /\ shipped \in Shipped
  /\ kept = {}
  /\ pc = "roots"

KeepRoots ==
  /\ pc = "roots"
  /\ kept' = Roots(index, Cutoff, shipped)
  /\ pc' = "grow"
  /\ UNCHANGED <<index, shipped>>

\* Mutant: one pass is enough.
GrowOnce ==
  /\ pc = "grow"
  /\ kept' = kept \cup Wanted(index, kept)
  /\ pc' = "done"
  /\ UNCHANGED <<index, shipped>>

Grow ==
  /\ pc = "grow"
  /\ ~ Wanted(index, kept) \subseteq kept
  /\ kept' = kept \cup Wanted(index, kept)
  /\ UNCHANGED <<index, shipped, pc>>

\* Mutant: the loop ends when nothing is wanted, and not when nothing is new.
StopWhenNothingWanted ==
  /\ pc = "grow"
  /\ Wanted(index, kept) = {}
  /\ pc' = "done"
  /\ UNCHANGED <<index, shipped, kept>>

Stop ==
  /\ pc = "grow"
  /\ Wanted(index, kept) \subseteq kept
  /\ pc' = "done"
  /\ UNCHANGED <<index, shipped, kept>>

Next == KeepRoots \/ Grow \/ Stop

Spec == Init /\ [][Next]_vars /\ WF_vars(Next)

-----------------------------------------------------------------------------
\* The loop keeps exactly the least closed set: nothing more, whatever the order
\* the stanzas come in, and nothing less.
LoopKeepsLeast ==
  pc = "done" => kept = Kept(index, Roots(index, Cutoff, shipped))

\* What a box could install before the expiry, it still can: each Depends of a
\* kept deb finds the very deb it found in the whole index.
SameAnswers ==
  pc = "done" => \A s \in kept : \A dep \in s.deps :
    Satisfying(kept, dep) = Satisfying(index, dep)

\* The loop ends.
Ends == <>(pc = "done")
=============================================================================
